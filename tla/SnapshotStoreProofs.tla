------------------------- MODULE SnapshotStoreProofs -------------------------
(***************************************************************************)
(* The proofs about snapshots, for every set of paths and contents, any    *)
(* number of captures and any edits between their calls: a capture that    *)
(* succeeds has captured one tree of the repository                        *)
(* (RepositorySnapshotStore.capture), a worktree materialized from it has  *)
(* its identity, and it can be materialized unless its files have two      *)
(* orders or the deletion of a file was staged (materialize).              *)
(***************************************************************************)
EXTENDS SnapshotStore, WellFoundedInduction, TLAPS

-----------------------------------------------------------------------------
(* The inductive invariant                                                 *)

\* HEAD, the tree and the index at some time; what has been at a path, and what
\* HEAD has named, since the capture began.
Moment == Tree \X Tree \X SUBSET Path
Values(c, p) == {s[2][p] : s \in during[c]}
Heads(c) == {s[1] : s \in during[c]}

\* A look has the fields of a look, and its entries are entries.
IsLook(r) ==
    /\ r = [head |-> r.head, status |-> r.status, untracked |-> r.untracked,
            diff |-> r.diff, tracked |-> r.tracked, paths |-> r.paths,
            entries |-> r.entries]
    /\ r.entries \in Entries

Looking(c) == cap[c].at \in {"head", "status", "untracked", "diff", "tracked", "paths", "read"}
Second(c) == cap[c].first # NoLook

\* The state of one capture is well formed; one that runs has seen the present.
Formed(c) ==
    /\ cap[c] = [at |-> cap[c].at, first |-> cap[c].first, look |-> cap[c].look]
    /\ cap[c].at \in Lookers /\ IsLook(cap[c].first) /\ IsLook(cap[c].look)
    /\ cap[c].at = "idle" => cap[c].first = NoLook /\ cap[c].look = NoLook
    /\ (Looking(c) /\ Second(c)) \/ cap[c].at \in {"rename", "done", "filed"} =>
         cap[c].first.head \in Tree
    /\ Running(c) => <<head, tree, index>> \in during[c]

\* What a look has read was there at some time since the capture began.
WasThere(c) ==
    Looking(c) =>
      /\ cap[c].at # "head" => cap[c].look.head \in Heads(c)
      /\ \A p \in Path : cap[c].look.entries[p] # Unlisted =>
           cap[c].look.entries[p] \in Values(c, p)
      /\ cap[c].at = "read" => \A p \in Path \ cap[c].look.paths : Absent \in Values(c, p)

\* A value that was there and is not any more
GoneHead(c, h) == h # head /\ h \in Heads(c)
GoneValue(c, p, v) == v # tree[p] /\ v \in Values(c, p)

\* s was the state between the looks: what the first look read was there in s
\* or is gone, and what the second look has found again was there in s.
Between(c, s) ==
    /\ s[1] = cap[c].first.head \/ GoneHead(c, cap[c].first.head)
    /\ cap[c].at # "head" /\ cap[c].look.head = cap[c].first.head => s[1] = cap[c].first.head
    /\ \A p \in Path :
         /\ \/ s[2][p] = TreeOf(cap[c].first.entries)[p]
            \/ GoneValue(c, p, TreeOf(cap[c].first.entries)[p])
         /\ /\ cap[c].look.entries[p] # Unlisted
            /\ cap[c].look.entries[p] = cap[c].first.entries[p]
            => s[2][p] = TreeOf(cap[c].first.entries)[p]
         /\ /\ cap[c].at = "read" /\ p \notin cap[c].look.paths
            /\ cap[c].first.entries[p] = Unlisted
            => s[2][p] = TreeOf(cap[c].first.entries)[p]

FoundAgain(c) == Looking(c) /\ Second(c) => \E s \in during[c] : Between(c, s)

Captured(c) ==
    cap[c].at \in {"rename", "done", "filed"} =>
      <<cap[c].first.head, TreeOf(cap[c].first.entries)>> \in {<<s[1], s[2]>> : s \in during[c]}

Good(c) ==
    Formed(c) /\ WasThere(c) /\ (c \notin restored => FoundAgain(c) /\ Captured(c))

\* The tree, the stores and the candidates
Typed ==
    /\ tree \in Tree /\ head \in Tree /\ index \subseteq Path
    /\ cap = [c \in Capture |-> cap[c]]
    /\ during \in [Capture -> SUBSET Moment]
    /\ restored \subseteq Capture

IInv == Typed /\ \A c \in Capture : Good(c)

-----------------------------------------------------------------------------
(* Operators of the model                                                  *)

\* The calls of a look
LEMMA CallNames == ToSet(Calls) = {"head", "status", "untracked", "diff", "tracked", "paths"}
<1>1. Len(Calls) = 6 /\ DOMAIN Calls = 1..6
  BY DEF Calls
<1>2. /\ Calls[1] = "head" /\ Calls[2] = "status" /\ Calls[3] = "untracked"
      /\ Calls[4] = "diff" /\ Calls[5] = "tracked" /\ Calls[6] = "paths"
  BY DEF Calls
<1>3. 1..6 = {1, 2, 3, 4, 5, 6}
  OBVIOUS
<1> QED
  BY <1>1, <1>2, <1>3 DEF ToSet

\* After lists the calls in their order and ends with the reading of paths.
LEMMA AfterCall ==
  ASSUME NEW x \in ToSet(Calls)
  PROVE  /\ After(x) \in {"status", "untracked", "diff", "tracked", "paths", "read"}
         /\ After(x) = "read" <=> x = "paths"
<1>1. Len(Calls) = 6 /\ DOMAIN Calls = {1, 2, 3, 4, 5, 6}
  BY DEF Calls
<1>2. /\ Calls[1] = "head" /\ Calls[2] = "status" /\ Calls[3] = "untracked"
      /\ Calls[4] = "diff" /\ Calls[5] = "tracked" /\ Calls[6] = "paths"
  BY DEF Calls
<1> DEFINE i == CHOOSE i \in DOMAIN Calls : Calls[i] = x
<1>3. i \in DOMAIN Calls /\ Calls[i] = x
  BY <1>1, <1>2, CallNames
<1>4. After(x) = IF i = 6 THEN "read" ELSE Calls[i + 1]
  BY <1>1 DEF After
<1> HIDE DEF i
<1> QED
  BY <1>1, <1>2, <1>3, <1>4

\* The next path to read is one that the look has listed and not read.
LEMMA NextIsUnread ==
  ASSUME NEW c \in Capture, Remaining(c) # {}
  PROVE  NextUnread(c) \in Path
<1>1. Remaining(c) \subseteq Nat /\ Remaining(c) \subseteq DOMAIN Units
  BY SnapshotConstants DEF Remaining
<1> DEFINE Less == OpToRel(<, Nat)
<1>2. IsWellFoundedOn(Less, Nat)
  BY NatLessThanWellFounded
<1>3. \A x, y \in Nat : x < y => <<x, y>> \in Less
  BY DEF OpToRel
<1> HIDE DEF Less
<1>4. PICK i \in Remaining(c) : \A j \in Remaining(c) : ~(<<j, i>> \in Less)
  BY <1>1, <1>2, WFMin
<1>5. \A j \in Remaining(c) : i <= j
  <2>1. \A j \in Remaining(c) : ~(j < i)
    BY <1>1, <1>3, <1>4
  <2> QED
    BY <1>1, <2>1
<1>6. (CHOOSE k \in Remaining(c) : \A j \in Remaining(c) : k <= j) \in Remaining(c)
  BY <1>5
<1> QED
  BY <1>1, <1>6, SnapshotConstants DEF NextUnread

\* When nothing remains, a path that was not read was not listed.
LEMMA NothingRemains ==
  ASSUME NEW c \in Capture, Remaining(c) = {}, NEW p \in Path,
         cap[c].look.entries[p] = Unlisted
  PROVE  p \notin cap[c].look.paths
<1>1. PICK i \in DOMAIN Units : Units[i] = p
  BY SnapshotConstants DEF ToSet
<1> QED
  BY <1>1 DEF Remaining

\* The look that has read nothing
LEMMA NoLookIsLook ==
  IsLook(NoLook) /\ \A p \in Path : NoLook.entries[p] = Unlisted
BY DEF IsLook, NoLook, Entries

\* The tree of a list of entries
LEMMA TreeOfEntries ==
  ASSUME NEW e \in Entries, NEW p \in Path
  PROVE  /\ e[p] # Unlisted => TreeOf(e)[p] = e[p]
         /\ e[p] = Unlisted => TreeOf(e)[p] = Absent
BY SnapshotConstants DEF Entries, TreeOf

-----------------------------------------------------------------------------
(* A capture that does not step                                            *)

\* What is there for a capture d, while another one steps
Frame(d) ==
    /\ cap'[d] = cap[d] /\ during'[d] = during[d]
    /\ tree' = tree /\ head' = head /\ index' = index /\ (d \in restored' <=> d \in restored)

\* A state between the looks is one while nothing changes.
LEMMA BetweenStays ==
  ASSUME NEW d \in Capture, Frame(d), NEW s, Between(d, s)
  PROVE  Between(d, s)'
BY DEF Frame, Between, GoneHead, GoneValue, Heads, Values

\* The invariant of a capture is about that capture and the tree.
LEMMA OthersStay ==
  ASSUME NEW d \in Capture, Good(d), Frame(d)
  PROVE  Good(d)'
<1>1. Formed(d)'
  BY DEF Good, Frame, Formed, Looking, Second, Running
<1>2. WasThere(d)'
  BY DEF Good, Frame, WasThere, Looking, Heads, Values
<1>3. d \notin restored' => FoundAgain(d)'
  <2> SUFFICES ASSUME d \notin restored', Looking(d)', Second(d)'
               PROVE  \E s \in during'[d] : Between(d, s)'
    BY DEF FoundAgain
  <2>1. PICK s \in during[d] : Between(d, s)
    BY DEF Good, FoundAgain, Frame, Looking, Second
  <2> QED
    BY <2>1, BetweenStays DEF Frame
<1>4. d \notin restored' => Captured(d)'
  BY DEF Good, Frame, Captured
<1> QED
  BY <1>1, <1>2, <1>3, <1>4 DEF Good

\* Of the steps of captures only the one of c is to be looked at.
LEMMA OneCapture ==
  ASSUME IInv, NEW c \in Capture, NEW r, cap' = [cap EXCEPT ![c] = r],
         tree' = tree, head' = head, index' = index, restored' = restored,
         \A d \in Capture \ {c} : during'[d] = during[d],
         during' \in [Capture -> SUBSET Moment],
         Good(c)'
  PROVE  IInv'
<1>1. cap = [d \in Capture |-> cap[d]]
  BY DEF IInv, Typed
<1>2. cap' = [d \in Capture |-> cap'[d]] /\ \A d \in Capture \ {c} : cap'[d] = cap[d]
  BY <1>1
<1>3. Typed'
  BY <1>2 DEF IInv, Typed
<1>4. ASSUME NEW d \in Capture \ {c}
      PROVE  Good(d)'
  <2>1. Frame(d)
    BY <1>2 DEF Frame
  <2> QED
    BY <2>1, OthersStay DEF IInv
<1> QED
  BY <1>3, <1>4 DEF IInv

-----------------------------------------------------------------------------
(* The steps of a capture                                                  *)

\* capture begins: nothing is read yet, and the present is the first state seen.
LEMMA StartStep ==
  ASSUME IInv, NEW c \in Capture, StartCapture(c)
  PROVE  IInv'
<1>1. cap = [d \in Capture |-> cap[d]] /\ Formed(c) /\ tree \in Tree /\ head \in Tree
  BY DEF IInv, Typed, Good
<1>2. cap' = [cap EXCEPT ![c] = [at |-> "head", first |-> NoLook, look |-> NoLook]]
  <2>1. [cap[c] EXCEPT !.at = "head"] = [at |-> "head", first |-> NoLook, look |-> NoLook]
    BY <1>1 DEF StartCapture, Formed
  <2>2. cap' = [cap EXCEPT ![c] = [cap[c] EXCEPT !.at = "head"]]
    BY <1>1 DEF StartCapture
  <2> QED
    BY <2>1, <2>2
<1>3. cap'[c].at = "head" /\ cap'[c].first = NoLook /\ cap'[c].look = NoLook
  BY <1>1, <1>2
<1>4. /\ during' = [during EXCEPT ![c] = {<<head, tree, index>>}]
      /\ tree' = tree /\ head' = head /\ index' = index /\ restored' = restored
  BY DEF StartCapture, repository
<1>5. /\ during' \in [Capture -> SUBSET Moment] /\ during'[c] = {<<head, tree, index>>}
      /\ \A d \in Capture \ {c} : during'[d] = during[d]
  <2>1. <<head, tree, index>> \in Moment /\ during \in [Capture -> SUBSET Moment]
    BY DEF IInv, Typed, Moment
  <2> QED
    BY <1>4, <2>1
<1>6. Formed(c)'
  <2>1. cap'[c] = [at |-> cap'[c].at, first |-> cap'[c].first, look |-> cap'[c].look]
    BY <1>1, <1>2
  <2>2. "head" \in Lookers
    BY CallNames DEF Lookers
  <2> QED
    BY <1>3, <1>4, <1>5, <2>1, <2>2, NoLookIsLook DEF Formed, Looking, Second, Running, IsLook
<1>7. WasThere(c)'
  BY <1>3, NoLookIsLook DEF WasThere
<1>8. FoundAgain(c)' /\ Captured(c)'
  BY <1>3 DEF FoundAgain, Captured, Second
<1>9. Good(c)'
  BY <1>6, <1>7, <1>8 DEF Good
<1> QED
  BY <1>2, <1>4, <1>5, <1>9, OneCapture

\* What the answer of a call leaves in the look
LookTo(c, l) ==
    /\ cap' = [cap EXCEPT ![c] = [at |-> After(cap[c].at), first |-> cap[c].first, look |-> l]]
    /\ IsLook(l) /\ l.entries = cap[c].look.entries
    /\ l.head = IF cap[c].at = "head" THEN head ELSE cap[c].look.head
    /\ l.paths = IF cap[c].at = "paths" THEN ListedPaths(index, tree) ELSE cap[c].look.paths
    /\ l.status = IF cap[c].at = "status" THEN StatusOf(head, index, tree) ELSE cap[c].look.status
    /\ l.untracked = IF cap[c].at = "untracked" THEN UntrackedOf(index, tree)
                     ELSE cap[c].look.untracked
    /\ l.diff = IF cap[c].at = "diff" THEN DiffOf(head, index, tree) ELSE cap[c].look.diff

LEMMA LookMoves ==
  ASSUME IInv, NEW c \in Capture, Look(c)
  PROVE  \E l : LookTo(c, l)
<1>1. /\ cap = [d \in Capture |-> cap[d]]
      /\ cap[c] = [at |-> cap[c].at, first |-> cap[c].first, look |-> cap[c].look]
      /\ IsLook(cap[c].look)
  BY DEF IInv, Typed, Good, Formed
<1> DEFINE x == cap[c].at
           l == [cap[c].look EXCEPT ![x] = Answer(x)]
<1>2. x \in {"head", "status", "untracked", "diff", "tracked", "paths"}
  BY CallNames DEF Look
<1>3. /\ Answer("head") = head /\ Answer("paths") = ListedPaths(index, tree)
      /\ Answer("status") = StatusOf(head, index, tree) /\ Answer("diff") = DiffOf(head, index, tree)
      /\ Answer("untracked") = UntrackedOf(index, tree)
  BY DEF Answer
<1>4. cap' = [cap EXCEPT ![c] = [at |-> After(x), first |-> cap[c].first, look |-> l]]
  <2>1. cap' = [cap EXCEPT ![c].look[x] = Answer(x), ![c].at = After(x)]
    BY DEF Look
  <2>2. cap' = [cap EXCEPT ![c] = [[cap[c] EXCEPT !.look[x] = Answer(x)] EXCEPT !.at = After(x)]]
    BY <1>1, <2>1
  <2>3. [cap[c] EXCEPT !.look[x] = Answer(x)] = [cap[c] EXCEPT !.look = l]
    BY <1>1
  <2>4. [[cap[c] EXCEPT !.look = l] EXCEPT !.at = After(x)]
          = [at |-> After(x), first |-> cap[c].first, look |-> l]
    <3> DEFINE r == cap[c]
               q == [r EXCEPT !.look = l]
               b == After(x)
    <3>1. r = [at |-> x, first |-> r.first, look |-> r.look]
      BY <1>1
    <3> HIDE DEF l, x, r, b
    <3>2. q = [at |-> x, first |-> r.first, look |-> l]
      BY <3>1
    <3> HIDE DEF q
    <3>3. [q EXCEPT !.at = b] = [at |-> b, first |-> r.first, look |-> l]
      BY <3>2
    <3> QED
      BY <3>3 DEF r, b, q
  <2> QED
    BY <2>2, <2>3, <2>4
<1>5. /\ IsLook(l) /\ l.entries = cap[c].look.entries
      /\ l.head = IF x = "head" THEN head ELSE cap[c].look.head
      /\ l.paths = IF x = "paths" THEN ListedPaths(index, tree) ELSE cap[c].look.paths
      /\ l.status = IF x = "status" THEN StatusOf(head, index, tree) ELSE cap[c].look.status
      /\ l.untracked = IF x = "untracked" THEN UntrackedOf(index, tree)
                       ELSE cap[c].look.untracked
      /\ l.diff = IF x = "diff" THEN DiffOf(head, index, tree) ELSE cap[c].look.diff
  BY <1>1, <1>2, <1>3 DEF IsLook
<1> QED
  BY <1>4, <1>5 DEF LookTo

\* A call of a look: what is answered is of the present, and so not gone.
LEMMA LookBetween ==
  ASSUME IInv, NEW c \in Capture, Look(c), NEW s, Between(c, s)
  PROVE  Between(c, s)'
<1>1. /\ cap = [d \in Capture |-> cap[d]] /\ Good(c)
  BY DEF IInv, Typed
<1>2. PICK l : LookTo(c, l)
  BY LookMoves
<1> USE DEF LookTo
<1>3. cap'[c].at = After(cap[c].at) /\ cap'[c].first = cap[c].first /\ cap'[c].look = l
  BY <1>1, <1>2
<1>4. tree' = tree /\ head' = head /\ index' = index /\ during' = during
  BY DEF Look, history, repository
<1>5. cap'[c].at = "read" <=> cap[c].at = "paths"
  BY <1>3, AfterCall DEF Look
<1>6. cap'[c].look.head = cap'[c].first.head => s[1] = cap'[c].first.head
  BY <1>2, <1>3 DEF Between, GoneHead
<1>7. ASSUME NEW p \in Path, cap'[c].at = "read", p \notin cap'[c].look.paths,
             cap'[c].first.entries[p] = Unlisted
      PROVE  s[2][p] = TreeOf(cap'[c].first.entries)[p]
  <2>1. tree[p] = Absent
    BY <1>2, <1>3, <1>5, <1>7 DEF ListedPaths, Present
  <2>2. TreeOf(cap[c].first.entries)[p] = Absent
    BY <1>1, <1>3, <1>7, TreeOfEntries DEF Good, Formed, IsLook
  <2> QED
    BY <1>3, <2>1, <2>2 DEF Between, GoneValue
<1> QED
  BY <1>2, <1>3, <1>4, <1>6, <1>7 DEF Between, GoneHead, GoneValue, Heads, Values

\* A call of a look: an answer is of the present, and what is of the present is
\* not gone.
LEMMA LookStep ==
  ASSUME IInv, NEW c \in Capture, Look(c)
  PROVE  IInv'
<1>1. /\ cap = [d \in Capture |-> cap[d]] /\ Good(c) /\ tree \in Tree /\ head \in Tree /\ index \subseteq Path
      /\ during \in [Capture -> SUBSET Moment]
  BY DEF IInv, Typed
<1>2. PICK l : LookTo(c, l)
  BY LookMoves
<1> USE DEF LookTo
<1>3. /\ cap'[c] = [at |-> After(cap[c].at), first |-> cap[c].first, look |-> l]
      /\ cap'[c].at = After(cap[c].at) /\ cap'[c].first = cap[c].first /\ cap'[c].look = l
  BY <1>1, <1>2
<1>4. /\ cap[c].at \in {"head", "status", "untracked", "diff", "tracked", "paths"}
      /\ tree' = tree /\ head' = head /\ index' = index /\ restored' = restored /\ during' = during
  BY CallNames DEF Look, history, repository
<1>5. /\ cap'[c].at \in {"status", "untracked", "diff", "tracked", "paths", "read"}
      /\ cap'[c].at = "read" <=> cap[c].at = "paths"
  BY <1>3, AfterCall DEF Look
<1>6. Looking(c) /\ Looking(c)' /\ Running(c)
  BY <1>4, <1>5 DEF Looking, Running
<1>7. <<head, tree, index>> \in during[c]
  BY <1>1, <1>6 DEF Good, Formed
<1>8. \A p \in Path : tree[p] \in Values(c, p)
  BY <1>7 DEF Values
<1>9. head \in Heads(c)
  BY <1>7 DEF Heads
<1>10. \A p \in Path \ ListedPaths(index, tree) : tree[p] = Absent
  BY DEF ListedPaths, Present
<1>11. Formed(c)'
  <2>1. cap'[c].at \in Lookers
    BY <1>5, CallNames DEF Lookers
  <2>2. cap'[c] = [at |-> cap'[c].at, first |-> cap'[c].first, look |-> cap'[c].look]
    BY <1>3
  <2>3. IsLook(cap'[c].first) /\ IsLook(cap'[c].look)
    BY <1>1, <1>2, <1>3 DEF Good, Formed
  <2>4. Looking(c)' /\ Second(c)' => cap'[c].first.head \in Tree
    BY <1>1, <1>3, <1>6 DEF Good, Formed, Second
  <2> QED
    BY <1>4, <1>5, <1>7, <2>1, <2>2, <2>3, <2>4 DEF Formed, IsLook
<1>12. WasThere(c)'
  <2>1. cap'[c].look.head \in Heads(c)'
    BY <1>1, <1>2, <1>3, <1>4, <1>6, <1>9 DEF Good, WasThere, Heads
  <2>2. \A p \in Path : cap'[c].look.entries[p] # Unlisted =>
          cap'[c].look.entries[p] \in Values(c, p)'
    BY <1>1, <1>2, <1>3, <1>4, <1>6 DEF Good, WasThere, Values
  <2>3. cap'[c].at = "read" => \A p \in Path \ cap'[c].look.paths : Absent \in Values(c, p)'
    BY <1>2, <1>3, <1>4, <1>5, <1>8, <1>10 DEF Values
  <2> QED
    BY <2>1, <2>2, <2>3 DEF WasThere
<1>13. ASSUME c \notin restored'
       PROVE  FoundAgain(c)'
  <2> SUFFICES ASSUME Second(c)'
               PROVE  \E s \in during'[c] : Between(c, s)'
    BY DEF FoundAgain
  <2>1. PICK s \in during[c] : Between(c, s)
    BY <1>1, <1>3, <1>4, <1>6, <1>13 DEF Good, FoundAgain, Second
  <2>2. Between(c, s)'
    BY <2>1, LookBetween
  <2> QED
    BY <1>4, <2>2
<1>14. Captured(c)'
  BY <1>5 DEF Captured
<1>15. Good(c)'
  BY <1>11, <1>12, <1>13, <1>14 DEF Good
<1> QED
  BY <1>1, <1>2, <1>4, <1>15, OneCapture

\* What the reading of a path leaves in the look
ReadTo(c, l, p) ==
    /\ p = NextUnread(c) /\ p \in Path /\ IsLook(l)
    /\ cap' = [cap EXCEPT ![c] = [at |-> "read", first |-> cap[c].first, look |-> l]]
    /\ l.entries = [cap[c].look.entries EXCEPT ![p] = tree[p]]
    /\ l.head = cap[c].look.head /\ l.paths = cap[c].look.paths
    /\ l.status = cap[c].look.status /\ l.diff = cap[c].look.diff
    /\ l.untracked = cap[c].look.untracked

LEMMA ReadMoves ==
  ASSUME IInv, NEW c \in Capture, ReadPath(c)
  PROVE  \E l, p : ReadTo(c, l, p)
<1> DEFINE p == NextUnread(c)
           k == cap[c].look
           e == [k.entries EXCEPT ![p] = tree[p]]
           l == [k EXCEPT !.entries = e]
<1>1. /\ cap = [d \in Capture |-> cap[d]]
      /\ cap[c] = [at |-> "read", first |-> cap[c].first, look |-> k]
      /\ IsLook(k) /\ tree \in Tree
  BY DEF IInv, Typed, Good, Formed, ReadPath
<1>2. p \in Path
  BY NextIsUnread DEF ReadPath
<1>3. e \in Entries
  BY <1>1, <1>2 DEF IsLook, Entries, Tree
<1>4. cap' = [cap EXCEPT ![c].look.entries[p] = tree[p]]
  BY DEF ReadPath
<1> HIDE DEF p
<1>5. cap' = [cap EXCEPT ![c] = [cap[c] EXCEPT !.look = l]]
  BY <1>1, <1>4
<1> HIDE DEF e
<1>6. /\ IsLook(l) /\ l.entries = e /\ l.head = k.head /\ l.paths = k.paths
      /\ l.status = k.status /\ l.diff = k.diff /\ l.untracked = k.untracked
  BY <1>1, <1>3 DEF IsLook
<1> HIDE DEF l
<1>7. [cap[c] EXCEPT !.look = l] = [at |-> "read", first |-> cap[c].first, look |-> l]
  BY <1>1
<1> QED
  BY <1>2, <1>5, <1>6, <1>7 DEF e, p, ReadTo

\* The reading of a path: what is read is of the present, and so not gone.
LEMMA ReadBetween ==
  ASSUME IInv, NEW c \in Capture, ReadPath(c), NEW s, Between(c, s)
  PROVE  Between(c, s)'
<1>1. cap = [d \in Capture |-> cap[d]] /\ Good(c)
  BY DEF IInv, Typed
<1>2. PICK l, p : ReadTo(c, l, p)
  BY ReadMoves
<1> USE DEF ReadTo
<1>3. cap'[c].at = "read" /\ cap'[c].first = cap[c].first /\ cap'[c].look = l
  BY <1>1, <1>2
<1>4. cap[c].at = "read" /\ tree' = tree /\ head' = head /\ index' = index /\ during' = during
  BY DEF ReadPath, history, repository
<1>5. cap[c].first.entries \in Entries /\ cap[c].look.entries \in Entries
  BY <1>1 DEF Good, Formed, IsLook
<1>6. /\ l.entries[p] = tree[p]
      /\ \A q \in Path \ {p} : l.entries[q] = cap[c].look.entries[q]
  BY <1>2, <1>5 DEF Entries
<1>7. ASSUME NEW q \in Path, l.entries[q] # Unlisted,
             l.entries[q] = cap[c].first.entries[q]
      PROVE  s[2][q] = TreeOf(cap[c].first.entries)[q]
  <2>1. CASE q # p
    BY <1>6, <1>7, <2>1 DEF Between
  <2>2. CASE q = p
    <3>1. TreeOf(cap[c].first.entries)[p] = tree[p]
      BY <1>2, <1>5, <1>6, <1>7, <2>2, TreeOfEntries
    <3> QED
      BY <2>2, <3>1 DEF Between, GoneValue
  <2> QED
    BY <2>1, <2>2
<1> QED
  BY <1>2, <1>3, <1>4, <1>7 DEF Between, GoneHead, GoneValue, Heads, Values

\* The reading of a path keeps the invariant.
LEMMA ReadStep ==
  ASSUME IInv, NEW c \in Capture, ReadPath(c)
  PROVE  IInv'
<1>1. /\ cap = [d \in Capture |-> cap[d]] /\ Good(c) /\ tree \in Tree /\ head \in Tree /\ index \subseteq Path
      /\ during \in [Capture -> SUBSET Moment]
  BY DEF IInv, Typed
<1>2. PICK l, p : ReadTo(c, l, p)
  BY ReadMoves
<1> USE DEF ReadTo
<1>3. /\ cap'[c] = [at |-> "read", first |-> cap[c].first, look |-> l]
      /\ cap'[c].at = "read" /\ cap'[c].first = cap[c].first /\ cap'[c].look = l
  BY <1>1, <1>2
<1>4. /\ cap[c].at = "read"
      /\ tree' = tree /\ head' = head /\ index' = index /\ restored' = restored /\ during' = during
  BY DEF ReadPath, history, repository
<1>5. Looking(c) /\ Looking(c)' /\ Running(c)
  BY <1>3, <1>4 DEF Looking, Running
<1>6. <<head, tree, index>> \in during[c]
  BY <1>1, <1>5 DEF Good, Formed
<1>7. tree[p] \in Values(c, p)
  BY <1>6 DEF Values
<1>8. /\ cap[c].first.entries \in Entries /\ cap[c].look.entries \in Entries
      /\ IsLook(cap[c].first)
  BY <1>1 DEF Good, Formed, IsLook
<1>9. /\ l.entries[p] = tree[p]
      /\ \A q \in Path \ {p} : l.entries[q] = cap[c].look.entries[q]
  BY <1>2, <1>8 DEF Entries
<1>10. Formed(c)'
  <2>1. "read" \in Lookers
    BY DEF Lookers
  <2>2. Second(c)' => cap'[c].first.head \in Tree
    BY <1>1, <1>3, <1>5 DEF Good, Formed, Second
  <2>3. cap'[c] = [at |-> cap'[c].at, first |-> cap'[c].first, look |-> cap'[c].look]
    BY <1>3
  <2> QED
    BY <1>2, <1>3, <1>4, <1>6, <1>8, <2>1, <2>2, <2>3 DEF Formed, IsLook
<1>11. WasThere(c)'
  <2>1. cap'[c].look.head \in Heads(c)'
    BY <1>1, <1>2, <1>3, <1>4, <1>5 DEF Good, WasThere, Heads
  <2>2. \A q \in Path : cap'[c].look.entries[q] # Unlisted =>
          cap'[c].look.entries[q] \in Values(c, q)'
    BY <1>1, <1>3, <1>4, <1>5, <1>7, <1>9 DEF Good, WasThere, Values
  <2>3. \A q \in Path \ cap'[c].look.paths : Absent \in Values(c, q)'
    BY <1>1, <1>2, <1>3, <1>4, <1>5 DEF Good, WasThere, Values
  <2> QED
    BY <2>1, <2>2, <2>3 DEF WasThere
<1>12. ASSUME c \notin restored'
       PROVE  FoundAgain(c)'
  <2> SUFFICES ASSUME Second(c)'
               PROVE  \E s \in during'[c] : Between(c, s)'
    BY DEF FoundAgain
  <2>1. PICK s \in during[c] : Between(c, s)
    BY <1>1, <1>3, <1>4, <1>5, <1>12 DEF Good, FoundAgain, Second
  <2>2. Between(c, s)'
    BY <2>1, ReadBetween
  <2> QED
    BY <1>4, <2>2
<1>13. Captured(c)'
  BY <1>3 DEF Captured
<1>14. Good(c)'
  BY <1>10, <1>11, <1>12, <1>13 DEF Good
<1> QED
  BY <1>1, <1>2, <1>4, <1>14, OneCapture

\* The first look ends: the present is the state between the looks.
LEMMA AgainStep ==
  ASSUME IInv, NEW c \in Capture, LookAgain(c)
  PROVE  IInv'
<1>1. /\ cap = [d \in Capture |-> cap[d]] /\ Good(c) /\ tree \in Tree /\ head \in Tree /\ index \subseteq Path
      /\ during \in [Capture -> SUBSET Moment]
  BY DEF IInv, Typed
<1>2. /\ cap' = [cap EXCEPT ![c] = [at |-> "head", first |-> cap[c].look, look |-> NoLook]]
      /\ cap[c].at = "read" /\ Remaining(c) = {}
      /\ tree' = tree /\ head' = head /\ index' = index /\ restored' = restored /\ during' = during
  BY DEF LookAgain, history, repository
<1>3. /\ cap'[c] = [at |-> "head", first |-> cap[c].look, look |-> NoLook]
      /\ cap'[c].at = "head" /\ cap'[c].first = cap[c].look /\ cap'[c].look = NoLook
  BY <1>1, <1>2
<1>4. Looking(c) /\ Running(c)
  BY <1>2 DEF Looking, Running
<1>5. <<head, tree, index>> \in during[c]
  BY <1>1, <1>4 DEF Good, Formed
<1>6. cap[c].look.head \in Heads(c) /\ cap[c].look.head \in Tree
  <2>1. during[c] \subseteq Moment /\ cap[c].look.head \in Heads(c)
    BY <1>1, <1>2, <1>4 DEF Good, WasThere
  <2>2. \A s \in Moment : s[1] \in Tree
    BY DEF Moment
  <2> QED
    BY <2>1, <2>2 DEF Heads
<1>7. ASSUME NEW p \in Path
      PROVE  TreeOf(cap[c].look.entries)[p] \in Values(c, p)
  <2>1. cap[c].look.entries \in Entries
    BY <1>1 DEF Good, Formed, IsLook
  <2>2. CASE cap[c].look.entries[p] = Unlisted
    BY <1>1, <1>2, <1>4, <2>1, <2>2, NothingRemains, TreeOfEntries DEF Good, WasThere
  <2>3. CASE cap[c].look.entries[p] # Unlisted
    BY <1>1, <1>4, <2>1, <2>3, TreeOfEntries DEF Good, WasThere
  <2> QED
    BY <2>2, <2>3
<1>8. Formed(c)'
  <2>1. "head" \in Lookers
    BY CallNames DEF Lookers
  <2>2. IsLook(cap'[c].first) /\ IsLook(cap'[c].look)
    BY <1>1, <1>3, NoLookIsLook DEF Good, Formed
  <2>3. cap'[c] = [at |-> cap'[c].at, first |-> cap'[c].first, look |-> cap'[c].look]
    BY <1>3
  <2> QED
    BY <1>2, <1>3, <1>5, <1>6, <2>1, <2>2, <2>3 DEF Formed, IsLook
<1>9. WasThere(c)'
  BY <1>3, NoLookIsLook DEF WasThere
<1>10. FoundAgain(c)'
  <2> DEFINE s == <<head, tree, index>>
  <2>1. s[1] = cap'[c].first.head \/ GoneHead(c, cap[c].first.head)'
    BY <1>2, <1>3, <1>6 DEF GoneHead, Heads
  <2>2. \A p \in Path : \/ s[2][p] = TreeOf(cap'[c].first.entries)[p]
                        \/ GoneValue(c, p, TreeOf(cap[c].first.entries)[p])'
    BY <1>2, <1>3, <1>7 DEF GoneValue, Values
  <2>3. Between(c, s)'
    BY <1>2, <1>3, <2>1, <2>2, NoLookIsLook DEF Between
  <2> QED
    BY <1>2, <1>5, <2>3 DEF FoundAgain
<1>11. Captured(c)'
  BY <1>3 DEF Captured
<1>12. Good(c)'
  BY <1>8, <1>9, <1>10, <1>11 DEF Good
<1> QED
  BY <1>1, <1>2, <1>12, OneCapture

\* A capture that has been refused or has failed remembers nothing.
LEMMA OverIsGood ==
  ASSUME cap = [d \in Capture |-> cap[d]], NEW c \in Capture,
         NEW outcome \in {"refused", "failed"}, cap' = [cap EXCEPT ![c] = Over(outcome)]
  PROVE  Good(c)'
<1>1. /\ cap'[c] = [at |-> outcome, first |-> NoLook, look |-> NoLook]
      /\ cap'[c].at = outcome /\ cap'[c].first = NoLook /\ cap'[c].look = NoLook
  BY DEF Over
<1>2. outcome \in Lookers
  BY DEF Lookers
<1>3. Formed(c)'
  BY <1>1, <1>2, NoLookIsLook DEF Formed, Looking, Running, IsLook
<1> QED
  BY <1>1, <1>3 DEF Good, WasThere, FoundAgain, Captured, Looking

\* When the looks agree, the state between them is the tree of the manifest.
LEMMA AgreedState ==
  ASSUME IInv, NEW c \in Capture, cap[c].at = "read", Remaining(c) = {},
         SameLooks(cap[c].first, cap[c].look), NEW s \in during[c], Between(c, s)
  PROVE  s[1] = cap[c].first.head /\ s[2] = TreeOf(cap[c].first.entries)
<1>1. s[2] \in Tree
  BY DEF IInv, Typed, Moment
<1>2. s[1] = cap[c].first.head
  BY DEF Between, SameLooks, IdFrom
<1>3. ASSUME NEW p \in Path
      PROVE  s[2][p] = TreeOf(cap[c].first.entries)[p]
  <2>1. cap[c].look.entries[p] = cap[c].first.entries[p]
    BY DEF SameLooks
  <2>2. CASE cap[c].look.entries[p] # Unlisted
    BY <2>1, <2>2 DEF Between
  <2>3. CASE cap[c].look.entries[p] = Unlisted
    BY <2>1, <2>3, NothingRemains DEF Between
  <2> QED
    BY <2>2, <2>3
<1>4. s[2] = TreeOf(cap[c].first.entries)
  BY <1>1, <1>3 DEF Tree, TreeOf
<1> QED
  BY <1>1, <1>2, <1>4

\* What comparing the looks leaves: the capture is refused, or the looks agree
\* and the manifest is to be renamed into place or is in the store already.
Ends(c, at) == [at |-> at, first |-> cap[c].first, look |-> NoLook]
FileTo(c) ==
    \/ cap' = [cap EXCEPT ![c] = Over("refused")]
    \/ /\ SameLooks(cap[c].first, cap[c].look)
       /\ \/ cap' = [cap EXCEPT ![c] = Ends(c, "rename")]
          \/ ManifestOf(c) \in manifests /\ cap' = [cap EXCEPT ![c] = Ends(c, "done")]

LEMMA FileMoves ==
  ASSUME IInv, NEW c \in Capture, FileManifest(c)
  PROVE  FileTo(c)
<1>1. cap[c] = [at |-> cap[c].at, first |-> cap[c].first, look |-> cap[c].look]
  BY DEF IInv, Good, Formed
<1> DEFINE to(at) == [at |-> at, first |-> cap[c].first, look |-> NoLook]
<1>2. ASSUME NEW at
      PROVE  [cap[c] EXCEPT !.at = at, !.look = NoLook] = to(at)
  <2> DEFINE r == cap[c]
             q == [r EXCEPT !.at = at]
  <2>1. r = [at |-> r.at, first |-> r.first, look |-> r.look]
    BY <1>1
  <2> HIDE DEF r
  <2>2. q = [at |-> at, first |-> r.first, look |-> r.look]
    BY <2>1
  <2> HIDE DEF q
  <2>3. [q EXCEPT !.look = NoLook] = [at |-> at, first |-> r.first, look |-> NoLook]
    BY <2>2
  <2> QED
    BY <2>3 DEF r, q
<1> DEFINE same == SameLooks(cap[c].first, cap[c].look)
           ends(at) == [cap[c] EXCEPT !.at = at, !.look = NoLook]
           v == IF ~same THEN Over("refused")
                ELSE IF Stored(ManifestOf(c).id) = {} THEN ends("rename")
                ELSE IF ManifestOf(c) \in manifests THEN ends("done") ELSE Over("refused")
<1>3. cap' = [cap EXCEPT ![c] = v]
  BY DEF FileManifest
<1>4. ends("rename") = to("rename") /\ ends("done") = to("done")
  BY <1>2
<1>5. \/ v = Over("refused")
      \/ same /\ (v = to("rename") \/ (ManifestOf(c) \in manifests /\ v = to("done")))
  <2> HIDE DEF to, ends
  <2>1. CASE ~same
    BY <2>1
  <2>2. CASE same
    BY <1>4, <2>2
  <2> QED
    BY <2>1, <2>2
<1> HIDE DEF v
<1> QED
  BY <1>3, <1>5 DEF FileTo, Ends

\* The looks are compared, and the capture goes on when they agree.
LEMMA FileStep ==
  ASSUME IInv, NEW c \in Capture, FileManifest(c)
  PROVE  IInv'
<1>1. /\ cap = [d \in Capture |-> cap[d]] /\ Good(c) /\ tree \in Tree /\ head \in Tree /\ index \subseteq Path
      /\ during \in [Capture -> SUBSET Moment]
  BY DEF IInv, Typed
<1>2. /\ cap[c].at = "read" /\ Remaining(c) = {} /\ Second(c)
      /\ tree' = tree /\ head' = head /\ index' = index /\ restored' = restored /\ during' = during
  BY DEF FileManifest, history, repository, Second
<1>3. Looking(c) /\ Running(c)
  BY <1>2 DEF Looking, Running
<1>4. /\ <<head, tree, index>> \in during[c] /\ cap[c].first.head \in Tree
      /\ IsLook(cap[c].first) /\ cap[c].first.entries \in Entries
      /\ cap[c] = [at |-> cap[c].at, first |-> cap[c].first, look |-> cap[c].look]
  BY <1>1, <1>2, <1>3 DEF Good, Formed, IsLook
<1> DEFINE to(at) == Ends(c, at)
<1>5. \/ cap' = [cap EXCEPT ![c] = Over("refused")]
      \/ /\ SameLooks(cap[c].first, cap[c].look)
         /\ \/ cap' = [cap EXCEPT ![c] = to("rename")]
            \/ cap' = [cap EXCEPT ![c] = to("done")]
  BY FileMoves DEF FileTo
<1> USE DEF Ends
<1>6. CASE cap' = [cap EXCEPT ![c] = Over("refused")]
  <2>1. Good(c)'
    BY <1>1, <1>6, OverIsGood
  <2> QED
    BY <1>1, <1>2, <1>6, <2>1, OneCapture
<1>7. ASSUME SameLooks(cap[c].first, cap[c].look), NEW at \in {"rename", "done"},
             cap' = [cap EXCEPT ![c] = to(at)]
      PROVE  IInv'
  <2>1. /\ cap'[c] = to(at) /\ cap'[c].at = at /\ cap'[c].first = cap[c].first
        /\ cap'[c].look = NoLook
    BY <1>1, <1>7
  <2>2. Formed(c)'
    <3>1. at \in Lookers
      BY DEF Lookers
    <3>2. cap'[c] = [at |-> cap'[c].at, first |-> cap'[c].first, look |-> cap'[c].look]
      BY <2>1
    <3> QED
      BY <1>2, <1>4, <2>1, <3>1, <3>2, NoLookIsLook DEF Formed, IsLook
  <2>3. WasThere(c)' /\ FoundAgain(c)'
    BY <2>1 DEF WasThere, FoundAgain, Looking
  <2>4. ASSUME c \notin restored
        PROVE  <<cap[c].first.head, TreeOf(cap[c].first.entries)>>
                 \in {<<s[1], s[2]>> : s \in during[c]}
    <3>1. PICK s \in during[c] : Between(c, s)
      BY <1>1, <1>2, <1>3, <2>4 DEF Good, FoundAgain
    <3> QED
      BY <1>2, <1>7, <3>1, AgreedState
  <2>5. c \notin restored' => Captured(c)'
    BY <1>2, <2>1, <2>4 DEF Captured
  <2>6. Good(c)'
    BY <2>2, <2>3, <2>5 DEF Good
  <2> QED
    BY <1>1, <1>2, <1>7, <2>6, OneCapture
<1> QED
  BY <1>5, <1>6, <1>7

\* The manifest is in place.
LEMMA RenameStep ==
  ASSUME IInv, NEW c \in Capture, RenameManifest(c)
  PROVE  IInv'
<1>1. /\ cap = [d \in Capture |-> cap[d]] /\ Good(c)
      /\ during \in [Capture -> SUBSET Moment]
  BY DEF IInv, Typed
<1>2. /\ cap[c].at = "rename"
      /\ tree' = tree /\ head' = head /\ index' = index /\ restored' = restored /\ during' = during
  BY DEF RenameManifest, history, repository
<1>3. PICK at \in {"done", "filed"} : cap' = [cap EXCEPT ![c] = [cap[c] EXCEPT !.at = at]]
  BY <1>1 DEF RenameManifest
<1>4. [cap[c] EXCEPT !.at = at] = [at |-> at, first |-> cap[c].first, look |-> cap[c].look]
  BY <1>1 DEF Good, Formed
<1>5. /\ cap'[c] = [at |-> at, first |-> cap[c].first, look |-> cap[c].look]
      /\ cap'[c].at = at /\ cap'[c].first = cap[c].first /\ cap'[c].look = cap[c].look
  BY <1>1, <1>3, <1>4
<1>6. Formed(c)'
  <2>1. at \in Lookers
    BY DEF Lookers
  <2>2. IsLook(cap'[c].first) /\ IsLook(cap'[c].look) /\ cap'[c].first.head \in Tree
    BY <1>1, <1>2, <1>5 DEF Good, Formed
  <2> QED
    BY <1>5, <2>1, <2>2 DEF Formed, Running, IsLook
<1>7. WasThere(c)' /\ FoundAgain(c)'
  BY <1>5 DEF WasThere, FoundAgain, Looking
<1>8. c \notin restored' => Captured(c)'
  BY <1>1, <1>2, <1>5 DEF Good, Captured
<1>9. Good(c)'
  BY <1>6, <1>7, <1>8 DEF Good
<1> QED
  BY <1>1, <1>2, <1>3, <1>9, OneCapture

\* A capture fails, or its process dies.
LEMMA FailStep ==
  ASSUME IInv, NEW c \in Capture, CaptureFails(c)
  PROVE  IInv'
<1>1. cap = [d \in Capture |-> cap[d]] /\ during \in [Capture -> SUBSET Moment]
  BY DEF IInv, Typed
<1>2. /\ cap' = [cap EXCEPT ![c] = Over("failed")]
      /\ tree' = tree /\ head' = head /\ index' = index /\ restored' = restored /\ during' = during
  BY DEF CaptureFails, history, repository
<1>3. Good(c)'
  BY <1>1, <1>2, OverIsGood
<1> QED
  BY <1>1, <1>2, <1>3, OneCapture

-----------------------------------------------------------------------------
(* The steps of the repository                                             *)

\* What an edit, a staging or a commit leaves: a running capture sees the new state,
\* and in one that is not marked as restored what changed is new.
Changes ==
    /\ tree' \in Tree /\ head' \in Tree /\ index' \subseteq Path /\ cap' = cap
    /\ during' = [c \in Capture |-> IF Running(c) THEN during[c] \cup {<<head', tree', index'>>}
                                    ELSE during[c]]
    /\ restored \subseteq restored' /\ restored' \subseteq Capture
    /\ \A c \in Capture \ restored' : Running(c) =>
         /\ head' # head => head' \notin Heads(c)
         /\ \A p \in Path : tree'[p] # tree[p] => tree'[p] \notin Values(c, p)

\* An edit changes one path.
LEMMA EditChanges ==
  ASSUME IInv, NEW p \in Path, NEW f \in Written, Edit(p, f)
  PROVE  Changes
<1>1. tree \in Tree /\ head \in Tree /\ index \subseteq Path /\ restored \subseteq Capture
  BY DEF IInv, Typed
<1>2. /\ tree' = [tree EXCEPT ![p] = f] /\ head' = head /\ index' = index /\ cap' = cap
      /\ during' = [c \in Capture |-> IF Running(c) THEN during[c] \cup {<<head', tree', index'>>}
                                      ELSE during[c]]
      /\ restored' = restored \cup
           {c \in Capture : Running(c) /\ \E s \in during[c] : s[2][p] = f}
  BY DEF Edit, Note
<1>3. tree' \in Tree /\ tree'[p] = f /\ \A q \in Path \ {p} : tree'[q] = tree[q]
  BY <1>1, <1>2, SnapshotConstants DEF Tree
<1>4. ASSUME NEW c \in Capture \ restored', Running(c)
      PROVE  f \notin Values(c, p)
  BY <1>2, <1>4 DEF Values
<1> QED
  BY <1>1, <1>2, <1>3, <1>4 DEF Changes

\* A staging changes the index.
LEMMA StageChanges ==
  ASSUME IInv, NEW p \in Path, Stage(p)
  PROVE  Changes
<1>1. tree \in Tree /\ head \in Tree /\ index \subseteq Path /\ restored \subseteq Capture
  BY DEF IInv, Typed
<1>2. /\ head' = head /\ tree' = tree /\ cap' = cap /\ restored' = restored
      /\ during' = [c \in Capture |-> IF Running(c) THEN during[c] \cup {<<head', tree', index'>>}
                                      ELSE during[c]]
  BY DEF Stage, Note
<1>3. index' \subseteq Path
  BY <1>1 DEF Stage
<1> QED
  BY <1>1, <1>2, <1>3 DEF Changes

\* A commit changes HEAD.
LEMMA CommitChanges ==
  ASSUME IInv, Commit
  PROVE  Changes
<1>1. tree \in Tree /\ head \in Tree /\ index \subseteq Path /\ restored \subseteq Capture
  BY DEF IInv, Typed
<1>2. /\ index' \subseteq index /\ tree' = tree /\ cap' = cap
      /\ during' = [c \in Capture |-> IF Running(c) THEN during[c] \cup {<<head', tree', index'>>}
                                      ELSE during[c]]
      /\ restored' = restored \cup
           {c \in Capture : Running(c) /\ \E s \in during[c] : s[1] = head'}
  BY DEF Commit, Note
<1>3. head' \in Tree
  BY <1>1 DEF Commit, Tree
<1>4. ASSUME NEW c \in Capture \ restored', Running(c)
      PROVE  head' \notin Heads(c)
  BY <1>2, <1>4 DEF Heads
<1> QED
  BY <1>1, <1>2, <1>3, <1>4 DEF Changes

\* What is gone stays gone when a change brings nothing back.
LEMMA GoneStays ==
  ASSUME IInv, Changes, NEW c \in Capture, Running(c), c \notin restored'
  PROVE  /\ \A h : GoneHead(c, h) => GoneHead(c, h)'
         /\ \A p \in Path : \A v : GoneValue(c, p, v) => GoneValue(c, p, v)'
<1>1. during[c] \subseteq during'[c]
  BY DEF Changes, IInv, Typed
<1>2. Heads(c) \subseteq Heads(c)' /\ \A p \in Path : Values(c, p) \subseteq Values(c, p)'
  BY <1>1 DEF Values, Heads
<1>3. /\ head' # head => head' \notin Heads(c)
      /\ \A p \in Path : tree'[p] # tree[p] => tree'[p] \notin Values(c, p)
  BY DEF Changes
<1> QED
  BY <1>2, <1>3 DEF GoneHead, GoneValue

\* So a state between the looks remains one.
LEMMA ChangeBetween ==
  ASSUME IInv, Changes, NEW c \in Capture, Looking(c), c \notin restored',
         NEW s, Between(c, s)
  PROVE  Between(c, s)'
<1>1. Running(c) /\ cap' = cap
  BY DEF Looking, Running, Changes
<1> QED
  BY <1>1, GoneStays DEF Between

\* A change keeps the invariant.
LEMMA ChangeStep ==
  ASSUME IInv, Changes
  PROVE  IInv'
<1>1. /\ cap = [d \in Capture |-> cap[d]] /\ tree \in Tree /\ head \in Tree /\ index \subseteq Path
      /\ during \in [Capture -> SUBSET Moment] /\ \A c \in Capture : Good(c)
  BY DEF IInv, Typed
<1>2. /\ tree' \in Tree /\ head' \in Tree /\ index' \subseteq Path /\ cap' = cap
      /\ restored \subseteq restored' /\ restored' \subseteq Capture
  BY DEF Changes
<1>3. during' \in [Capture -> SUBSET Moment]
  <2>1. <<head', tree', index'>> \in Moment
    BY <1>2 DEF Moment
  <2> QED
    BY <1>1, <2>1 DEF Changes
<1>4. Typed'
  BY <1>1, <1>2, <1>3 DEF Typed
<1>5. ASSUME NEW c \in Capture
      PROVE  Good(c)'
  <2>1. /\ during[c] \subseteq during'[c]
        /\ Running(c) => <<head', tree', index'>> \in during'[c]
    BY <1>1 DEF Changes
  <2>2. \A p \in Path : Values(c, p) \subseteq Values(c, p)'
    BY <2>1 DEF Values
  <2>3. Heads(c) \subseteq Heads(c)'
    BY <2>1 DEF Heads
  <2>4. Formed(c)'
    <3>1. Running(c)' <=> Running(c)
      BY <1>2 DEF Running
    <3> QED
      BY <1>1, <1>2, <2>1, <3>1 DEF Good, Formed, Looking, Second
  <2>5. WasThere(c)'
    BY <1>1, <1>2, <2>2, <2>3 DEF Good, WasThere, Looking
  <2>6. ASSUME c \notin restored'
        PROVE  FoundAgain(c)'
    <3> SUFFICES ASSUME Looking(c), Second(c)
                 PROVE  \E s \in during'[c] : Between(c, s)'
      BY <1>2 DEF FoundAgain, Looking, Second
    <3>1. PICK s \in during[c] : Between(c, s)
      BY <1>1, <1>2, <2>6 DEF Good, FoundAgain
    <3>2. Between(c, s)'
      BY <1>2, <2>6, <3>1, ChangeBetween
    <3> QED
      BY <2>1, <3>1, <3>2
  <2>7. c \notin restored' => Captured(c)'
    BY <1>1, <1>2, <2>1 DEF Good, Captured
  <2> QED
    BY <2>4, <2>5, <2>6, <2>7 DEF Good
<1> QED
  BY <1>4, <1>5 DEF IInv

-----------------------------------------------------------------------------
(* Steps that leave the captures alone                                     *)

\* A materialization changes neither the repository nor a capture.
LEMMA StoreStep ==
  ASSUME IInv, UNCHANGED <<tree, head, index, cap, during, restored>>
  PROVE  IInv'
<1>1. Typed'
  BY DEF IInv, Typed
<1>2. ASSUME NEW d \in Capture
      PROVE  Good(d)'
  <2>1. Frame(d)
    BY DEF Frame
  <2> QED
    BY <2>1, OthersStay DEF IInv
<1> QED
  BY <1>1, <1>2 DEF IInv

\* The repository as the program finds it
LEMMA InitGood == Init => IInv
<1> SUFFICES ASSUME Init PROVE IInv
  OBVIOUS
<1>1. Typed
  BY SnapshotConstants DEF Init, Typed, Present
<1>2. ASSUME NEW c \in Capture
      PROVE  Good(c)
  <2>1. /\ cap[c] = [at |-> "idle", first |-> NoLook, look |-> NoLook]
        /\ cap[c].at = "idle" /\ cap[c].first = NoLook /\ cap[c].look = NoLook
    BY DEF Init, Over
  <2>2. "idle" \in Lookers
    BY DEF Lookers
  <2>3. Formed(c)
    BY <2>1, <2>2, NoLookIsLook DEF Formed, Looking, Running, IsLook
  <2> QED
    BY <2>1, <2>3 DEF Good, WasThere, FoundAgain, Captured, Looking
<1> QED
  BY <1>1, <1>2 DEF IInv

\* Every step of a capture, a materialization or the user keeps the invariant.
LEMMA StepGood == IInv /\ [Next]_vars => IInv'
<1> SUFFICES ASSUME IInv, [Next]_vars PROVE IInv'
  OBVIOUS
<1>1. ASSUME NEW c \in Capture, StartCapture(c) PROVE IInv'
  BY <1>1, StartStep
<1>2. ASSUME NEW c \in Capture, Look(c) PROVE IInv'
  BY <1>2, LookStep
<1>3. ASSUME NEW c \in Capture, ReadPath(c) PROVE IInv'
  BY <1>3, ReadStep
<1>4. ASSUME NEW c \in Capture, LookAgain(c) PROVE IInv'
  BY <1>4, AgainStep
<1>5. ASSUME NEW c \in Capture, FileManifest(c) PROVE IInv'
  BY <1>5, FileStep
<1>6. ASSUME NEW c \in Capture, RenameManifest(c) PROVE IInv'
  BY <1>6, RenameStep
<1>7. ASSUME NEW c \in Capture, CaptureFails(c) PROVE IInv'
  BY <1>7, FailStep
<1>8. ASSUME NEW m \in Candidate, NEW c \in Capture, ReadManifest(m, c) PROVE IInv'
  BY <1>8, StoreStep DEF ReadManifest, history, repository
<1>9. ASSUME NEW m \in Candidate,
             \/ LoadBlobs(m) \/ RemoveDeleted(m) \/ WriteFiles(m)
             \/ VerifyMaterialized(m) \/ MaterializeFails(m)
      PROVE  IInv'
  <2>1. UNCHANGED <<tree, head, index, cap, during, restored>>
    BY <1>9 DEF LoadBlobs, RemoveDeleted, WriteFiles, VerifyMaterialized, MaterializeFails,
                history, repository
  <2> QED
    BY <2>1, StoreStep
<1>10. ASSUME NEW p \in Path, NEW f \in Written, Edit(p, f) PROVE IInv'
  BY <1>10, EditChanges, ChangeStep
<1>11. CASE Commit
  BY <1>11, CommitChanges, ChangeStep
<1>13. ASSUME NEW p \in Path, Stage(p) PROVE IInv'
  BY <1>13, StageChanges, ChangeStep
<1>12. CASE UNCHANGED vars
  BY <1>12, StoreStep DEF vars, history, repository
<1> QED
  BY <1>1, <1>2, <1>3, <1>4, <1>5, <1>6, <1>7, <1>8, <1>9, <1>10, <1>11, <1>12, <1>13
    DEF Next

\* The inductive invariant holds in every state.
THEOREM CaptureInvariant == Spec => []IInv
BY InitGood, StepGood, PTL DEF Spec

\* CaptureIsATree: a capture that succeeds has filed a tree that the repository
\* had, as a whole, while the capture ran, whatever was edited and committed
\* between its calls, unless an edit was taken back in time
\* (RepositorySnapshotStore.capture).
THEOREM CapturesATree == Spec => []CaptureIsATree
<1>1. IInv => CaptureIsATree
  BY DEF IInv, Good, Captured, CaptureIsATree
<1> QED
  BY <1>1, CaptureInvariant, PTL

-----------------------------------------------------------------------------
(* Types                                                                   *)

Stages == {"idle", "validate", "remove", "write", "verify", "done", "refused", "failed"}

\* One materialization: it has a tree to work on once it has begun.
MatTyped(m) ==
    /\ mat[m] = [at |-> mat[m].at, id |-> mat[m].id, manifest |-> mat[m].manifest,
                 dest |-> mat[m].dest]
    /\ mat[m].at \in Stages
    /\ mat[m].dest \in IF mat[m].at = "idle" THEN {Unlisted} ELSE Tree

\* The stores, the materializations and the bound on edits
StoreTyped ==
    /\ blobs \subseteq Content
    /\ \A n \in manifests : n.head \in Tree /\ n.entries \in Entries
    /\ edits \in 0..MaxEdits
    /\ mat = [m \in Candidate |-> mat[m]]
    /\ \A m \in Candidate : MatTyped(m)

\* A step of one materialization
LEMMA MatStep ==
  ASSUME StoreTyped, NEW m \in Candidate, NEW r, mat' = [mat EXCEPT ![m] = r],
         r = [at |-> r.at, id |-> r.id, manifest |-> r.manifest, dest |-> r.dest],
         r.at \in Stages \ {"idle"}, r.dest \in Tree,
         UNCHANGED <<blobs, manifests, edits>>
  PROVE  StoreTyped'
<1>1. mat = [k \in Candidate |-> mat[k]]
  BY DEF StoreTyped
<1>2. /\ mat' = [k \in Candidate |-> mat'[k]] /\ mat'[m] = r
      /\ \A k \in Candidate \ {m} : mat'[k] = mat[k]
  BY <1>1
<1>3. MatTyped(m)'
  BY <1>2 DEF MatTyped
<1>4. \A k \in Candidate \ {m} : MatTyped(k)'
  BY <1>2 DEF StoreTyped, MatTyped
<1> QED
  BY <1>2, <1>3, <1>4 DEF StoreTyped

\* A materialization that goes on, with the tree it had or a new one
LEMMA MatGoesOn ==
  ASSUME StoreTyped, NEW m \in Candidate, mat[m].at # "idle", NEW at \in Stages \ {"idle"},
         NEW dest \in Tree, UNCHANGED <<blobs, manifests, edits>>,
         \/ mat' = [mat EXCEPT ![m] = [mat[m] EXCEPT !.at = at]]
         \/ mat' = [mat EXCEPT ![m] = [[mat[m] EXCEPT !.at = at] EXCEPT !.dest = dest]]
  PROVE  StoreTyped'
<1> DEFINE r == mat[m]
           q == [r EXCEPT !.at = at]
           t == [q EXCEPT !.dest = dest]
<1>1. /\ r = [at |-> r.at, id |-> r.id, manifest |-> r.manifest, dest |-> r.dest]
      /\ r.dest \in Tree
  BY DEF StoreTyped, MatTyped
<1>2. mat' = [mat EXCEPT ![m] = q] \/ mat' = [mat EXCEPT ![m] = t]
  OBVIOUS
<1> HIDE DEF r
<1>3. q = [at |-> at, id |-> r.id, manifest |-> r.manifest, dest |-> r.dest]
  BY <1>1
<1> HIDE DEF q
<1>4. t = [at |-> at, id |-> r.id, manifest |-> r.manifest, dest |-> dest]
  BY <1>3
<1> HIDE DEF t
<1>5. CASE mat' = [mat EXCEPT ![m] = q]
  <2>1. /\ q = [at |-> q.at, id |-> q.id, manifest |-> q.manifest, dest |-> q.dest]
        /\ q.at = at /\ q.dest = r.dest
    BY <1>3
  <2> QED
    BY <1>1, <1>5, <2>1, MatStep
<1>6. CASE mat' = [mat EXCEPT ![m] = t]
  <2>1. /\ t = [at |-> t.at, id |-> t.id, manifest |-> t.manifest, dest |-> t.dest]
        /\ t.at = at /\ t.dest = dest
    BY <1>4
  <2> QED
    BY <1>6, <2>1, MatStep
<1> QED
  BY <1>2, <1>5, <1>6

\* Every step keeps the types of stores and materializations.
LEMMA StoreStepTyped ==
  ASSUME IInv, StoreTyped, [Next]_vars
  PROVE  StoreTyped'
<1>1. ASSUME NEW c \in Capture,
             \/ StartCapture(c) \/ Look(c) \/ LookAgain(c) \/ FileManifest(c)
             \/ CaptureFails(c)
      PROVE  StoreTyped'
  <2>1. UNCHANGED <<blobs, manifests, mat, edits>>
    BY <1>1 DEF StartCapture, Look, LookAgain, FileManifest, CaptureFails, store, history, repository
  <2> QED
    BY <2>1 DEF StoreTyped, MatTyped
<1>2. ASSUME NEW c \in Capture, ReadPath(c)
      PROVE  StoreTyped'
  <2>1. NextUnread(c) \in Path /\ tree \in Tree
    BY <1>2, NextIsUnread DEF ReadPath, IInv, Typed
  <2>2. tree[NextUnread(c)] # Absent => tree[NextUnread(c)].content \in Content
    BY <2>1 DEF Tree, File
  <2>3. blobs' \subseteq Content /\ UNCHANGED <<manifests, mat, edits>>
    BY <1>2, <2>2 DEF ReadPath, StoreTyped, history, repository
  <2> QED
    BY <2>3 DEF StoreTyped, MatTyped
<1>3. ASSUME NEW c \in Capture, RenameManifest(c)
      PROVE  StoreTyped'
  <2>1. cap[c].first.head \in Tree /\ cap[c].first.entries \in Entries
    BY <1>3 DEF IInv, Good, Formed, IsLook, RenameManifest
  <2>2. ManifestOf(c).head \in Tree /\ ManifestOf(c).entries \in Entries
    BY <2>1 DEF ManifestOf
  <2>3. \A n \in manifests' : n.head \in Tree /\ n.entries \in Entries
    BY <1>3, <2>2 DEF RenameManifest, StoreTyped
  <2>4. UNCHANGED <<blobs, mat, edits>>
    BY <1>3 DEF RenameManifest, history, repository
  <2> QED
    BY <2>3, <2>4 DEF StoreTyped, MatTyped
<1>4. ASSUME NEW m \in Candidate, NEW c \in Capture, ReadManifest(m, c)
      PROVE  StoreTyped'
  <2> DEFINE id == ManifestOf(c).id
             at == IF Stored(id) = {} THEN "refused" ELSE "validate"
             n == IF Stored(id) = {} THEN Unlisted ELSE CHOOSE n \in Stored(id) : TRUE
             r == [id |-> id, dest |-> id.head, at |-> at, manifest |-> n]
  <2>1. id.head \in Tree
    BY <1>4 DEF IInv, Good, Formed, ReadManifest, ManifestOf, IdFrom
  <2>2. mat' = [mat EXCEPT ![m] = r] /\ UNCHANGED <<blobs, manifests, edits>>
    BY <1>4 DEF ReadManifest, store, history, repository
  <2>3. at \in Stages \ {"idle"}
    BY DEF Stages
  <2> HIDE DEF id, at, n
  <2>4. /\ r = [at |-> r.at, id |-> r.id, manifest |-> r.manifest, dest |-> r.dest]
        /\ r.at = at /\ r.dest = id.head
    OBVIOUS
  <2> HIDE DEF r
  <2> QED
    BY <2>1, <2>2, <2>3, <2>4, MatStep
<1>5. ASSUME NEW m \in Candidate, LoadBlobs(m) \/ VerifyMaterialized(m) \/ MaterializeFails(m)
      PROVE  StoreTyped'
  <2>1. /\ mat[m].at # "idle" /\ UNCHANGED <<blobs, manifests, edits>>
        /\ \E at \in Stages \ {"idle"} : mat' = [mat EXCEPT ![m].at = at]
    BY <1>5 DEF LoadBlobs, VerifyMaterialized, MaterializeFails, Stages, store, history, repository
  <2>2. mat[m].dest \in Tree
    BY <2>1 DEF StoreTyped, MatTyped
  <2>3. PICK at \in Stages \ {"idle"} : mat' = [mat EXCEPT ![m].at = at]
    BY <2>1
  <2>4. mat' = [mat EXCEPT ![m] = [mat[m] EXCEPT !.at = at]]
    BY <2>3 DEF StoreTyped
  <2> QED
    BY <2>1, <2>2, <2>4, MatGoesOn
<1>6. ASSUME NEW m \in Candidate, RemoveDeleted(m) \/ WriteFiles(m)
      PROVE  StoreTyped'
  <2> DEFINE e == mat[m].manifest.entries
             d1 == [p \in Path |-> IF p \in Deleted(e) THEN Absent ELSE mat[m].dest[p]]
             d2 == [p \in Path |-> IF p \in FilesOf(e) THEN e[p] ELSE mat[m].dest[p]]
  <2>1. mat[m].at # "idle" /\ UNCHANGED <<blobs, manifests, edits>>
    BY <1>6 DEF RemoveDeleted, WriteFiles, store, history, repository
  <2>2. mat[m].dest \in Tree
    BY <2>1 DEF StoreTyped, MatTyped
  <2>3. d1 \in Tree /\ d2 \in Tree
    BY <2>2 DEF Tree, FilesOf
  <2>4. \/ mat' = [mat EXCEPT ![m].at = "write", ![m].dest = d1]
        \/ mat' = [mat EXCEPT ![m].at = "verify", ![m].dest = d2]
    BY <1>6 DEF RemoveDeleted, WriteFiles
  <2> HIDE DEF d1, d2
  <2>5. \E at \in {"write", "verify"}, d \in Tree :
           mat' = [mat EXCEPT ![m] = [[mat[m] EXCEPT !.at = at] EXCEPT !.dest = d]]
    BY <2>3, <2>4 DEF StoreTyped
  <2> QED
    BY <2>1, <2>5, MatGoesOn DEF Stages
<1>7. ASSUME (\E p \in Path : Stage(p) \/ \E f \in Written : Edit(p, f)) \/ Commit
      PROVE  StoreTyped'
  <2>1. /\ edits < MaxEdits /\ edits' = edits + 1 /\ UNCHANGED <<blobs, manifests, mat>>
    BY <1>7 DEF Edit, Stage, Commit, Note, store
  <2>2. edits' \in 0..MaxEdits
    BY <2>1, SnapshotConstants DEF StoreTyped
  <2> QED
    BY <2>1, <2>2 DEF StoreTyped, MatTyped
<1>8. CASE UNCHANGED vars
  BY <1>8 DEF vars, store, history, repository, StoreTyped, MatTyped
<1> QED
  BY <1>1, <1>2, <1>3, <1>4, <1>5, <1>6, <1>7, <1>8 DEF Next

\* The stores and the materializations have their types in every state.
LEMMA StoresTyped == Spec => []StoreTyped
<1>1. Init => StoreTyped
  <2> SUFFICES ASSUME Init PROVE StoreTyped
    OBVIOUS
  <2>1. mat = [m \in Candidate |-> mat[m]] /\ \A m \in Candidate : MatTyped(m)
    BY DEF Init, MatTyped, Stages
  <2> QED
    BY <2>1, SnapshotConstants DEF Init, StoreTyped
<1>2. IInv /\ StoreTyped /\ [Next]_vars => StoreTyped'
  BY StoreStepTyped
<1> QED
  BY <1>1, <1>2, CaptureInvariant, PTL DEF Spec

\* TypeOK: the variables have their types, for every set of paths and contents.
THEOREM TypeCorrect == Spec => []TypeOK
<1>1. IInv /\ StoreTyped => TypeOK
  BY DEF IInv, Typed, Good, Formed, IsLook, StoreTyped, MatTyped, Stages, TypeOK
<1> QED
  BY <1>1, CaptureInvariant, StoresTyped, PTL

-----------------------------------------------------------------------------
(* What a capture says of the commit, and its id                           *)

\* Until it reads paths a look has no entries; what a first look has read is
\* stored.
Stocked(c) ==
    /\ Looking(c) /\ cap[c].at # "read" => \A p \in Path : cap[c].look.entries[p] = Unlisted
    /\ Looking(c) /\ ~Second(c) =>
         \A p \in FilesOf(cap[c].look.entries) : cap[c].look.entries[p].content \in blobs
    /\ \A p \in FilesOf(cap[c].first.entries) : cap[c].first.entries[p].content \in blobs

\* A path the first look did not list is not in the commit, its deletion was
\* staged, or the commit is gone and the second look has not found it again.
DeletionStaged(c, p) == \E s \in during[c] : p \in Present(s[1]) \ s[3] /\ s[2][p] = Absent
NotCommitted(c) ==
    \A p \in Path : cap[c].first.entries[p] = Unlisted =>
      cap[c].first.head[p] = Absent \/ DeletionStaged(c, p)
ListsCommit(c) ==
    /\ cap[c].at = "read" =>
         \/ \A p \in Present(cap[c].look.head) \ cap[c].look.paths : DeletionStaged(c, p)
         \/ GoneHead(c, cap[c].look.head)
    /\ Looking(c) /\ Second(c) =>
         \/ NotCommitted(c)
         \/ /\ GoneHead(c, cap[c].first.head)
            /\ cap[c].at = "head" \/ cap[c].look.head # cap[c].first.head
    /\ cap[c].at \in {"rename", "done", "filed"} => NotCommitted(c)

\* What the second look was told for the id, it was told of a state between the
\* looks.
Identified(c) ==
    /\ Looking(c) /\ Second(c) =>
         /\ cap[c].at \in {"untracked", "diff", "tracked", "paths", "read"} =>
              \E u \in during[c] : Between(c, u) /\ cap[c].look.status = StatusOf(u[1], u[3], u[2])
         /\ cap[c].at \in {"diff", "tracked", "paths", "read"} =>
              \E u \in during[c] :
                Between(c, u) /\ cap[c].look.untracked = UntrackedOf(u[3], u[2])
         /\ cap[c].at \in {"tracked", "paths", "read"} =>
              \E u \in during[c] : Between(c, u) /\ cap[c].look.diff = DiffOf(u[1], u[3], u[2])
    /\ cap[c].at \in {"rename", "done", "filed"} =>
         \E x \in SUBSET Path :
           IdFrom(cap[c].first) = IdOf(cap[c].first.head, x, TreeOf(cap[c].first.entries))

Says(c) ==
    Stocked(c) /\ (c \notin restored => ListsCommit(c)) /\ (Steady(c) => Identified(c))

\* A manifest is that of a capture that is done; the snapshot of such a capture
\* is in the store.
MadeBy(n, c) == cap[c].at \in {"done", "filed"} /\ n = ManifestOf(c)
Filed ==
    /\ \A n \in manifests : \E c \in Capture : MadeBy(n, c)
    /\ \A c \in Capture : cap[c].at = "done" => Stored(ManifestOf(c).id) # {}

\* A capture of this id has captured this tree.
Has(c, id, t) ==
    MadeBy(ManifestOf(c), c) /\ ManifestOf(c).id = id /\ t = TreeOf(cap[c].first.entries)

\* How far a materialization has come from the commit to the manifest's tree
MatSound(m) ==
    mat[m].at \in {"validate", "remove", "write", "verify", "done"} =>
      /\ \E c \in Capture : MadeBy(mat[m].manifest, c)
      /\ mat[m].manifest.id = mat[m].id
      /\ mat[m].at \in {"validate", "remove"} => mat[m].dest = mat[m].id.head
      /\ mat[m].at \in {"write", "verify"} =>
           \A p \in Path : p \notin FilesOf(mat[m].manifest.entries) =>
             mat[m].dest[p] = IF p \in Deleted(mat[m].manifest.entries) THEN Absent
                              ELSE mat[m].id.head[p]
      /\ mat[m].at = "verify" =>
           \A p \in FilesOf(mat[m].manifest.entries) :
             mat[m].dest[p] = mat[m].manifest.entries[p]
      /\ mat[m].at = "done" => \E c \in Capture : Has(c, mat[m].id, mat[m].dest)

SnapInv ==
    (\A c \in Capture : Says(c)) /\ Filed /\ \A m \in Candidate : MatSound(m)

-----------------------------------------------------------------------------
(* Captures, second part                                                   *)

\* The calls in their order
LEMMA CallOrder ==
  /\ After("head") = "status" /\ After("status") = "untracked" /\ After("untracked") = "diff"
  /\ After("diff") = "tracked" /\ After("tracked") = "paths" /\ After("paths") = "read"
<1>1. Len(Calls) = 6 /\ DOMAIN Calls = {1, 2, 3, 4, 5, 6}
  BY DEF Calls
<1>2. /\ Calls[1] = "head" /\ Calls[2] = "status" /\ Calls[3] = "untracked"
      /\ Calls[4] = "diff" /\ Calls[5] = "tracked" /\ Calls[6] = "paths"
  BY DEF Calls
<1>3. ASSUME NEW i \in {1, 2, 3, 4, 5, 6}
      PROVE  After(Calls[i]) = IF i = 6 THEN "read" ELSE Calls[i + 1]
  <2>1. \A j \in {1, 2, 3, 4, 5, 6} : Calls[j] = Calls[i] => j = i
    BY <1>2
  <2> DEFINE k == CHOOSE k \in DOMAIN Calls : Calls[k] = Calls[i]
  <2>2. k \in DOMAIN Calls /\ Calls[k] = Calls[i]
    BY <1>1
  <2>3. After(Calls[i]) = IF k = 6 THEN "read" ELSE Calls[k + 1]
    BY <1>1 DEF After
  <2> HIDE DEF k
  <2>4. k = i
    BY <1>1, <2>1, <2>2
  <2> QED
    BY <2>3, <2>4
<1>4. /\ After(Calls[1]) = Calls[2] /\ After(Calls[2]) = Calls[3] /\ After(Calls[3]) = Calls[4]
      /\ After(Calls[4]) = Calls[5] /\ After(Calls[5]) = Calls[6] /\ After(Calls[6]) = "read"
  BY <1>3
<1> QED
  BY <1>2, <1>4

\* The look that has read nothing names no files.
LEMMA NoLookNoFiles == FilesOf(NoLook.entries) = {}
BY NoLookIsLook, SnapshotConstants DEF FilesOf

\* What a capture says of the commit and of its id is about that capture.
LEMMA SaysStays ==
  ASSUME NEW d \in Capture, Says(d), Frame(d), blobs \subseteq blobs'
  PROVE  Says(d)'
<1>1. Stocked(d)'
  BY DEF Says, Stocked, Frame, Looking, Second
<1>2. d \notin restored' => ListsCommit(d)'
  BY DEF Says, ListsCommit, NotCommitted, DeletionStaged, Present, Frame, Looking, Second,
         GoneHead, Heads
<1>3. Steady(d)' => Steady(d)
  BY DEF Steady, Frame
<1>4. ASSUME Steady(d)
      PROVE  Identified(d)'
  <2>1. /\ cap'[d] = cap[d] /\ during'[d] = during[d] /\ Identified(d)
        /\ (Looking(d)' <=> Looking(d)) /\ (Second(d)' <=> Second(d))
    BY <1>4 DEF Says, Frame, Looking, Second
  <2>2. \A u : Between(d, u) => Between(d, u)'
    BY BetweenStays
  <2> QED
    BY <2>1, <2>2 DEF Identified
<1> QED
  BY <1>1, <1>2, <1>3, <1>4 DEF Says

\* While the second look makes its calls, the present is a state between the
\* looks.
LEMMA PresentBetween ==
  ASSUME IInv, NEW c \in Capture, Looking(c), Second(c), Steady(c), Stocked(c),
         cap[c].at # "read"
  PROVE  <<head, tree, index>> \in during[c] /\ Between(c, <<head, tree, index>>)
<1> DEFINE u == <<head, tree, index>>
<1>1. Good(c) /\ Running(c)
  BY DEF IInv, Looking, Running
<1>2. u \in during[c]
  BY <1>1 DEF Good, Formed
<1>3. PICK s \in during[c] : Between(c, s)
  BY <1>1 DEF Good, FoundAgain, Steady
<1>4. s[1] = head
  BY <1>2, <1>3 DEF Steady
<1>5. /\ u[1] = cap[c].first.head \/ GoneHead(c, cap[c].first.head)
      /\ cap[c].at # "head" /\ cap[c].look.head = cap[c].first.head => u[1] = cap[c].first.head
  BY <1>3, <1>4 DEF Between
<1>6. ASSUME NEW p \in Path
      PROVE  \/ u[2][p] = TreeOf(cap[c].first.entries)[p]
             \/ GoneValue(c, p, TreeOf(cap[c].first.entries)[p])
  <2>1. TreeOf(cap[c].first.entries)[p] \in Values(c, p)
    BY <1>3 DEF Between, GoneValue, Values
  <2> QED
    BY <2>1 DEF GoneValue
<1>7. \A p \in Path : cap[c].look.entries[p] = Unlisted
  BY DEF Stocked
<1> QED
  BY <1>2, <1>5, <1>6, <1>7 DEF Between

\* A call of a look
LEMMA LookSays ==
  ASSUME IInv, NEW c \in Capture, Look(c), Says(c)
  PROVE  Says(c)'
<1>1. cap = [d \in Capture |-> cap[d]] /\ Good(c)
  BY DEF IInv, Typed
<1>2. PICK l : LookTo(c, l)
  BY LookMoves
<1>3. cap'[c].at = After(cap[c].at) /\ cap'[c].first = cap[c].first /\ cap'[c].look = l
  BY <1>1, <1>2 DEF LookTo
<1>4. /\ cap[c].at \in {"head", "status", "untracked", "diff", "tracked", "paths"}
      /\ tree' = tree /\ head' = head /\ index' = index /\ restored' = restored /\ during' = during
      /\ blobs' = blobs
  BY CallNames DEF Look, history, repository, store
<1>5. /\ cap'[c].at \in {"status", "untracked", "diff", "tracked", "paths", "read"}
      /\ cap'[c].at = "read" <=> cap[c].at = "paths"
  BY <1>3, AfterCall DEF Look
<1>6. Looking(c) /\ Looking(c)' /\ (Second(c)' <=> Second(c))
  BY <1>3, <1>4, <1>5 DEF Looking, Second
<1>7. /\ l.entries = cap[c].look.entries
      /\ l.head = IF cap[c].at = "head" THEN head ELSE cap[c].look.head
      /\ cap[c].at = "paths" => l.paths = ListedPaths(index, tree)
  BY <1>2 DEF LookTo
<1>8. Stocked(c)'
  BY <1>3, <1>4, <1>6, <1>7 DEF Says, Stocked
<1>9. ASSUME c \notin restored'
      PROVE  ListsCommit(c)'
  <2>1. ListsCommit(c)
    BY <1>4, <1>9 DEF Says
  <2>2. ASSUME cap'[c].at = "read"
        PROVE  \/ \A p \in Present(l.head) \ l.paths : DeletionStaged(c, p)
               \/ l.head # head /\ l.head \in Heads(c)
    <3>1. cap[c].at = "paths" /\ l.head = cap[c].look.head /\ l.paths = ListedPaths(index, tree)
      BY <1>5, <1>7, <2>2
    <3>2. l.head \in Heads(c)
      BY <1>1, <1>6, <3>1 DEF Good, WasThere
    <3>3. ASSUME l.head = head, NEW p \in Present(l.head) \ l.paths
          PROVE  DeletionStaged(c, p)
      <4>1. p \in Path /\ p \in Present(head) \ index /\ tree[p] = Absent
        BY <3>1, <3>3 DEF ListedPaths, Present
      <4>2. <<head, tree, index>> \in during[c]
        BY <1>1, <1>6 DEF Good, Formed, Looking, Running
      <4> QED
        BY <4>1, <4>2 DEF DeletionStaged
    <3> QED
      BY <3>2, <3>3
  <2>3. NotCommitted(c) => NotCommitted(c)'
    BY <1>3, <1>4 DEF NotCommitted, DeletionStaged, Present
  <2>4. ASSUME Second(c), ~NotCommitted(c)
        PROVE  GoneHead(c, cap[c].first.head) /\ l.head # cap[c].first.head
    BY <1>6, <1>7, <2>1, <2>4 DEF ListsCommit, GoneHead
  <2>5. \A h : (h # head /\ h \in Heads(c)) => (h # head' /\ h \in Heads(c)')
    BY <1>4 DEF Heads
  <2>6. cap'[c].at \notin {"rename", "done", "filed"}
    BY <1>5
  <2>7. cap'[c].at = "read" =>
          \/ \A p \in Present(cap'[c].look.head) \ cap'[c].look.paths : DeletionStaged(c, p)'
          \/ GoneHead(c, cap[c].look.head)'
    BY <1>3, <1>4, <2>2, <2>5 DEF GoneHead, DeletionStaged, Present
  <2>8. Second(c)' => \/ NotCommitted(c)'
                      \/ GoneHead(c, cap[c].first.head)' /\ cap'[c].look.head # cap'[c].first.head
    BY <1>3, <1>6, <2>3, <2>4, <2>5 DEF GoneHead
  <2> QED
    BY <2>6, <2>7, <2>8 DEF ListsCommit
<1>10. ASSUME Steady(c)'
       PROVE  Identified(c)'
  <2>1. Steady(c) /\ Identified(c)
    BY <1>4, <1>10 DEF Says, Steady
  <2>2. \A u : Between(c, u) => Between(c, u)'
    BY LookBetween
  <2>3. Second(c) => <<head, tree, index>> \in during[c] /\ Between(c, <<head, tree, index>>)
    BY <1>4, <1>6, <2>1, PresentBetween DEF Says
  <2>4. Second(c) => \E u \in during[c] : /\ Between(c, u)
                                         /\ StatusOf(head, index, tree) = StatusOf(u[1], u[3], u[2])
                                         /\ UntrackedOf(index, tree) = UntrackedOf(u[3], u[2])
                                         /\ DiffOf(head, index, tree) = DiffOf(u[1], u[3], u[2])
    BY <2>3
  <2>5. /\ l.status = IF cap[c].at = "status" THEN StatusOf(head, index, tree) ELSE cap[c].look.status
        /\ l.untracked = IF cap[c].at = "untracked" THEN UntrackedOf(index, tree)
                         ELSE cap[c].look.untracked
        /\ l.diff = IF cap[c].at = "diff" THEN DiffOf(head, index, tree) ELSE cap[c].look.diff
    BY <1>2 DEF LookTo
  <2>6. /\ cap'[c].at = "untracked" <=> cap[c].at = "status"
        /\ cap'[c].at = "diff" <=> cap[c].at = "untracked"
        /\ cap'[c].at = "tracked" <=> cap[c].at = "diff"
        /\ cap'[c].at = "paths" <=> cap[c].at = "tracked"
        /\ cap'[c].at = "status" <=> cap[c].at = "head"
    BY <1>3, <1>4, CallOrder
  <2>7. ASSUME Second(c), cap'[c].at \in {"untracked", "diff", "tracked", "paths", "read"}
        PROVE  \E u \in during[c] : Between(c, u)' /\ l.status = StatusOf(u[1], u[3], u[2])
    <3>1. CASE cap[c].at = "status"
      BY <2>2, <2>4, <2>5, <2>7, <3>1
    <3>2. CASE cap[c].at # "status"
      <4>1. cap[c].at \in {"untracked", "diff", "tracked", "paths", "read"}
        BY <1>4, <1>5, <2>6, <2>7, <3>2
      <4>2. PICK u \in during[c] : Between(c, u) /\ cap[c].look.status = StatusOf(u[1], u[3], u[2])
        BY <1>6, <2>1, <2>7, <4>1 DEF Identified
      <4> QED
        BY <2>2, <2>5, <3>2, <4>2
    <3> QED
      BY <3>1, <3>2
  <2>8. ASSUME Second(c), cap'[c].at \in {"diff", "tracked", "paths", "read"}
        PROVE  \E u \in during[c] : Between(c, u)' /\ l.untracked = UntrackedOf(u[3], u[2])
    <3>1. CASE cap[c].at = "untracked"
      BY <2>2, <2>4, <2>5, <2>8, <3>1
    <3>2. CASE cap[c].at # "untracked"
      <4>1. cap[c].at \in {"diff", "tracked", "paths", "read"}
        BY <1>4, <1>5, <2>6, <2>8, <3>2
      <4>2. PICK u \in during[c] :
              Between(c, u) /\ cap[c].look.untracked = UntrackedOf(u[3], u[2])
        BY <1>6, <2>1, <2>8, <4>1 DEF Identified
      <4> QED
        BY <2>2, <2>5, <3>2, <4>2
    <3> QED
      BY <3>1, <3>2
  <2>9. ASSUME Second(c), cap'[c].at \in {"tracked", "paths", "read"}
        PROVE  \E u \in during[c] : Between(c, u)' /\ l.diff = DiffOf(u[1], u[3], u[2])
    <3>1. CASE cap[c].at = "diff"
      BY <2>2, <2>4, <2>5, <2>9, <3>1
    <3>2. CASE cap[c].at # "diff"
      <4>1. cap[c].at \in {"tracked", "paths", "read"}
        BY <1>4, <1>5, <2>6, <2>9, <3>2
      <4>2. PICK u \in during[c] : Between(c, u) /\ cap[c].look.diff = DiffOf(u[1], u[3], u[2])
        BY <1>6, <2>1, <2>9, <4>1 DEF Identified
      <4> QED
        BY <2>2, <2>5, <3>2, <4>2
    <3> QED
      BY <3>1, <3>2
  <2>10. cap'[c].at \notin {"rename", "done", "filed"}
    BY <1>5
  <2> QED
    BY <1>3, <1>4, <1>6, <2>7, <2>8, <2>9, <2>10 DEF Identified
<1> QED
  BY <1>8, <1>9, <1>10 DEF Says

\* The reading of a path
LEMMA ReadSays ==
  ASSUME IInv, NEW c \in Capture, ReadPath(c), Says(c)
  PROVE  Says(c)'
<1>1. cap = [d \in Capture |-> cap[d]] /\ Good(c)
  BY DEF IInv, Typed
<1>2. PICK l, p : ReadTo(c, l, p)
  BY ReadMoves
<1>3. cap'[c].at = "read" /\ cap'[c].first = cap[c].first /\ cap'[c].look = l
  BY <1>1, <1>2 DEF ReadTo
<1>4. /\ cap[c].at = "read"
      /\ tree' = tree /\ head' = head /\ index' = index /\ restored' = restored /\ during' = during
      /\ blobs \subseteq blobs'
      /\ ~Second(c) /\ tree[p] # Absent => tree[p].content \in blobs'
  BY <1>2 DEF ReadPath, history, repository, Persists, Second, ReadTo
<1>5. Looking(c) /\ Looking(c)' /\ (Second(c)' <=> Second(c))
  BY <1>3, <1>4 DEF Looking, Second
<1>6. /\ p \in Path /\ l.head = cap[c].look.head /\ l.paths = cap[c].look.paths
      /\ l.status = cap[c].look.status /\ l.diff = cap[c].look.diff
      /\ l.untracked = cap[c].look.untracked
  BY <1>2 DEF ReadTo
<1>7. /\ l.entries[p] = tree[p]
      /\ \A q \in Path \ {p} : l.entries[q] = cap[c].look.entries[q]
  BY <1>1, <1>2 DEF Good, Formed, IsLook, Entries, ReadTo
<1>8. Stocked(c)'
  <2>1. \A q \in FilesOf(cap'[c].first.entries) : cap'[c].first.entries[q].content \in blobs'
    BY <1>3, <1>4 DEF Says, Stocked
  <2>2. ASSUME ~Second(c), NEW q \in FilesOf(l.entries)
        PROVE  l.entries[q].content \in blobs'
    <3>1. q \in Path /\ l.entries[q] \in File
      BY <2>2 DEF FilesOf
    <3>2. CASE q = p
      BY <1>4, <1>7, <2>2, <3>1, <3>2, SnapshotConstants
    <3>3. CASE q # p
      BY <1>4, <1>5, <1>7, <2>2, <3>1, <3>3 DEF Says, Stocked, FilesOf
    <3> QED
      BY <3>2, <3>3
  <2> QED
    BY <1>3, <1>5, <2>1, <2>2 DEF Stocked
<1>9. ASSUME c \notin restored'
      PROVE  ListsCommit(c)'
  <2>1. ListsCommit(c)
    BY <1>4, <1>9 DEF Says
  <2> QED
    BY <1>3, <1>4, <1>5, <1>6, <2>1
       DEF ListsCommit, NotCommitted, GoneHead, Heads, DeletionStaged, Present
<1>10. ASSUME Steady(c)'
       PROVE  Identified(c)'
  <2>1. Identified(c)
    BY <1>4, <1>10 DEF Says, Steady
  <2>2. \A u : Between(c, u) => Between(c, u)'
    BY ReadBetween
  <2> QED
    BY <1>3, <1>4, <1>5, <1>6, <2>1, <2>2 DEF Identified
<1> QED
  BY <1>8, <1>9, <1>10 DEF Says

\* The first look ends: what it did not list is not in its commit.
LEMMA AgainSays ==
  ASSUME IInv, NEW c \in Capture, LookAgain(c), Says(c)
  PROVE  Says(c)'
<1>1. cap = [d \in Capture |-> cap[d]]
  BY DEF IInv, Typed
<1>2. /\ cap'[c].at = "head" /\ cap'[c].first = cap[c].look /\ cap'[c].look = NoLook
      /\ cap[c].at = "read" /\ Remaining(c) = {} /\ ~Second(c)
      /\ tree' = tree /\ head' = head /\ index' = index /\ restored' = restored /\ during' = during
      /\ blobs' = blobs
  BY <1>1 DEF LookAgain, history, repository, store, Second
<1>3. Looking(c)
  BY <1>2 DEF Looking
<1>4. Stocked(c)'
  <2>1. \A p \in FilesOf(cap'[c].first.entries) : cap'[c].first.entries[p].content \in blobs'
    BY <1>2, <1>3 DEF Says, Stocked
  <2>2. /\ \A p \in Path : cap'[c].look.entries[p] = Unlisted
        /\ FilesOf(cap'[c].look.entries) = {}
    BY <1>2, NoLookIsLook, NoLookNoFiles
  <2> QED
    BY <2>1, <2>2 DEF Stocked
<1>5. ASSUME c \notin restored'
      PROVE  ListsCommit(c)'
  <2>1. \/ \A p \in Present(cap[c].look.head) \ cap[c].look.paths : DeletionStaged(c, p)
        \/ GoneHead(c, cap[c].look.head)
    BY <1>2, <1>5 DEF Says, ListsCommit
  <2>2. GoneHead(c, cap[c].look.head) => GoneHead(c, cap[c].first.head)'
    BY <1>2 DEF GoneHead, Heads
  <2>3. ASSUME \A p \in Present(cap[c].look.head) \ cap[c].look.paths : DeletionStaged(c, p)
        PROVE  NotCommitted(c)'
    <3>1. ASSUME NEW p \in Path, cap[c].look.entries[p] = Unlisted
          PROVE  cap[c].look.head[p] = Absent \/ DeletionStaged(c, p)
      BY <1>2, <2>3, <3>1, NothingRemains DEF Present
    <3>2. \A p : DeletionStaged(c, p)' <=> DeletionStaged(c, p)
      BY <1>2 DEF DeletionStaged, Present
    <3> QED
      BY <1>2, <3>1, <3>2 DEF NotCommitted
  <2> QED
    BY <1>2, <2>1, <2>2, <2>3 DEF ListsCommit
<1>6. Identified(c)'
  BY <1>2 DEF Identified
<1> QED
  BY <1>4, <1>5, <1>6 DEF Says

\* A capture that is over or has not begun has nothing to say.
LEMMA NothingSaid ==
  ASSUME NEW c \in Capture, cap'[c].first = NoLook, cap'[c].look = NoLook,
         cap'[c].at \in {"head", "refused", "failed"}
  PROVE  Says(c)'
<1>1. ~Second(c)'
  BY DEF Second
<1>2. Stocked(c)'
  <2>1. /\ \A p \in Path : cap'[c].look.entries[p] = Unlisted
        /\ FilesOf(cap'[c].look.entries) = {} /\ FilesOf(cap'[c].first.entries) = {}
    BY NoLookIsLook, NoLookNoFiles
  <2> QED
    BY <2>1 DEF Stocked
<1>3. ListsCommit(c)' /\ Identified(c)'
  BY <1>1 DEF ListsCommit, Identified
<1> QED
  BY <1>2, <1>3 DEF Says

\* The looks are compared: the id is that of the captured tree.
LEMMA FileSays ==
  ASSUME IInv, NEW c \in Capture, FileManifest(c), Says(c)
  PROVE  Says(c)'
<1>1. /\ cap = [d \in Capture |-> cap[d]] /\ Formed(c)
  BY DEF IInv, Typed, Good
<1>2. /\ cap[c].at = "read" /\ Remaining(c) = {} /\ Second(c) /\ Looking(c)
      /\ restored' = restored /\ during' = during /\ blobs' = blobs
  BY DEF FileManifest, history, repository, store, Second, Looking
<1>3. \/ cap'[c] = Over("refused")
      \/ /\ SameLooks(cap[c].first, cap[c].look)
         /\ cap'[c].at \in {"rename", "done"} /\ cap'[c].first = cap[c].first
  BY <1>1, FileMoves DEF FileTo, Ends
<1>4. CASE cap'[c] = Over("refused")
  BY <1>4, NothingSaid DEF Over
<1>5. CASE /\ SameLooks(cap[c].first, cap[c].look)
           /\ cap'[c].at \in {"rename", "done"} /\ cap'[c].first = cap[c].first
  <2>1. ~Looking(c)' /\ cap'[c].at # "read"
    BY <1>5 DEF Looking
  <2>2. Stocked(c)'
    BY <1>2, <1>5, <2>1 DEF Says, Stocked
  <2>3. cap[c].look.head = cap[c].first.head
    BY <1>5 DEF SameLooks, IdFrom
  <2>4. c \notin restored' => ListsCommit(c)'
    BY <1>2, <1>5, <2>1, <2>3
       DEF Says, ListsCommit, NotCommitted, DeletionStaged, Present, Looking
  <2>5. ASSUME Steady(c)'
        PROVE  Identified(c)'
    <3> DEFINE h == cap[c].first.head
               t == TreeOf(cap[c].first.entries)
    <3>1. Identified(c)
      BY <1>2, <2>5 DEF Says, Steady
    <3>2. \A u \in during[c] : Between(c, u) => u[1] = h /\ u[2] = t
      BY <1>2, <1>5, AgreedState
    <3>3. PICK u \in during[c] : Between(c, u) /\ cap[c].look.status = StatusOf(u[1], u[3], u[2])
      BY <1>2, <3>1 DEF Identified
    <3>4. u[3] \in SUBSET Path
      BY DEF IInv, Typed, Moment
    <3>5. \A w \in during[c] : w[3] = u[3]
      BY <1>2, <2>5 DEF Steady
    <3>6. /\ cap[c].look.status = StatusOf(h, u[3], t)
          /\ cap[c].look.untracked = UntrackedOf(u[3], t)
          /\ cap[c].look.diff = DiffOf(h, u[3], t)
      BY <1>2, <3>1, <3>2, <3>3, <3>5 DEF Identified
    <3>7. IdFrom(cap[c].first) = IdFrom(cap[c].look)
      BY <1>5 DEF SameLooks
    <3>8. IdFrom(cap[c].look) = IdOf(h, u[3], t)
      BY <2>3, <3>6 DEF IdFrom, IdOf
    <3> QED
      BY <1>5, <2>1, <3>4, <3>7, <3>8 DEF Identified
  <2> QED
    BY <2>2, <2>4, <2>5 DEF Says
<1> QED
  BY <1>3, <1>4, <1>5

\* The manifest is renamed into place.
LEMMA RenameSays ==
  ASSUME IInv, NEW c \in Capture, RenameManifest(c), Says(c)
  PROVE  Says(c)'
<1>1. cap = [d \in Capture |-> cap[d]] /\ Formed(c)
  BY DEF IInv, Typed, Good
<1>2. /\ cap[c].at = "rename"
      /\ \E at \in {"done", "filed"} : cap'[c] = [cap[c] EXCEPT !.at = at]
      /\ restored' = restored /\ during' = during /\ blobs' = blobs
  BY <1>1 DEF RenameManifest, history, repository
<1>3. cap'[c].at \in {"done", "filed"} /\ cap'[c].first = cap[c].first
  BY <1>1, <1>2 DEF Formed
<1>4. ~Looking(c)' /\ cap'[c].at # "read"
  BY <1>3 DEF Looking
<1>5. Stocked(c)'
  BY <1>2, <1>3, <1>4 DEF Says, Stocked
<1>6. c \notin restored' => ListsCommit(c)'
  BY <1>2, <1>3, <1>4 DEF Says, ListsCommit, NotCommitted, DeletionStaged, Present, Looking
<1>7. Steady(c)' => Identified(c)'
  BY <1>2, <1>3, <1>4 DEF Says, Steady, Identified
<1> QED
  BY <1>5, <1>6, <1>7 DEF Says

\* An edit, a staging or a commit
LEMMA ChangeSays ==
  ASSUME IInv, Changes, blobs' = blobs, NEW c \in Capture, Says(c)
  PROVE  Says(c)'
<1>1. /\ cap' = cap /\ restored \subseteq restored' /\ during[c] \subseteq during'[c]
  BY DEF Changes, IInv, Typed
<1>2. (Looking(c)' <=> Looking(c)) /\ (Second(c)' <=> Second(c)) /\ (Looking(c) => Running(c))
  BY <1>1 DEF Looking, Second, Running
<1>3. Stocked(c)'
  BY <1>1, <1>2 DEF Says, Stocked
<1>4. ASSUME c \notin restored'
      PROVE  ListsCommit(c)'
  <2>1. ListsCommit(c)
    BY <1>1, <1>4 DEF Says
  <2>2. Looking(c) => \A h : GoneHead(c, h) => GoneHead(c, h)'
    BY <1>2, <1>4, GoneStays
  <2>3. cap[c].at = "read" => Looking(c)
    BY DEF Looking
  <2>7. \A p : DeletionStaged(c, p) => DeletionStaged(c, p)'
    BY <1>1 DEF DeletionStaged, Present
  <2>4. NotCommitted(c) => NotCommitted(c)'
    BY <1>1, <2>7 DEF NotCommitted
  <2>5. cap[c].at = "read" /\ GoneHead(c, cap[c].look.head) => GoneHead(c, cap[c].look.head)'
    BY <1>1, <2>2, <2>3
  <2>6. Looking(c) /\ GoneHead(c, cap[c].first.head) => GoneHead(c, cap[c].first.head)'
    BY <1>1, <2>2
  <2> QED
    BY <1>1, <1>2, <2>1, <2>4, <2>5, <2>6, <2>7 DEF ListsCommit, Present
<1>5. ASSUME Steady(c)'
      PROVE  Identified(c)'
  <2>1. Steady(c) /\ c \notin restored'
    BY <1>1, <1>5 DEF Steady
  <2>2. Identified(c)
    BY <2>1 DEF Says
  <2>3. Looking(c) => \A u : Between(c, u) => Between(c, u)'
    BY <2>1, ChangeBetween
  <2> QED
    BY <1>1, <1>2, <2>2, <2>3 DEF Identified
<1> QED
  BY <1>3, <1>4, <1>5 DEF Says

\* Of the steps of captures only the one of c is to be looked at.
LEMMA OthersSay ==
  ASSUME IInv, \A d \in Capture : Says(d), NEW c \in Capture, NEW r,
         cap' = [cap EXCEPT ![c] = r], tree' = tree, head' = head, index' = index, restored' = restored,
         \A d \in Capture \ {c} : during'[d] = during[d], blobs \subseteq blobs', Says(c)'
  PROVE  \A d \in Capture : Says(d)'
<1>1. \A d \in Capture \ {c} : cap'[d] = cap[d]
  BY DEF IInv, Typed
<1>2. ASSUME NEW d \in Capture \ {c}
      PROVE  Says(d)'
  <2>1. Frame(d)
    BY <1>1 DEF Frame
  <2> QED
    BY <2>1, SaysStays
<1> QED
  BY <1>2

\* What each capture says stays true.
LEMMA SaysStep ==
  ASSUME IInv, \A d \in Capture : Says(d), [Next]_vars
  PROVE  \A d \in Capture : Says(d)'
<1> DEFINE goal == \A d \in Capture : Says(d)'
<1>0. cap = [d \in Capture |-> cap[d]]
  BY DEF IInv, Typed
<1>1. ASSUME NEW c \in Capture, StartCapture(c) PROVE goal
  <2>1. Formed(c)
    BY DEF IInv, Good
  <2>2. cap' = [cap EXCEPT ![c] = [cap[c] EXCEPT !.at = "head"]]
    BY <1>0, <1>1 DEF StartCapture
  <2>3. cap'[c].at = "head" /\ cap'[c].first = NoLook /\ cap'[c].look = NoLook
    BY <1>0, <1>1, <2>1, <2>2 DEF StartCapture, Formed
  <2>4. Says(c)'
    BY <2>3, NothingSaid
  <2>5. /\ tree' = tree /\ head' = head /\ index' = index /\ restored' = restored /\ blobs \subseteq blobs'
        /\ \A d \in Capture \ {c} : during'[d] = during[d]
    BY <1>1 DEF StartCapture, store, repository, IInv, Typed
  <2> QED
    BY <2>2, <2>4, <2>5, OthersSay
<1>2. ASSUME NEW c \in Capture, Look(c) PROVE goal
  <2>1. PICK l : LookTo(c, l)
    BY <1>2, LookMoves
  <2>2. cap' = [cap EXCEPT ![c] = [at |-> After(cap[c].at), first |-> cap[c].first, look |-> l]]
    BY <2>1 DEF LookTo
  <2>3. Says(c)'
    BY <1>2, LookSays
  <2>4. /\ tree' = tree /\ head' = head /\ index' = index /\ restored' = restored /\ blobs \subseteq blobs'
        /\ during' = during
    BY <1>2 DEF Look, store, history, repository
  <2> QED
    BY <2>2, <2>3, <2>4, OthersSay
<1>3. ASSUME NEW c \in Capture, ReadPath(c) PROVE goal
  <2>1. PICK l, p : ReadTo(c, l, p)
    BY <1>3, ReadMoves
  <2>2. \E r : cap' = [cap EXCEPT ![c] = r]
    BY <2>1 DEF ReadTo
  <2>3. Says(c)'
    BY <1>3, ReadSays
  <2>4. /\ tree' = tree /\ head' = head /\ index' = index /\ restored' = restored /\ blobs \subseteq blobs'
        /\ during' = during
    BY <1>3 DEF ReadPath, history, repository
  <2> QED
    BY <2>2, <2>3, <2>4, OthersSay
<1>4. ASSUME NEW c \in Capture, LookAgain(c) PROVE goal
  <2>1. \E r : cap' = [cap EXCEPT ![c] = r]
    BY <1>4 DEF LookAgain
  <2>2. Says(c)'
    BY <1>4, AgainSays
  <2>3. /\ tree' = tree /\ head' = head /\ index' = index /\ restored' = restored /\ blobs \subseteq blobs'
        /\ during' = during
    BY <1>4 DEF LookAgain, store, history, repository
  <2> QED
    BY <2>1, <2>2, <2>3, OthersSay
<1>5. ASSUME NEW c \in Capture, FileManifest(c) PROVE goal
  <2>1. \E r : cap' = [cap EXCEPT ![c] = r]
    BY <1>5, FileMoves DEF FileTo
  <2>2. Says(c)'
    BY <1>5, FileSays
  <2>3. /\ tree' = tree /\ head' = head /\ index' = index /\ restored' = restored /\ blobs \subseteq blobs'
        /\ during' = during
    BY <1>5 DEF FileManifest, store, history, repository
  <2> QED
    BY <2>1, <2>2, <2>3, OthersSay
<1>6. ASSUME NEW c \in Capture, RenameManifest(c) PROVE goal
  <2>1. \E r : cap' = [cap EXCEPT ![c] = r]
    BY <1>0, <1>6 DEF RenameManifest
  <2>2. Says(c)'
    BY <1>6, RenameSays
  <2>3. /\ tree' = tree /\ head' = head /\ index' = index /\ restored' = restored /\ blobs \subseteq blobs'
        /\ during' = during
    BY <1>6 DEF RenameManifest, history, repository
  <2> QED
    BY <2>1, <2>2, <2>3, OthersSay
<1>7. ASSUME NEW c \in Capture, CaptureFails(c) PROVE goal
  <2>1. cap' = [cap EXCEPT ![c] = Over("failed")]
    BY <1>7 DEF CaptureFails
  <2>2. cap'[c].at = "failed" /\ cap'[c].first = NoLook /\ cap'[c].look = NoLook
    BY <1>0, <2>1 DEF Over
  <2>3. Says(c)'
    BY <2>2, NothingSaid
  <2>4. /\ tree' = tree /\ head' = head /\ index' = index /\ restored' = restored /\ blobs \subseteq blobs'
        /\ during' = during
    BY <1>7 DEF CaptureFails, store, history, repository
  <2> QED
    BY <2>1, <2>3, <2>4, OthersSay
<1>8. ASSUME UNCHANGED <<tree, head, index, blobs, cap, during, restored>> PROVE goal
  <2>1. \A d \in Capture : Frame(d)
    BY <1>8 DEF Frame
  <2> QED
    BY <1>8, <2>1, SaysStays
<1>9. ASSUME NEW m \in Candidate,
             \/ \E c \in Capture : ReadManifest(m, c)
             \/ LoadBlobs(m) \/ RemoveDeleted(m) \/ WriteFiles(m)
             \/ VerifyMaterialized(m) \/ MaterializeFails(m)
      PROVE  goal
  <2>1. UNCHANGED <<tree, head, index, blobs, cap, during, restored>>
    BY <1>9 DEF ReadManifest, LoadBlobs, RemoveDeleted, WriteFiles, VerifyMaterialized,
                MaterializeFails, store, history, repository
  <2> QED
    BY <1>8, <2>1
<1>10. ASSUME Changes, blobs' = blobs PROVE goal
  BY <1>10, ChangeSays
<1>11. ASSUME NEW p \in Path, NEW f \in Written, Edit(p, f) PROVE goal
  <2>1. blobs' = blobs
    BY <1>11 DEF Edit, Note, store
  <2> QED
    BY <1>10, <1>11, <2>1, EditChanges
<1>12. CASE Commit
  <2>1. blobs' = blobs
    BY <1>12 DEF Commit, Note, store
  <2> QED
    BY <1>10, <1>12, <2>1, CommitChanges
<1>15. ASSUME NEW p \in Path, Stage(p) PROVE goal
  <2>1. blobs' = blobs
    BY <1>15 DEF Stage, Note, store
  <2> QED
    BY <1>10, <1>15, <2>1, StageChanges
<1>13. CASE UNCHANGED vars
  BY <1>8, <1>13 DEF vars, store, history, repository
<1>14. ASSUME NEW c \in Capture,
              \/ StartCapture(c) \/ Look(c) \/ ReadPath(c) \/ LookAgain(c)
              \/ FileManifest(c) \/ RenameManifest(c) \/ CaptureFails(c)
       PROVE  goal
  BY <1>1, <1>2, <1>3, <1>4, <1>5, <1>6, <1>7, <1>14
<1> QED
  BY <1>9, <1>11, <1>12, <1>13, <1>14, <1>15 DEF Next

-----------------------------------------------------------------------------
(* Stored manifests                                                        *)

\* A capture that is done is not touched again.
DoneStays == \A c \in Capture : cap[c].at \in {"done", "filed"} => cap'[c] = cap[c]

LEMMA DoneIsDone ==
  ASSUME IInv, [Next]_vars
  PROVE  DoneStays
<1>0. cap = [d \in Capture |-> cap[d]]
  BY DEF IInv, Typed
<1>1. ASSUME NEW c \in Capture,
             \/ StartCapture(c) \/ Look(c) \/ ReadPath(c) \/ LookAgain(c)
             \/ FileManifest(c) \/ RenameManifest(c) \/ CaptureFails(c)
      PROVE  DoneStays
  <2>1. cap[c].at \notin {"done", "filed"}
    BY <1>1, CallNames DEF StartCapture, Look, ReadPath, LookAgain, FileManifest,
                           RenameManifest, CaptureFails
  <2>2. \A d \in Capture \ {c} : cap'[d] = cap[d]
    BY <1>0, <1>1 DEF StartCapture, Look, ReadPath, LookAgain, FileManifest,
                      RenameManifest, CaptureFails
  <2> QED
    BY <2>1, <2>2 DEF DoneStays
<1>2. cap' = cap => DoneStays
  BY DEF DoneStays
<1>3. ASSUME NEW m \in Candidate,
             \/ \E c \in Capture : ReadManifest(m, c)
             \/ LoadBlobs(m) \/ RemoveDeleted(m) \/ WriteFiles(m)
             \/ VerifyMaterialized(m) \/ MaterializeFails(m)
      PROVE  DoneStays
  BY <1>2, <1>3 DEF ReadManifest, LoadBlobs, RemoveDeleted, WriteFiles, VerifyMaterialized,
                    MaterializeFails
<1>4. ASSUME (\E p \in Path : Stage(p) \/ \E f \in Written : Edit(p, f)) \/ Commit
      PROVE  DoneStays
  BY <1>2, <1>4 DEF Edit, Stage, Commit, Note
<1>5. CASE UNCHANGED vars
  BY <1>2, <1>5 DEF vars
<1> QED
  BY <1>1, <1>3, <1>4, <1>5 DEF Next

\* Nor is the manifest it made.
LEMMA MadeStays ==
  ASSUME DoneStays, NEW c \in Capture, NEW n, MadeBy(n, c)
  PROVE  MadeBy(n, c)'
BY DEF DoneStays, MadeBy, ManifestOf, IdFrom

\* What a step leaves in the store
FiledOrNot ==
    /\ DoneStays
    /\ \/ manifests' = manifests
       \/ \E c \in Capture :
            /\ cap[c].at = "rename" /\ cap'[c].at \in {"done", "filed"}
            /\ cap'[c].first = cap[c].first
            /\ manifests' = (manifests \ Stored(ManifestOf(c).id)) \cup {ManifestOf(c)}
    /\ \A c \in Capture : cap'[c].at \in {"done", "filed"} /\ cap[c].at \notin {"done", "filed"} =>
         ManifestOf(c)' = ManifestOf(c) /\ ManifestOf(c) \in manifests'

LEMMA StoreMoves ==
  ASSUME IInv, [Next]_vars
  PROVE  FiledOrNot
<1>0. cap = [d \in Capture |-> cap[d]]
  BY DEF IInv, Typed
<1>1. DoneStays
  BY DoneIsDone
<1>2. ASSUME NEW c \in Capture, StartCapture(c) \/ Look(c) \/ ReadPath(c) \/ LookAgain(c)
                                \/ CaptureFails(c)
      PROVE  FiledOrNot
  <2>1. manifests' = manifests /\ \A d \in Capture \ {c} : cap'[d] = cap[d]
    BY <1>0, <1>2 DEF StartCapture, Look, ReadPath, LookAgain, CaptureFails, store
  <2>2. cap'[c].at \notin {"done", "filed"}
    <3>1. CASE StartCapture(c)
      <4>1. cap' = [cap EXCEPT ![c] = [cap[c] EXCEPT !.at = "head"]] /\ Formed(c)
        BY <1>0, <3>1 DEF StartCapture, IInv, Good
      <4>2. cap'[c].at = "head"
        BY <1>0, <4>1 DEF Formed
      <4> QED
        BY <4>2
    <3>2. CASE Look(c)
      <4>1. PICK l : LookTo(c, l)
        BY <3>2, LookMoves
      <4>2. cap'[c].at = After(cap[c].at)
        BY <1>0, <4>1 DEF LookTo
      <4> QED
        BY <3>2, <4>2, AfterCall DEF Look
    <3>3. CASE ReadPath(c)
      <4>1. PICK l, p : ReadTo(c, l, p)
        BY <3>3, ReadMoves
      <4> QED
        BY <1>0, <4>1 DEF ReadTo
    <3>4. CASE LookAgain(c)
      BY <1>0, <3>4 DEF LookAgain
    <3>5. CASE CaptureFails(c)
      BY <1>0, <3>5 DEF CaptureFails, Over
    <3> QED
      BY <1>2, <3>1, <3>2, <3>3, <3>4, <3>5
  <2> QED
    BY <1>1, <2>1, <2>2 DEF FiledOrNot
<1>3. ASSUME NEW c \in Capture, FileManifest(c)
      PROVE  FiledOrNot
  <2>1. manifests' = manifests /\ \A d \in Capture \ {c} : cap'[d] = cap[d]
    BY <1>0, <1>3 DEF FileManifest, store
  <2>2. /\ cap'[c].at # "filed"
        /\ cap'[c].at = "done" => cap'[c].first = cap[c].first /\ ManifestOf(c) \in manifests
    BY <1>0, <1>3, FileMoves DEF FileTo, Ends, Over
  <2>3. cap'[c].at = "done" => ManifestOf(c)' = ManifestOf(c)
    BY <2>2 DEF ManifestOf, IdFrom
  <2> QED
    BY <1>1, <2>1, <2>2, <2>3 DEF FiledOrNot
<1>4. ASSUME NEW c \in Capture, RenameManifest(c)
      PROVE  FiledOrNot
  <2>1. /\ cap[c].at = "rename"
        /\ \E at \in {"done", "filed"} : cap' = [cap EXCEPT ![c] = [cap[c] EXCEPT !.at = at]]
        /\ manifests' = (manifests \ Stored(ManifestOf(c).id)) \cup {ManifestOf(c)}
    BY <1>0, <1>4 DEF RenameManifest
  <2>2. Formed(c)
    BY DEF IInv, Good
  <2>3. /\ cap'[c].at \in {"done", "filed"} /\ cap'[c].first = cap[c].first
        /\ \A d \in Capture \ {c} : cap'[d] = cap[d]
    BY <1>0, <2>1, <2>2 DEF Formed
  <2>4. ManifestOf(c)' = ManifestOf(c)
    BY <2>3 DEF ManifestOf, IdFrom
  <2> QED
    BY <1>1, <2>1, <2>3, <2>4 DEF FiledOrNot
<1>5. manifests' = manifests /\ cap' = cap => FiledOrNot
  BY <1>1 DEF FiledOrNot
<1>6. ASSUME NEW m \in Candidate,
             \/ \E c \in Capture : ReadManifest(m, c)
             \/ LoadBlobs(m) \/ RemoveDeleted(m) \/ WriteFiles(m)
             \/ VerifyMaterialized(m) \/ MaterializeFails(m)
      PROVE  FiledOrNot
  BY <1>5, <1>6 DEF ReadManifest, LoadBlobs, RemoveDeleted, WriteFiles, VerifyMaterialized,
                    MaterializeFails, store
<1>7. ASSUME (\E p \in Path : Stage(p) \/ \E f \in Written : Edit(p, f)) \/ Commit
      PROVE  FiledOrNot
  BY <1>5, <1>7 DEF Edit, Stage, Commit, Note, store
<1>8. CASE UNCHANGED vars
  BY <1>5, <1>8 DEF vars, store
<1> QED
  BY <1>2, <1>3, <1>4, <1>6, <1>7, <1>8 DEF Next

\* The rename replaces a manifest only by another of the same id.
LEMMA FiledStep ==
  ASSUME FiledOrNot, Filed
  PROVE  Filed'
<1>1. DoneStays
  BY DEF FiledOrNot
<1>2. ASSUME NEW n \in manifests'
      PROVE  \E c \in Capture : MadeBy(n, c)'
  <2>1. CASE n \in manifests
    BY <1>1, <2>1, MadeStays DEF Filed
  <2>2. CASE n \notin manifests
    <3>1. PICK c \in Capture :
            /\ cap[c].at = "rename" /\ cap'[c].at \in {"done", "filed"}
            /\ cap'[c].first = cap[c].first
            /\ manifests' = (manifests \ Stored(ManifestOf(c).id)) \cup {ManifestOf(c)}
      BY <2>2 DEF FiledOrNot
    <3>2. n = ManifestOf(c) /\ ManifestOf(c)' = ManifestOf(c)
      BY <2>2, <3>1 DEF FiledOrNot
    <3> QED
      BY <3>1, <3>2 DEF MadeBy
  <2> QED
    BY <2>1, <2>2
<1>3. ASSUME NEW d \in Capture, cap'[d].at = "done"
      PROVE  \E n \in manifests' : n.id = ManifestOf(d)'.id
  <2>1. CASE cap[d].at # "done"
    BY <1>1, <1>3, <2>1 DEF FiledOrNot, DoneStays
  <2>2. CASE cap[d].at = "done"
    <3>1. ManifestOf(d)' = ManifestOf(d)
      BY <1>1, <2>2 DEF DoneStays, ManifestOf, IdFrom
    <3>2. PICK n \in manifests : n.id = ManifestOf(d).id
      BY <2>2 DEF Filed, Stored
    <3>3. CASE n \in manifests'
      BY <3>1, <3>2, <3>3
    <3>4. CASE n \notin manifests'
      <4>1. PICK c \in Capture :
              manifests' = (manifests \ Stored(ManifestOf(c).id)) \cup {ManifestOf(c)}
        BY <3>4 DEF FiledOrNot
      <4>2. n.id = ManifestOf(c).id /\ ManifestOf(c) \in manifests'
        BY <3>4, <4>1 DEF Stored
      <4> QED
        BY <3>1, <3>2, <4>2
    <3> QED
      BY <3>3, <3>4
  <2> QED
    BY <2>1, <2>2
<1> QED
  BY <1>2, <1>3 DEF Filed, Stored

-----------------------------------------------------------------------------
(* Materializations                                                        *)

\* A materialization goes on with its manifest, and with the tree it had or a
\* new one.
GoesOn(m, at, dest) ==
    /\ mat'[m].at = at /\ mat'[m].dest = dest
    /\ mat'[m].id = mat[m].id /\ mat'[m].manifest = mat[m].manifest
    /\ \A k \in Candidate \ {m} : mat'[k] = mat[k]
    /\ manifests' = manifests /\ cap' = cap

LEMMA MatMoves ==
  ASSUME StoreTyped, NEW m \in Candidate
  PROVE  /\ LoadBlobs(m) => \/ GoesOn(m, "remove", mat[m].dest)
                            \/ GoesOn(m, "refused", mat[m].dest)
         /\ RemoveDeleted(m) =>
              GoesOn(m, "write", [p \in Path |->
                IF p \in Deleted(mat[m].manifest.entries) THEN Absent ELSE mat[m].dest[p]])
         /\ WriteFiles(m) =>
              GoesOn(m, "verify", [p \in Path |->
                IF p \in FilesOf(mat[m].manifest.entries) THEN mat[m].manifest.entries[p]
                ELSE mat[m].dest[p]])
         /\ VerifyMaterialized(m) => \/ GoesOn(m, "done", mat[m].dest)
                                     \/ GoesOn(m, "refused", mat[m].dest)
         /\ MaterializeFails(m) => GoesOn(m, "failed", mat[m].dest)
<1>1. /\ mat = [k \in Candidate |-> mat[k]]
      /\ mat[m] = [at |-> mat[m].at, id |-> mat[m].id, manifest |-> mat[m].manifest,
                   dest |-> mat[m].dest]
  BY DEF StoreTyped, MatTyped
<1>2. ASSUME NEW at, mat' = [mat EXCEPT ![m].at = at], manifests' = manifests, cap' = cap
      PROVE  GoesOn(m, at, mat[m].dest)
  <2>1. mat'[m] = [mat[m] EXCEPT !.at = at] /\ \A k \in Candidate \ {m} : mat'[k] = mat[k]
    BY <1>1, <1>2
  <2>2. [mat[m] EXCEPT !.at = at] = [at |-> at, id |-> mat[m].id,
                                     manifest |-> mat[m].manifest, dest |-> mat[m].dest]
    BY <1>1
  <2> QED
    BY <1>2, <2>1, <2>2 DEF GoesOn
<1>3. ASSUME NEW at, NEW dest, mat' = [mat EXCEPT ![m].at = at, ![m].dest = dest],
             manifests' = manifests, cap' = cap
      PROVE  GoesOn(m, at, dest)
  <2> DEFINE r == mat[m]
             q == [r EXCEPT !.at = at]
             t == [q EXCEPT !.dest = dest]
  <2>1. mat'[m] = t /\ \A k \in Candidate \ {m} : mat'[k] = mat[k]
    BY <1>1, <1>3
  <2>2. r = [at |-> r.at, id |-> r.id, manifest |-> r.manifest, dest |-> r.dest]
    BY <1>1
  <2> HIDE DEF r
  <2>3. q = [at |-> at, id |-> r.id, manifest |-> r.manifest, dest |-> r.dest]
    BY <2>2
  <2> HIDE DEF q
  <2>4. t = [at |-> at, id |-> r.id, manifest |-> r.manifest, dest |-> dest]
    BY <2>3
  <2>5. /\ t.at = at /\ t.dest = dest /\ t.id = r.id /\ t.manifest = r.manifest
    BY <2>4
  <2>6. r.id = mat[m].id /\ r.manifest = mat[m].manifest
    BY DEF r
  <2> HIDE DEF t
  <2> QED
    BY <1>3, <2>1, <2>5, <2>6 DEF GoesOn
<1>4. LoadBlobs(m) => \/ GoesOn(m, "remove", mat[m].dest)
                      \/ GoesOn(m, "refused", mat[m].dest)
  <2> SUFFICES ASSUME LoadBlobs(m)
               PROVE  \E at \in {"remove", "refused"} : GoesOn(m, at, mat[m].dest)
    OBVIOUS
  <2>1. PICK at \in {"remove", "refused"} : mat' = [mat EXCEPT ![m].at = at]
    BY DEF LoadBlobs
  <2> QED
    BY <1>2, <2>1 DEF LoadBlobs, store
<1>5. RemoveDeleted(m) =>
        GoesOn(m, "write", [p \in Path |->
          IF p \in Deleted(mat[m].manifest.entries) THEN Absent ELSE mat[m].dest[p]])
  <2> DEFINE d == [p \in Path |->
                    IF p \in Deleted(mat[m].manifest.entries) THEN Absent ELSE mat[m].dest[p]]
  <2> SUFFICES ASSUME RemoveDeleted(m) PROVE GoesOn(m, "write", d)
    OBVIOUS
  <2>1. mat' = [mat EXCEPT ![m].at = "write", ![m].dest = d]
    BY DEF RemoveDeleted
  <2> HIDE DEF d
  <2> QED
    BY <1>3, <2>1 DEF RemoveDeleted, store
<1>6. WriteFiles(m) =>
        GoesOn(m, "verify", [p \in Path |->
          IF p \in FilesOf(mat[m].manifest.entries) THEN mat[m].manifest.entries[p]
          ELSE mat[m].dest[p]])
  <2> DEFINE d == [p \in Path |->
                    IF p \in FilesOf(mat[m].manifest.entries) THEN mat[m].manifest.entries[p]
                    ELSE mat[m].dest[p]]
  <2> SUFFICES ASSUME WriteFiles(m) PROVE GoesOn(m, "verify", d)
    OBVIOUS
  <2>1. mat' = [mat EXCEPT ![m].at = "verify", ![m].dest = d]
    BY DEF WriteFiles
  <2> HIDE DEF d
  <2> QED
    BY <1>3, <2>1 DEF WriteFiles, store
<1>7. VerifyMaterialized(m) => \/ GoesOn(m, "done", mat[m].dest)
                               \/ GoesOn(m, "refused", mat[m].dest)
  <2> SUFFICES ASSUME VerifyMaterialized(m)
               PROVE  \E at \in {"done", "refused"} : GoesOn(m, at, mat[m].dest)
    OBVIOUS
  <2>1. PICK at \in {"done", "refused"} : mat' = [mat EXCEPT ![m].at = at]
    BY DEF VerifyMaterialized
  <2> QED
    BY <1>2, <2>1 DEF VerifyMaterialized, store
<1>8. MaterializeFails(m) => GoesOn(m, "failed", mat[m].dest)
  BY <1>2 DEF MaterializeFails, store
<1> QED
  BY <1>4, <1>5, <1>6, <1>7, <1>8

\* What a materialization has done is about it and the capture of its manifest.
LEMMA MatStays ==
  ASSUME DoneStays, NEW m \in Candidate, MatSound(m), mat'[m] = mat[m]
  PROVE  MatSound(m)'
<1>1. /\ mat'[m].at = mat[m].at /\ mat'[m].id = mat[m].id
      /\ mat'[m].manifest = mat[m].manifest /\ mat'[m].dest = mat[m].dest
  OBVIOUS
<1>2. ASSUME NEW c \in Capture, MadeBy(mat[m].manifest, c)
      PROVE  MadeBy(mat[m].manifest, c)'
  BY <1>1, <1>2 DEF MadeBy, DoneStays, ManifestOf, IdFrom
<1>4. ASSUME mat[m].at = "done"
      PROVE  \E c \in Capture : Has(c, mat[m].id, mat[m].dest)'
  <2>1. PICK c \in Capture : Has(c, mat[m].id, mat[m].dest)
    BY <1>4 DEF MatSound
  <2>2. cap'[c] = cap[c]
    BY <2>1 DEF Has, MadeBy, DoneStays
  <2>3. Has(c, mat[m].id, mat[m].dest)'
    BY <1>1, <2>1, <2>2 DEF Has, MadeBy, ManifestOf, IdFrom, TreeOf
  <2> QED
    BY <2>3
<1> QED
  BY <1>1, <1>2, <1>4 DEF MatSound

\* Reading a manifest finds the one of the capture's id.
LEMMA ReadFinds ==
  ASSUME StoreTyped, Filed, NEW m \in Candidate, NEW c \in Capture, ReadManifest(m, c)
  PROVE  /\ mat'[m].at = "validate" /\ MatSound(m)'
         /\ \A k \in Candidate \ {m} : mat'[k] = mat[k]
<1> DEFINE id == ManifestOf(c).id
           at == IF Stored(id) = {} THEN "refused" ELSE "validate"
           n == IF Stored(id) = {} THEN Unlisted ELSE CHOOSE n \in Stored(id) : TRUE
<1>1. mat = [k \in Candidate |-> mat[k]] /\ cap' = cap /\ manifests' = manifests
  BY DEF StoreTyped, ReadManifest, store
<1>2. mat' = [mat EXCEPT ![m] = [id |-> id, dest |-> id.head, at |-> at, manifest |-> n]]
  BY DEF ReadManifest
<1>3. Stored(id) # {}
  BY DEF ReadManifest, Filed
<1>4. at = "validate" /\ n \in Stored(id)
  BY <1>3
<1> HIDE DEF at, n
<1>5. n \in manifests /\ n.id = id
  BY <1>4 DEF Stored
<1>6. PICK d \in Capture : MadeBy(n, d)
  BY <1>5 DEF Filed
<1> HIDE DEF id
<1>7. /\ mat'[m].at = "validate" /\ mat'[m].id = id /\ mat'[m].manifest = n
      /\ mat'[m].dest = id.head /\ \A k \in Candidate \ {m} : mat'[k] = mat[k]
  BY <1>1, <1>2, <1>4
<1>8. MadeBy(mat[m].manifest, d)'
  BY <1>1, <1>6, <1>7 DEF MadeBy, ManifestOf, IdFrom
<1> QED
  BY <1>5, <1>7, <1>8 DEF MatSound

\* A materialization that is done was found to have the files of a manifest.
LEMMA VerifiedSame ==
  ASSUME StoreTyped, NEW m \in Candidate, VerifyMaterialized(m), mat'[m].at = "done"
  PROVE  \E n \in Stored(mat[m].id) : SameEntries(n, mat[m].dest)
<1> SUFFICES ASSUME ~\E n \in Stored(mat[m].id) : SameEntries(n, mat[m].dest)
             PROVE  FALSE
  OBVIOUS
<1>1. mat' = [mat EXCEPT ![m].at = "refused"]
  BY DEF VerifyMaterialized
<1>2. mat'[m].at = "refused"
  BY <1>1 DEF StoreTyped, MatTyped
<1> QED
  BY <1>2

\* A tree with the files of a manifest is the manifest's.
LEMMA SameFiles ==
  ASSUME NEW e \in Entries, NEW t \in Tree, FilesIn(e) = FilesIn(t)
  PROVE  t = TreeOf(e)
<1>1. FilesOf(e) = FilesOf(t)
  BY DEF FilesIn
<1>2. \A p \in FilesOf(e) : e[p] = t[p]
  BY <1>1 DEF FilesIn
<1>3. ASSUME NEW p \in Path
      PROVE  t[p] = TreeOf(e)[p]
  <2>1. CASE p \in FilesOf(e)
    BY <1>2, <2>1 DEF FilesOf, TreeOf
  <2>2. CASE p \notin FilesOf(e)
    <3>1. t[p] = Absent /\ e[p] \notin File
      BY <1>1, <2>2 DEF Tree, FilesOf
    <3> QED
      BY <3>1 DEF TreeOf
  <2> QED
    BY <2>1, <2>2
<1>4. t = [p \in Path |-> t[p]] /\ TreeOf(e) = [p \in Path |-> TreeOf(e)[p]]
  BY DEF Tree, TreeOf
<1> QED
  BY <1>3, <1>4

\* Every step of a materialization brings it nearer to the manifest's tree.
LEMMA MatSoundStep ==
  ASSUME IInv, StoreTyped, Filed, \A m \in Candidate : MatSound(m), [Next]_vars
  PROVE  \A m \in Candidate : MatSound(m)'
<1>0. DoneStays
  BY DoneIsDone
<1>1. ASSUME mat' = mat
      PROVE  \A m \in Candidate : MatSound(m)'
  BY <1>0, <1>1, MatStays
<1>2. ASSUME NEW m \in Candidate, MatSound(m)', \A k \in Candidate \ {m} : mat'[k] = mat[k]
      PROVE  \A k \in Candidate : MatSound(k)'
  BY <1>0, <1>2, MatStays
<1>3. ASSUME NEW m \in Candidate, NEW c \in Capture, ReadManifest(m, c)
      PROVE  \A k \in Candidate : MatSound(k)'
  BY <1>2, <1>3, ReadFinds
<1>4. ASSUME NEW m \in Candidate,
             \/ LoadBlobs(m) \/ RemoveDeleted(m) \/ WriteFiles(m)
             \/ VerifyMaterialized(m) \/ MaterializeFails(m)
      PROVE  \A k \in Candidate : MatSound(k)'
  <2> DEFINE e == mat[m].manifest.entries
             old == mat[m].dest
             d1 == [p \in Path |-> IF p \in Deleted(e) THEN Absent ELSE old[p]]
             d2 == [p \in Path |-> IF p \in FilesOf(e) THEN e[p] ELSE old[p]]
  <2>1. \/ LoadBlobs(m) /\ GoesOn(m, "remove", old)
        \/ RemoveDeleted(m) /\ GoesOn(m, "write", d1)
        \/ WriteFiles(m) /\ GoesOn(m, "verify", d2)
        \/ VerifyMaterialized(m) /\ GoesOn(m, "done", old)
        \/ GoesOn(m, "refused", old) \/ GoesOn(m, "failed", old)
    BY <1>4, MatMoves
  <2>2. ASSUME NEW at, NEW dest, GoesOn(m, at, dest),
               at \in {"remove", "write", "verify", "done"} =>
                 /\ mat[m].at \in {"validate", "remove", "write", "verify"}
                 /\ at \in {"validate", "remove"} => dest = mat[m].id.head
                 /\ at \in {"write", "verify"} =>
                      \A p \in Path : p \notin FilesOf(e) =>
                        dest[p] = IF p \in Deleted(e) THEN Absent ELSE mat[m].id.head[p]
                 /\ at = "verify" => \A p \in FilesOf(e) : dest[p] = e[p]
                 /\ at = "done" => \E c \in Capture : Has(c, mat[m].id, dest),
               at \in {"remove", "write", "verify", "done", "refused", "failed"}
        PROVE  \A k \in Candidate : MatSound(k)'
    <3>1. /\ mat'[m].at = at /\ mat'[m].dest = dest /\ mat'[m].id = mat[m].id
          /\ mat'[m].manifest = mat[m].manifest /\ cap' = cap
          /\ \A k \in Candidate \ {m} : mat'[k] = mat[k]
      BY <2>2 DEF GoesOn
    <3>2. ASSUME NEW c \in Capture, MadeBy(mat[m].manifest, c)
          PROVE  MadeBy(mat[m].manifest, c)'
      BY <3>1, <3>2 DEF MadeBy, ManifestOf, IdFrom
    <3>3. at \in {"remove", "write", "verify", "done"} =>
            /\ \E c \in Capture : MadeBy(mat[m].manifest, c)
            /\ mat[m].manifest.id = mat[m].id
      BY <2>2 DEF MatSound
    <3>5. ASSUME at = "done"
          PROVE  \E c \in Capture : Has(c, mat[m].id, mat[m].dest)'
      <4>1. PICK c \in Capture : Has(c, mat[m].id, dest)
        BY <2>2, <3>5
      <4>2. Has(c, mat[m].id, mat[m].dest)'
        BY <3>1, <4>1 DEF Has, MadeBy, ManifestOf, IdFrom, TreeOf
      <4> QED
        BY <4>2
    <3>4. MatSound(m)'
      BY <2>2, <3>1, <3>2, <3>3, <3>5 DEF MatSound
    <3> QED
      BY <1>2, <3>1, <3>4
  <2>3. CASE LoadBlobs(m) /\ GoesOn(m, "remove", old)
    <3>1. mat[m].at = "validate" /\ old = mat[m].id.head
      BY <2>3 DEF LoadBlobs, MatSound
    <3> QED
      BY <2>2, <2>3, <3>1
  <2>4. CASE RemoveDeleted(m) /\ GoesOn(m, "write", d1)
    <3>1. mat[m].at = "remove" /\ old = mat[m].id.head
      BY <2>4 DEF RemoveDeleted, MatSound
    <3>2. \A p \in Path : d1[p] = IF p \in Deleted(e) THEN Absent ELSE mat[m].id.head[p]
      BY <3>1
    <3> HIDE DEF d1
    <3> QED
      BY <2>2, <2>4, <3>1, <3>2
  <2>5. CASE WriteFiles(m) /\ GoesOn(m, "verify", d2)
    <3>1. mat[m].at = "write"
      BY <2>5 DEF WriteFiles
    <3>2. \A p \in Path : p \notin FilesOf(e) =>
            d2[p] = IF p \in Deleted(e) THEN Absent ELSE mat[m].id.head[p]
      BY <3>1 DEF MatSound
    <3>3. \A p \in FilesOf(e) : d2[p] = e[p]
      BY DEF FilesOf
    <3> HIDE DEF d2
    <3> QED
      BY <2>2, <2>5, <3>1, <3>2, <3>3
  <2>6. CASE VerifyMaterialized(m) /\ GoesOn(m, "done", old)
    <3>1. mat[m].at = "verify"
      BY <2>6 DEF VerifyMaterialized
    <3>2. PICK n \in Stored(mat[m].id) : SameEntries(n, old)
      BY <2>6, VerifiedSame DEF GoesOn
    <3>3. PICK c \in Capture : MadeBy(n, c)
      BY DEF Filed, Stored
    <3>4. n = ManifestOf(c) /\ n.id = mat[m].id /\ n.entries = cap[c].first.entries
      BY <3>3 DEF MadeBy, ManifestOf, Stored
    <3>5. old \in Tree /\ cap[c].first.entries \in Entries
      BY <3>1 DEF StoreTyped, MatTyped, IInv, Good, Formed, IsLook
    <3>6. old = TreeOf(cap[c].first.entries)
      BY <3>2, <3>4, <3>5, SameFiles DEF SameEntries
    <3>7. Has(c, mat[m].id, old)
      BY <3>3, <3>4, <3>6 DEF Has
    <3> QED
      BY <2>2, <2>6, <3>1, <3>7
  <2>7. CASE GoesOn(m, "refused", old) \/ GoesOn(m, "failed", old)
    BY <2>2, <2>7
  <2> QED
    BY <2>1, <2>3, <2>4, <2>5, <2>6, <2>7
<1>5. ASSUME NEW c \in Capture,
             \/ StartCapture(c) \/ Look(c) \/ ReadPath(c) \/ LookAgain(c)
             \/ FileManifest(c) \/ RenameManifest(c) \/ CaptureFails(c)
      PROVE  mat' = mat
  BY <1>5 DEF StartCapture, Look, ReadPath, LookAgain, FileManifest, RenameManifest, CaptureFails
<1>6. ASSUME (\E p \in Path : Stage(p) \/ \E f \in Written : Edit(p, f)) \/ Commit
      PROVE  mat' = mat
  BY <1>6 DEF Edit, Stage, Commit, Note
<1>7. CASE UNCHANGED vars
  BY <1>1, <1>7 DEF vars
<1> QED
  BY <1>1, <1>3, <1>4, <1>5, <1>6, <1>7 DEF Next

\* The second inductive invariant holds in every state.
THEOREM SnapshotInvariant == Spec => []SnapInv
<1>1. Init => SnapInv
  <2> SUFFICES ASSUME Init PROVE SnapInv
    OBVIOUS
  <2>1. ASSUME NEW c \in Capture PROVE Says(c)
    <3>1. cap[c].at = "idle" /\ cap[c].first = NoLook /\ cap[c].look = NoLook
      BY DEF Init, Over
    <3>2. ~Looking(c) /\ FilesOf(cap[c].first.entries) = {}
      BY <3>1, NoLookNoFiles DEF Looking
    <3> QED
      BY <3>1, <3>2 DEF Says, Stocked, ListsCommit, Identified
  <2>2. Filed
    BY DEF Init, Filed, Over
  <2>3. \A m \in Candidate : MatSound(m)
    BY DEF Init, MatSound
  <2> QED
    BY <2>1, <2>2, <2>3 DEF SnapInv
<1>2. IInv /\ StoreTyped /\ SnapInv /\ [Next]_vars => SnapInv'
  <2> SUFFICES ASSUME IInv, StoreTyped, SnapInv, [Next]_vars PROVE SnapInv'
    OBVIOUS
  <2>1. \A c \in Capture : Says(c)'
    BY SaysStep DEF SnapInv
  <2>2. Filed'
    BY StoreMoves, FiledStep DEF SnapInv
  <2>3. \A m \in Candidate : MatSound(m)'
    BY MatSoundStep DEF SnapInv
  <2> QED
    BY <2>1, <2>2, <2>3 DEF SnapInv
<1> QED
  BY <1>1, <1>2, CaptureInvariant, StoresTyped, PTL DEF Spec

\* The tree a materialization leaves: a path the manifest does not list is not in
\* the commit, unless its deletion was staged or something was taken back while
\* the capture looked.
LEMMA TreeOfManifest ==
  ASSUME IInv, StoreTyped, SnapInv, NEW m \in Candidate, mat[m].at = "verify",
         NEW c \in Capture \ restored, MadeBy(mat[m].manifest, c),
         \A p \in Path : ~LeftOut(c, p)
  PROVE  mat[m].dest = TreeOf(cap[c].first.entries)
<1> DEFINE e == cap[c].first.entries
           h == cap[c].first.head
<1>1. /\ mat[m].manifest = ManifestOf(c) /\ cap[c].at \in {"done", "filed"}
      /\ mat[m].manifest.id = mat[m].id /\ mat[m].dest \in Tree
      /\ e \in Entries
  BY DEF MadeBy, SnapInv, MatSound, StoreTyped, MatTyped, IInv, Good, Formed, IsLook
<1>2. mat[m].manifest.entries = e /\ mat[m].id.head = h
  BY <1>1 DEF ManifestOf, IdFrom
<1>3. NotCommitted(c)
  BY <1>1 DEF SnapInv, Says, ListsCommit
<1>4. \A p \in Path : e[p] = Unlisted => h[p] = Absent
  BY <1>3 DEF NotCommitted, DeletionStaged, LeftOut
<1>5. ASSUME NEW p \in Path
      PROVE  mat[m].dest[p] = TreeOf(e)[p]
  <2>1. CASE p \in FilesOf(e)
    BY <1>2, <2>1 DEF SnapInv, MatSound, FilesOf, TreeOf
  <2>2. CASE p \notin FilesOf(e)
    <3>1. mat[m].dest[p] = IF p \in Deleted(e) THEN Absent ELSE h[p]
      BY <1>2, <2>2 DEF SnapInv, MatSound
    <3>2. e[p] \in {Absent, Unlisted} /\ TreeOf(e)[p] = Absent
      BY <1>1, <2>2 DEF Entries, FilesOf, TreeOf
    <3> QED
      BY <1>4, <3>1, <3>2 DEF Deleted
  <2> QED
    BY <2>1, <2>2
<1>6. mat[m].dest = [p \in Path |-> mat[m].dest[p]]
  BY <1>1 DEF Tree
<1>7. TreeOf(e) = [p \in Path |-> TreeOf(e)[p]]
  BY DEF TreeOf
<1> QED
  BY <1>5, <1>6, <1>7

\* MaterializedHasId: with the index of the repository, createRepositorySnapshot
\* would give the tree of a materialized worktree the id it was asked for,
\* whatever was edited between the calls of the capture, if nothing its looks
\* read became what it had been (RepositorySnapshotStore.capture, materialize).
THEOREM MaterializedIsTheSnapshot == Spec => []MaterializedHasId
<1>1. IInv /\ StoreTyped /\ SnapInv => MaterializedHasId
  <2> SUFFICES ASSUME IInv, StoreTyped, SnapInv, NEW m \in Candidate, mat[m].at = "done",
                      \A c \in Capture : Steady(c)
               PROVE  \E x \in SUBSET Path : IdOf(mat[m].id.head, x, mat[m].dest) = mat[m].id
    BY DEF MaterializedHasId
  <2>1. PICK c \in Capture : Has(c, mat[m].id, mat[m].dest)
    BY DEF SnapInv, MatSound
  <2>2. cap[c].at \in {"done", "filed"} /\ mat[m].id = IdFrom(cap[c].first)
    BY <2>1 DEF Has, MadeBy, ManifestOf
  <2>3. PICK x \in SUBSET Path :
          IdFrom(cap[c].first) = IdOf(cap[c].first.head, x, TreeOf(cap[c].first.entries))
    BY <2>2 DEF SnapInv, Says, Identified
  <2>4. mat[m].id.head = cap[c].first.head /\ mat[m].dest = TreeOf(cap[c].first.entries)
    BY <2>1, <2>2 DEF Has, IdFrom
  <2> QED
    BY <2>2, <2>3, <2>4
<1> QED
  BY <1>1, CaptureInvariant, StoresTyped, SnapshotInvariant, PTL

\* Materializes: a call that nothing fails is refused only if its manifest was
\* replaced, its files have two orders, a deletion was staged or something was
\* taken back while it was captured (RepositorySnapshotStore.materialize).
THEOREM SnapshotsMaterialize == Spec => Materializes
<1> DEFINE TornOrStaged(m) ==
             \E c \in Capture :
               /\ cap[c].at \in {"done", "filed"} /\ mat'[m].manifest = ManifestOf(c)
               /\ c \in restored \/ \E p \in Path : LeftOut(c, p)
           Excused(m) ==
             \/ mat'[m].manifest \notin manifests
             \/ ~SameOrder(FilesOf(mat'[m].manifest.entries))
             \/ TornOrStaged(m)
           A == \A m \in Candidate : mat[m].at # "refused" /\ mat'[m].at = "refused" => Excused(m)
<1>1. IInv /\ StoreTyped /\ SnapInv /\ [Next]_vars => [A]_vars
  <2> SUFFICES ASSUME IInv, StoreTyped, SnapInv, Next, NEW m \in Candidate,
                      mat[m].at # "refused", mat'[m].at = "refused"
               PROVE  Excused(m)
    OBVIOUS
  <2>1. LoadBlobs(m) \/ VerifyMaterialized(m)
    <3>1. ASSUME NEW c \in Capture,
                 \/ StartCapture(c) \/ Look(c) \/ ReadPath(c) \/ LookAgain(c)
                 \/ FileManifest(c) \/ RenameManifest(c) \/ CaptureFails(c)
          PROVE  mat' = mat
      BY <3>1 DEF StartCapture, Look, ReadPath, LookAgain, FileManifest, RenameManifest,
                  CaptureFails
    <3>2. ASSUME (\E p \in Path : Stage(p) \/ \E f \in Written : Edit(p, f)) \/ Commit
          PROVE  mat' = mat
      BY <3>2 DEF Edit, Stage, Commit, Note
    <3>3. ASSUME NEW k \in Candidate, NEW c \in Capture, ReadManifest(k, c)
          PROVE  mat'[m].at # "refused"
      BY <3>3, ReadFinds DEF SnapInv
    <3>4. ASSUME NEW k \in Candidate \ {m},
                 \/ LoadBlobs(k) \/ RemoveDeleted(k) \/ WriteFiles(k)
                 \/ VerifyMaterialized(k) \/ MaterializeFails(k)
          PROVE  mat'[m] = mat[m]
      BY <3>4, MatMoves DEF GoesOn
    <3>5. ASSUME RemoveDeleted(m) \/ WriteFiles(m) \/ MaterializeFails(m)
          PROVE  mat'[m].at # "refused"
      BY <3>5, MatMoves DEF GoesOn
    <3> QED
      BY <3>1, <3>2, <3>3, <3>4, <3>5 DEF Next
  <2>2. mat'[m].manifest = mat[m].manifest
    BY <2>1, MatMoves DEF GoesOn
  <2>3. mat[m].at \in {"validate", "verify"}
    BY <2>1 DEF LoadBlobs, VerifyMaterialized
  <2>4. PICK c \in Capture : MadeBy(mat[m].manifest, c)
    BY <2>3 DEF SnapInv, MatSound
  <2>5. /\ mat[m].manifest.id = mat[m].id /\ mat[m].manifest.head = mat[m].id.head
        /\ mat[m].manifest.entries = cap[c].first.entries
    BY <2>3, <2>4 DEF SnapInv, MatSound, MadeBy, ManifestOf, IdFrom
  <2>6. ~LoadBlobs(m)
    <3>1. SUFFICES ASSUME LoadBlobs(m) PROVE FALSE
      OBVIOUS
    <3>2. ValidTarget(m)
      BY <2>5, <3>1 DEF LoadBlobs, SnapInv, MatSound, ValidTarget
    <3>3. \A p \in FilesOf(mat[m].manifest.entries) : mat[m].manifest.entries[p].content \in blobs
      BY <2>5 DEF SnapInv, Says, Stocked
    <3>4. mat' = [mat EXCEPT ![m].at = "remove"]
      BY <3>1, <3>2, <3>3 DEF LoadBlobs
    <3>5. mat'[m].at = "remove"
      BY <3>4 DEF StoreTyped, MatTyped
    <3> QED
      BY <3>5
  <2>7. VerifyMaterialized(m) /\ mat[m].at = "verify"
    BY <2>1, <2>6 DEF VerifyMaterialized
  <2>8. ASSUME c \notin restored, mat[m].manifest \in manifests,
               \A p \in Path : ~LeftOut(c, p), SameOrder(FilesOf(mat[m].manifest.entries))
        PROVE  FALSE
    <3> DEFINE e == cap[c].first.entries
    <3>1. mat[m].dest = TreeOf(e)
      BY <2>4, <2>7, <2>8, TreeOfManifest
    <3>2. FilesOf(TreeOf(e)) = FilesOf(e)
      BY SnapshotConstants DEF FilesOf, TreeOf
    <3>3. FilesIn(TreeOf(e)) = FilesIn(e)
      <4>1. \A p \in FilesOf(e) : TreeOf(e)[p] = e[p]
        BY DEF FilesOf, TreeOf
      <4> QED
        BY <3>2, <4>1 DEF FilesIn
    <3>4. SameEntries(mat[m].manifest, mat[m].dest)
      BY <2>5, <2>8, <3>1, <3>2, <3>3 DEF SameEntries
    <3>5. mat[m].manifest \in Stored(mat[m].id)
      BY <2>5, <2>8 DEF Stored
    <3>6. mat' = [mat EXCEPT ![m].at = "done"]
      BY <2>7, <3>4, <3>5 DEF VerifyMaterialized
    <3>7. mat'[m].at = "done"
      BY <3>6 DEF StoreTyped, MatTyped
    <3> QED
      BY <3>7
  <2> QED
    BY <2>2, <2>4, <2>8 DEF MadeBy
<1> QED
  BY <1>1, CaptureInvariant, StoresTyped, SnapshotInvariant, PTL DEF Spec, Materializes
=============================================================================
