--------------------------- MODULE SnapshotStore ---------------------------
(***************************************************************************)
(* Snapshots of a dirty repository                                         *)
(* (src/repository/repository-snapshot-store.ts with its files and codec,  *)
(* src/repository/snapshot.ts and git.ts).  A capture looks at the         *)
(* repository twice, call by call, while users and workers go on editing   *)
(* it: nothing locks the tree.  When the two looks agree it files a        *)
(* manifest under the id the looks computed.  A materialization turns a    *)
(* clean worktree at the snapshot's commit into the tree of the manifest.  *)
(*                                                                         *)
(* One action is one git command, the reading of all untracked files or of *)
(* one file.  A file is its content and its executable bit; a digest is    *)
(* the content itself.  The index is the set of paths it lists, and a      *)
(* commit is its tree.                                                     *)
(***************************************************************************)
EXTENDS Naturals, Sequences, SequencesExt

CONSTANTS
    Path, Content,
    Units,       \* the paths in the order of their code units (sort)
    Locale,      \* the paths in the order of localeCompare
    Lockfiles,   \* paths in MANIFEST_NAMES: package.json, bun.lock, ...
    Large,       \* contents past the byte budget of a snapshot id
    Capture,     \* calls of capture
    Candidate,   \* calls of materialize
    FirstCommit, \* the commit of the repository at the start
    FirstTree,   \* the working tree at the start
    Written,     \* what an edit may leave at a path
    MaxEdits,    \* bound on edits, stagings and commits
    Absent,      \* no file at the path
    Unlisted     \* path that is not in a list

File == [content : Content, exec : BOOLEAN]
Tree == [Path -> File \cup {Absent}]

ASSUME SnapshotConstants ==
    /\ Large \subseteq Content /\ Lockfiles \subseteq Path
    /\ Units \in Seq(Path) /\ Locale \in Seq(Path)
    /\ ToSet(Units) = Path /\ ToSet(Locale) = Path
    /\ Len(Units) = Len(Locale) /\ IsInjective(Units) /\ IsInjective(Locale)
    /\ {FirstCommit, FirstTree} \subseteq Tree
    /\ Written \subseteq File \cup {Absent}
    /\ Absent \notin File /\ Unlisted \notin File \cup {Absent}
    /\ MaxEdits \in Nat

VARIABLES
    tree, head,  \* the working tree, and the commit HEAD names
    index,       \* paths in the index: tracked, and staged to be added
    blobs,       \* stored contents
    manifests,   \* stored manifests
    cap,         \* state of each capture
    mat,         \* state of each materialization
    edits,       \* edits, stagings and commits so far
    during,      \* history: what the repository was since each capture began
    restored     \* history: captures during which something became again
                 \*   what it had been

repository == <<tree, head, index>>
store == <<blobs, manifests>>
history == <<edits, during, restored>>
vars == <<repository, store, cap, mat, history>>

-----------------------------------------------------------------------------
Present(t) == {p \in Path : t[p] # Absent}

\* Where p comes before q in an order of the paths
Before(order, p, q) == \E i, j \in DOMAIN order : i < j /\ order[i] = p /\ order[j] = q

(* getRepositoryPaths: cached and others; getUntrackedPaths: others.  A    *)
(* path of HEAD that is in neither is one whose deletion is staged.        *)
ListedPaths(x, t) == x \cup Present(t)
UntrackedPaths(x, t) == Present(t) \ x

(* getRepositoryStatus: the letters, of the index against HEAD h and of    *)
(* the tree against the index x, neither contents nor modes                *)
StatusOf(h, x, t) ==
    [p \in Path |-> <<IF (p \in x) = (h[p] # Absent) THEN " " ELSE IF p \in x THEN "A" ELSE "D",
                      IF p \notin x THEN IF t[p] = Absent THEN " " ELSE "?"
                      ELSE IF t[p] = Absent THEN "D"
                      ELSE IF h[p] \in {t[p], Absent} THEN " " ELSE "M">>]

(* getTrackedDiff: contents and modes where the tracked files are not as   *)
(* in HEAD                                                                 *)
DiffOf(h, x, t) ==
    LET now == [p \in Path |-> IF p \in x THEN t[p] ELSE Absent]
    IN [p \in {q \in Path : h[q] # now[q]} |-> <<h[p], now[p]>>]

(* collectEntries: the contents of untracked files, in order, up to the    *)
(* first that exceeds the budget; readSnapshotEntry leaves the mode out.   *)
UntrackedOf(x, t) ==
    LET found == UntrackedPaths(x, t)
        read == {p \in found : \A q \in found : t[q].content \in Large => Before(Units, p, q)}
    IN [p \in read |-> t[p].content]

(* createRepositorySnapshot, when nothing changes meanwhile.  All          *)
(* repositories here have the same root.                                   *)
IdOf(h, x, t) == [head |-> h, status |-> StatusOf(h, x, t),
                  untracked |-> UntrackedOf(x, t), diff |-> DiffOf(h, x, t)]

-----------------------------------------------------------------------------
(* The two looks of a capture.  Both make the same calls in the same       *)
(* order: createRepositorySnapshot (head, status, untracked contents,      *)
(* diff), gitPaths, getRepositoryPaths, captureEntries.                    *)
NoLook == [head |-> Unlisted, status |-> Unlisted, untracked |-> Unlisted,
           diff |-> Unlisted, tracked |-> Unlisted, paths |-> Unlisted,
           entries |-> [p \in Path |-> Unlisted]]
Calls == <<"head", "status", "untracked", "diff", "tracked", "paths">>

(* A capture that is not running remembers nothing.                        *)
Over(outcome) == [at |-> outcome, first |-> NoLook, look |-> NoLook]

Init ==
    /\ tree = FirstTree /\ head = FirstCommit /\ index = Present(FirstCommit)
    /\ blobs = {} /\ manifests = {}
    /\ cap = [c \in Capture |-> Over("idle")]
    /\ mat = [m \in Candidate |->
                [at |-> "idle", id |-> Unlisted, manifest |-> Unlisted, dest |-> Unlisted]]
    /\ edits = 0
    /\ during = [c \in Capture |-> {}]
    /\ restored = {}

StartCapture(c) ==
    /\ cap[c].at = "idle"
    /\ cap' = [cap EXCEPT ![c].at = "head"]
    /\ during' = [during EXCEPT ![c] = {<<head, tree, index>>}]
    /\ UNCHANGED <<repository, store, mat, edits, restored>>

(* What a git command, or the loop of reads after one, answers now.        *)
Answer(call) ==
    CASE call = "head" -> head
      [] call = "status" -> StatusOf(head, index, tree)
      [] call = "untracked" -> UntrackedOf(index, tree)
      [] call = "diff" -> DiffOf(head, index, tree)
      [] call = "tracked" -> index
      [] call = "paths" -> ListedPaths(index, tree)

After(call) == LET i == CHOOSE i \in DOMAIN Calls : Calls[i] = call
               IN IF i = Len(Calls) THEN "read" ELSE Calls[i + 1]

(* readSnapshotEntry does not expect a listed lockfile to be missing.      *)
LockfileMissing ==
    \E p \in Lockfiles : p \in ListedPaths(index, tree) /\ tree[p] = Absent

Look(c) ==
    /\ cap[c].at \in ToSet(Calls)
    /\ ~(cap[c].at = "untracked" /\ LockfileMissing)
    /\ cap' = [cap EXCEPT ![c].look[cap[c].at] = Answer(cap[c].at),
                          ![c].at = After(cap[c].at)]
    /\ UNCHANGED <<repository, store, mat, history>>

(* Places, in the order of the list, of the paths not yet read             *)
Remaining(c) == {i \in DOMAIN Units : /\ Units[i] \in cap[c].look.paths
                                      /\ cap[c].look.entries[Units[i]] = Unlisted}
NextUnread(c) == Units[CHOOSE i \in Remaining(c) : \A j \in Remaining(c) : i <= j]

Persists(c) == cap[c].first = NoLook

(* captureEntries: the next path is read and, in the first look, its       *)
(* content is stored.  A tracked path that is missing is a deletion.       *)
ReadPath(c) ==
    /\ cap[c].at = "read" /\ Remaining(c) # {}
    /\ LET p == NextUnread(c)
       IN /\ tree[p] = Absent => p \in cap[c].look.tracked
          /\ cap' = [cap EXCEPT ![c].look.entries[p] = tree[p]]
          /\ blobs' = IF Persists(c) /\ tree[p] # Absent
                        THEN blobs \cup {tree[p].content} ELSE blobs
    /\ UNCHANGED <<repository, manifests, mat, history>>

LookAgain(c) ==
    /\ cap[c].at = "read" /\ Remaining(c) = {} /\ cap[c].first = NoLook
    /\ cap' = [cap EXCEPT ![c] = [at |-> "head", first |-> cap[c].look, look |-> NoLook]]
    /\ UNCHANGED <<repository, store, mat, history>>

IdFrom(look) == [head |-> look.head, status |-> look.status,
                 untracked |-> look.untracked, diff |-> look.diff]

(* Mutants: only the ids are compared; only the lists and entries are.     *)
SameIds(a, b) == IdFrom(a) = IdFrom(b)
SameLists(a, b) == a.tracked = b.tracked /\ a.paths = b.paths /\ a.entries = b.entries
SameLooks(a, b) ==
    /\ IdFrom(a) = IdFrom(b)
    /\ a.tracked = b.tracked /\ a.paths = b.paths /\ a.entries = b.entries

ManifestOf(c) == [id |-> IdFrom(cap[c].first), head |-> cap[c].first.head,
                  entries |-> cap[c].first.entries]
Stored(id) == {m \in manifests : m.id = id}

(* The looks are compared; then writeAddressed looks for a manifest under  *)
(* the id: the same one is enough, another one is a collision.             *)
FileManifest(c) ==
    /\ cap[c].at = "read" /\ Remaining(c) = {} /\ cap[c].first # NoLook
    /\ LET mine == ManifestOf(c)
           to(at) == [cap[c] EXCEPT !.at = at, !.look = NoLook]
       IN cap' = [cap EXCEPT ![c] =
                    IF ~SameLooks(cap[c].first, cap[c].look) THEN Over("refused")
                    ELSE IF Stored(mine.id) = {} THEN to("rename")
                    ELSE IF mine \in manifests THEN to("done") ELSE Over("refused")]
    /\ UNCHANGED <<repository, store, mat, history>>

(* The rename replaces what another capture may have filed since.  When    *)
(* the chmod after it fails, capture throws, and the manifest is there.    *)
RenameManifest(c) ==
    /\ cap[c].at = "rename"
    /\ manifests' = (manifests \ Stored(ManifestOf(c).id)) \cup {ManifestOf(c)}
    /\ \E at \in {"done", "filed"} : cap' = [cap EXCEPT ![c].at = at]
    /\ UNCHANGED <<repository, blobs, mat, history>>

(* An untracked path disappears before it is read, a lockfile is missing,  *)
(* a call fails or the process dies.                                       *)
CaptureFails(c) ==
    /\ cap[c].at \in ToSet(Calls) \cup {"read", "rename"}
    /\ cap' = [cap EXCEPT ![c] = Over("failed")]
    /\ UNCHANGED <<repository, store, mat, history>>

-----------------------------------------------------------------------------
(* materialize, called by createCandidate on a worktree that it has just   *)
(* added at the commit of a capture's answer: readManifest                 *)
ReadManifest(m, c) ==
    /\ mat[m].at = "idle" /\ cap[c].at = "done"
    /\ LET id == ManifestOf(c).id
       IN mat' = [mat EXCEPT ![m] =
                    [id |-> id, dest |-> id.head,
                     at |-> IF Stored(id) = {} THEN "refused" ELSE "validate",
                     manifest |-> IF Stored(id) = {} THEN Unlisted
                                  ELSE CHOOSE n \in Stored(id) : TRUE]]
    /\ UNCHANGED <<repository, store, cap, history>>

(* Paths of a manifest with a file, and its deletedPaths                   *)
FilesOf(entries) == {p \in Path : entries[p] \in File}
FilesIn(entries) == [p \in FilesOf(entries) |-> entries[p]]
Deleted(entries) == {p \in Path : entries[p] = Absent}

(* validateTarget: the worktree is clean at the snapshot's commit.         *)
ValidTarget(m) == mat[m].dest = mat[m].manifest.head

(* Every blob is read before the target is touched.                        *)
LoadBlobs(m) ==
    /\ mat[m].at = "validate"
    /\ LET entries == mat[m].manifest.entries
           loads == /\ ValidTarget(m)
                    /\ \A p \in FilesOf(entries) : entries[p].content \in blobs
       IN mat' = [mat EXCEPT ![m].at = IF loads THEN "remove" ELSE "refused"]
    /\ UNCHANGED <<repository, store, cap, history>>

(* Mutant: the files the user deleted stay in the worktree.                *)
KeepDeleted(m) ==
    /\ mat[m].at = "remove"
    /\ mat' = [mat EXCEPT ![m].at = "write"]
    /\ UNCHANGED <<repository, store, cap, history>>
RemoveDeleted(m) ==
    /\ mat[m].at = "remove"
    /\ mat' = [mat EXCEPT ![m].at = "write",
                          ![m].dest = [p \in Path |->
                             IF p \in Deleted(mat[m].manifest.entries) THEN Absent ELSE @[p]]]
    /\ UNCHANGED <<repository, store, cap, history>>

WriteFiles(m) ==
    /\ mat[m].at = "write"
    /\ mat' = [mat EXCEPT ![m].at = "verify",
                          ![m].dest = [p \in Path |->
                             IF p \in FilesOf(mat[m].manifest.entries)
                               THEN mat[m].manifest.entries[p] ELSE @[p]]]
    /\ UNCHANGED <<repository, store, cap, history>>

(* Two orders of the same paths are the same list.                         *)
SameOrder(S) == \A p, q \in S : Before(Units, p, q) = Before(Locale, p, q)

(* verifyMaterialized: the manifest is read again; its entries are in      *)
(* the order of getRepositoryPaths, those of the worktree in the order of  *)
(* collectDestinationEntries.  sameEntries compares them place by place,   *)
(* so the files and the orders must be the same.                           *)
SameEntries(n, t) == FilesIn(n.entries) = FilesIn(t) /\ SameOrder(FilesOf(t))

VerifyMaterialized(m) ==
    /\ mat[m].at = "verify"
    /\ mat' = [mat EXCEPT ![m].at =
                 IF \E n \in Stored(mat[m].id) : SameEntries(n, mat[m].dest)
                   THEN "done" ELSE "refused"]
    /\ UNCHANGED <<repository, store, cap, history>>

(* A call fails or the process dies.                                       *)
MaterializeFails(m) ==
    /\ mat[m].at \in {"validate", "remove", "write", "verify"}
    /\ mat' = [mat EXCEPT ![m].at = "failed"]
    /\ UNCHANGED <<repository, store, cap, history>>

-----------------------------------------------------------------------------
(* Environment: the user, and workers that publish, write and commit.      *)
Running(c) == cap[c].at \notin {"idle", "done", "filed", "refused", "failed"}

Note(returns(_)) ==
    /\ edits < MaxEdits /\ edits' = edits + 1
    /\ during' = [c \in Capture |-> IF Running(c) THEN during[c] \cup {<<head', tree', index'>>}
                                    ELSE during[c]]
    /\ restored' = restored \cup {c \in Capture : Running(c) /\ returns(c)}
    /\ UNCHANGED <<store, cap, mat>>

Edit(p, f) ==
    /\ f # tree[p]
    /\ tree' = [tree EXCEPT ![p] = f] /\ UNCHANGED <<head, index>>
    /\ Note(LAMBDA c : \E s \in during[c] : s[2][p] = f)

(* git add of a new file, or git rm --cached; git rm is an edit more.      *)
Stage(p) ==
    /\ \/ p \notin index /\ tree[p] # Absent /\ index' = index \cup {p}
       \/ p \in index /\ index' = index \ {p}
    /\ UNCHANGED <<head, tree>>
    /\ Note(LAMBDA c : FALSE)

(* git commit -a: the index is what it lists, as it is in the tree.        *)
Commit ==
    /\ head' = [p \in Path |-> IF p \in index THEN tree[p] ELSE Absent]
    /\ head' # head
    /\ index' = index \cap Present(tree) /\ tree' = tree
    /\ Note(LAMBDA c : \E s \in during[c] : s[1] = head')

Next ==
    \/ \E c \in Capture : \/ StartCapture(c) \/ Look(c) \/ ReadPath(c) \/ LookAgain(c)
                          \/ FileManifest(c) \/ RenameManifest(c) \/ CaptureFails(c)
    \/ \E m \in Candidate : \/ \E c \in Capture : ReadManifest(m, c)
                            \/ LoadBlobs(m) \/ RemoveDeleted(m) \/ WriteFiles(m)
                            \/ VerifyMaterialized(m) \/ MaterializeFails(m)
    \/ \E p \in Path : Stage(p) \/ \E f \in Written : Edit(p, f)
    \/ Commit

Spec == Init /\ [][Next]_vars

-----------------------------------------------------------------------------
Lookers == {"idle", "read", "rename", "done", "filed", "refused", "failed"} \cup ToSet(Calls)
Entries == [Path -> File \cup {Absent, Unlisted}]

(* The variables have their types.                                         *)
TypeOK ==
    /\ tree \in Tree /\ head \in Tree /\ index \subseteq Path
    /\ blobs \subseteq Content
    /\ \A n \in manifests : n.head \in Tree /\ n.entries \in Entries
    /\ \A c \in Capture : /\ cap[c].at \in Lookers
                          /\ cap[c].first.entries \in Entries
                          /\ cap[c].look.entries \in Entries
    /\ \A m \in Candidate : /\ mat[m].at \in {"idle", "validate", "remove", "write",
                                              "verify", "done", "refused", "failed"}
                            /\ mat[m].dest \in Tree \cup {Unlisted}
    /\ edits \in 0..MaxEdits
    /\ restored \subseteq Capture

TreeOf(entries) == [p \in Path |-> IF entries[p] \in File THEN entries[p] ELSE Absent]

(* A capture that succeeds has captured a tree the repository had, as a    *)
(* whole, while the capture ran: edits between its calls are noticed,      *)
(* except when they are taken back in time (capture).                      *)
CaptureIsATree ==
    \A c \in Capture \ restored : cap[c].at \in {"rename", "done", "filed"} =>
        <<cap[c].first.head, TreeOf(cap[c].first.entries)>> \in {<<s[1], s[2]>> : s \in during[c]}

(* Nothing that a look of the capture reads became again what it had been: *)
(* a commit or a staging makes status and diff clean again.                *)
Steady(c) == c \notin restored /\ \A s, u \in during[c] : s[1] = u[1] /\ s[3] = u[3]

(* A materialized worktree has the identity it was asked for: with the     *)
(* index of the repository, createRepositorySnapshot would give its tree,  *)
(* at the snapshot's commit, the same id (capture, materialize).           *)
MaterializedHasId ==
    \A m \in Candidate : mat[m].at = "done" /\ (\A c \in Capture : Steady(c)) =>
        \E x \in SUBSET Path : IdOf(mat[m].id.head, x, mat[m].dest) = mat[m].id

(* A path of the commit that the capture listed in no way, neither as a    *)
(* file nor as deleted, since its deletion was staged                      *)
LeftOut(c, p) ==
    /\ cap[c].first.head[p] # Absent /\ cap[c].first.entries[p] = Unlisted
    /\ \E s \in during[c] : p \in Present(s[1]) \ s[3] /\ s[2][p] = Absent

(* A snapshot that was captured can be materialized: a call that nothing   *)
(* fails is refused only if another capture replaced its manifest, if its  *)
(* files are not in the same order by code units and by locale, if it was  *)
(* captured while the deletion of a file was staged, or if HEAD or a file  *)
(* was changed and changed back while it was captured (materialize).       *)
Materializes ==
    [][\A m \in Candidate : mat[m].at # "refused" /\ mat'[m].at = "refused" =>
          \/ mat'[m].manifest \notin manifests
          \/ ~SameOrder(FilesOf(mat'[m].manifest.entries))
          \/ \E c \in Capture :
               /\ cap[c].at \in {"done", "filed"} /\ mat'[m].manifest = ManifestOf(c)
               /\ c \in restored \/ \E p \in Path : LeftOut(c, p)]_vars

(* As documented: a candidate starts from an exact snapshot of the tree.   *)
(* A call that nothing fails is refused only if the manifest was replaced. *)
ExactSnapshots ==
    [][\A m \in Candidate : mat[m].at # "refused" /\ mat'[m].at = "refused" =>
          mat'[m].manifest \notin manifests]_vars
=============================================================================
