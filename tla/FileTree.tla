------------------------------ MODULE FileTree ------------------------------
(***************************************************************************)
(* file_gather_files of src/file/file.cpp: a walk over a directory tree in *)
(* which links can lead anywhere, back to the start included.  One action  *)
(* is one iteration of the inner loop.  Two paths are the same when they   *)
(* are after fs::canonical, so a node of the tree is a canonical path; the *)
(* order of the entries in a directory is the file system's (external).    *)
(***************************************************************************)
EXTENDS Naturals, Sequences, FiniteSets, Functions

CONSTANTS
    Dir, File,     \* the nodes
    Root,          \* where the walk begins
    MaxEntries     \* bound: entries of a directory besides "." and ".."

ASSUME TreeAssumption == Root \in Dir /\ Dir \cap File = {} /\ MaxEntries \in Nat

VARIABLES
    tree,          \* the entries of each directory
    opens,         \* the directories that tinydir_open can open
    odd,           \* the directories with ".." in their canonical path
    rootOdd,       \* the path of the root that was given has ".." in it
    walking,       \* file_gather_files was called
    thisDir,       \* the directory that is read, and its entries to come
    dirs,          \* the queue of directories to read
    checkedPaths,
    ret            \* the files found

treeVars == <<tree, opens, odd, rootOdd, walking, thisDir, dirs, checkedPaths, ret>>

Node == Dir \cup File

(* A bad entry is skipped at once: it cannot be read, or there is a ".."   *)
(* in its name, as in "a..b".                                              *)
Entry == [to : Node, bad : BOOLEAN]

(* The entry "." is not skipped; ".." is, and is left out.                 *)
Listing(t, d) == t[d] \cup {[to |-> d, bad |-> FALSE]}

TreeInit ==
    /\ tree = [d \in Dir |-> {}] /\ opens = {} /\ odd = {}
    /\ rootOdd = FALSE /\ walking = FALSE
    /\ thisDir = [dir |-> Root, odd |-> FALSE, left |-> {}]
    /\ dirs = <<>> /\ checkedPaths = {} /\ ret = <<>>

(* The call, up to the first directory taken from the queue.  The path of  *)
(* the root is the caller's.                                               *)
Gather(t, o, x, given) ==
    /\ ~walking /\ walking' = TRUE
    /\ tree' = t /\ opens' = o /\ odd' = x /\ rootOdd' = given
    /\ thisDir' = [dir |-> Root, odd |-> given,
                   left |-> IF Root \in o THEN Listing(t, Root) ELSE {}]
    /\ UNCHANGED <<dirs, checkedPaths, ret>>

(* The search for ".." is in the whole path.                               *)
Ignored(e) == e.bad \/ thisDir.odd

(* Mutant: a file is reported wherever it is found.                        *)
AlreadyCheckedDir(n) == n \in checkedPaths /\ n \in Dir

(* Mutant: nothing is remembered.                                          *)
AlreadyCheckedNever(n) == FALSE

AlreadyChecked(n) == n \in checkedPaths

(* An iteration with an entry that is skipped.                             *)
SkipEntry(e) ==
    /\ walking /\ e \in thisDir.left
    /\ Ignored(e) \/ AlreadyChecked(e.to)
    /\ thisDir' = [thisDir EXCEPT !.left = @ \ {e}]
    /\ UNCHANGED <<tree, opens, odd, rootOdd, walking, dirs, checkedPaths, ret>>

(* An iteration with a new path: a directory is queued, when it opens, and *)
(* a file is a result.                                                     *)
CheckEntry(e) ==
    /\ walking /\ e \in thisDir.left
    /\ ~Ignored(e) /\ ~AlreadyChecked(e.to)
    /\ thisDir' = [thisDir EXCEPT !.left = @ \ {e}]
    /\ checkedPaths' = checkedPaths \cup {e.to}
    /\ dirs' = IF e.to \in Dir \cap opens THEN Append(dirs, e.to) ELSE dirs
    /\ ret' = IF e.to \in File THEN Append(ret, e.to) ELSE ret
    /\ UNCHANGED <<tree, opens, odd, rootOdd, walking>>

(* The next directory; its path is canonical.                              *)
NextDir ==
    /\ walking /\ thisDir.left = {} /\ dirs # <<>>
    /\ thisDir' = [dir |-> Head(dirs), odd |-> Head(dirs) \in odd,
                   left |-> Listing(tree, Head(dirs))]
    /\ dirs' = Tail(dirs)
    /\ UNCHANGED <<tree, opens, odd, rootOdd, walking, checkedPaths, ret>>

Trees == [Dir -> {E \in SUBSET Entry : Cardinality(E) <= MaxEntries}]

TreeNext ==
    \/ /\ ~walking
       /\ \E t \in Trees, o, x \in SUBSET Dir, given \in BOOLEAN : Gather(t, o, x, given)
    \/ \E e \in thisDir.left : SkipEntry(e) \/ CheckEntry(e)
    \/ NextDir

TreeSpec == TreeInit /\ [][TreeNext]_treeVars

-----------------------------------------------------------------------------
Done == walking /\ thisDir.left = {} /\ dirs = <<>>

(* What the entries of d that are not bad lead to.                         *)
Links(t, d) == {e.to : e \in {f \in Listing(t, d) : ~f.bad}}

(* S has the entries of every directory in it that is read.                *)
Closed(t, o, x, S) == \A d \in S \cap Dir \cap o : d \notin x => Links(t, d) \subseteq S

(* The nodes that are reached from the entries of the root.                *)
Reached(t, o, x) ==
    {n \in Node : \A S \in SUBSET Node :
                      Links(t, Root) \subseteq S /\ Closed(t, o, x, S) => n \in S}

(* The walk finds exactly the files that can be reached without a path    *)
(* that has ".." in it, and each of them once, whatever the links make of  *)
(* the tree.  It finds nothing in a root that does not open, nor in one    *)
(* that was given by a path with "..".                                     *)
GathersReached ==
    Done => /\ IsInjective(ret)
            /\ Range(ret) = IF Root \in opens /\ ~rootOdd
                            THEN Reached(tree, opens, odd) \cap File ELSE {}

(* "Otherwise we walk forever" (file.cpp:139): every step brings the walk  *)
(* nearer to its end.  It checks a path for the first time, or has fewer   *)
(* entries left, or fewer directories.                                     *)
WalkShrinks ==
    [][walking => \/ /\ checkedPaths \subseteq checkedPaths' /\ checkedPaths' # checkedPaths
                     /\ Len(dirs') <= Len(dirs) + 1
                  \/ /\ checkedPaths' = checkedPaths
                     /\ \/ Len(dirs') < Len(dirs)
                        \/ /\ dirs' = dirs
                           /\ thisDir'.left \subseteq thisDir.left
                           /\ thisDir'.left # thisDir.left]_treeVars
=============================================================================
