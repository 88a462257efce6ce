------------------------------ MODULE ListOps ------------------------------
(***************************************************************************)
(* The intrusive doubly linked list of src/thread/mempool.cpp.  A list is  *)
(* a record of the pool's m_pRoot and m_pLast and of the m_pNext and       *)
(* m_pPrevious pointers of its items.  Every operation below is one        *)
(* function of the source, as a function from lists to lists.              *)
(***************************************************************************)
EXTENDS Naturals, Sequences, FiniteSets

CONSTANTS Item, NULL

ASSUME NullAssumption == NULL \notin Item
ASSUME ItemAssumption == IsFiniteSet(Item)

Pointer == Item \cup {NULL}

ListType ==
    [root : Pointer, last : Pointer,
     next : [Item -> Pointer], prev : [Item -> Pointer]]

EmptyList ==
    [root |-> NULL, last |-> NULL,
     next |-> [x \in Item |-> NULL], prev |-> [x \in Item |-> NULL]]

(* p->field = v, for a pointer that may be null: the code tests it first.  *)
Assign(f, p, v) == [x \in Item |-> IF x = p THEN v ELSE f[x]]

(* list_insert_before, for a position in the list or an empty list.        *)
InsertBefore(l, pos, x) ==
    IF pos = NULL
    THEN [l EXCEPT !.root = x, !.last = x]
    ELSE LET before == l.prev[pos]
         IN  [l EXCEPT !.prev = Assign(Assign(l.prev, pos, x), x, before),
                       !.next = Assign(Assign(l.next, before, x), x, pos),
                       !.root = IF l.root = pos THEN x ELSE l.root]

(* Mutant: m_pLast is not moved to an item inserted behind it.             *)
InsertAfterKeepsLast(l, pos, x) ==
    IF pos = NULL
    THEN InsertBefore(l, l.root, x)
    ELSE [l EXCEPT !.next = Assign(Assign(l.next, pos, x), x, l.next[pos]),
                   !.prev = Assign(Assign(l.prev, x, pos), l.next[pos], x)]

(* list_insert_after: a null position means in front of the root.          *)
InsertAfter(l, pos, x) ==
    IF pos = NULL
    THEN InsertBefore(l, l.root, x)
    ELSE LET after == l.next[pos]
         IN  [l EXCEPT !.last = IF l.last = pos THEN x ELSE l.last,
                       !.next = Assign(Assign(l.next, pos, x), x, after),
                       !.prev = Assign(Assign(l.prev, x, pos), after, x)]

(* list_disconnect: fix the ends, unlink x, clear its pointers, then clear *)
(* the outward pointers of the new ends.                                   *)
Disconnect(l, x) ==
    LET root == IF l.root = x THEN l.next[x] ELSE l.root
        last == IF l.last = x THEN l.prev[x] ELSE l.last
        next == Assign(Assign(l.next, l.prev[x], l.next[x]), x, NULL)
        prev == Assign(Assign(l.prev, l.next[x], l.prev[x]), x, NULL)
    IN  [root |-> root, last |-> last,
         next |-> Assign(next, last, NULL), prev |-> Assign(prev, root, NULL)]

(* The item n steps from p along the pointers f, NULL once past the end.   *)
Follow(f, p) == IF p = NULL THEN NULL ELSE f[p]

Walk(f, p, n) ==
    LET at[k \in 0..n] == IF k = 0 THEN p ELSE Follow(f, at[k-1])
    IN  at[n]

(* The number of items on the way from p along f (at most all of them).    *)
WalkLength(f, p) ==
    Cardinality({n \in 0 .. Cardinality(Item) - 1 : Walk(f, p, n) # NULL})

(* list_end and list_root: follow the pointers to the end of the chain.    *)
ListEnd(l, x) == Walk(l.next, x, WalkLength(l.next, x) - 1)
ListRoot(l, x) == Walk(l.prev, x, WalkLength(l.prev, x) - 1)

(* The items from the root on, as a sequence.                              *)
Chain(l) ==
    [n \in 1..WalkLength(l.next, l.root) |-> Walk(l.next, l.root, n - 1)]

(* The pool's ends after the fix-ups of list_disconnect_range, which look  *)
(* at the neighbours inside the range that is cut out.                     *)
RangeEnds(l, begin, end) ==
    [l EXCEPT !.root = IF l.root = begin THEN l.next[begin] ELSE l.root,
              !.last = IF l.last = end THEN l.prev[end] ELSE l.last]

(* list_disconnect_range: cut the items from begin to end out of the chain *)
(* and leave them linked to each other.  A null argument stands for that   *)
(* end of the chain.                                                       *)
DisconnectRange(l, pBegin, pEnd) ==
    LET end == IF pEnd = NULL THEN ListEnd(l, pBegin) ELSE pEnd
        begin == IF pBegin = NULL THEN ListRoot(l, end) ELSE pBegin
        before == l.prev[begin]
        after == l.next[end]
    IN  [RangeEnds(l, begin, end) EXCEPT
            !.next = Assign(Assign(l.next, before, after), end, NULL),
            !.prev = Assign(Assign(l.prev, after, before), begin, NULL)]

-----------------------------------------------------------------------------
(* The pool's list is the sequence s: it runs from the root to the last    *)
(* item, without repetition, linked both ways.                             *)
Linked(l, s) ==
    /\ \A i, j \in 1..Len(s) : s[i] = s[j] => i = j
    /\ l.root = IF s = <<>> THEN NULL ELSE s[1]
    /\ l.last = IF s = <<>> THEN NULL ELSE s[Len(s)]
    /\ \A i \in 1..Len(s) :
          /\ l.next[s[i]] = IF i < Len(s) THEN s[i+1] ELSE NULL
          /\ l.prev[s[i]] = IF i > 1 THEN s[i-1] ELSE NULL

(* No item outside s has a pointer set.                                    *)
Isolated(l, s) ==
    \A x \in Item : (\A i \in 1..Len(s) : s[i] # x) =>
        l.next[x] = NULL /\ l.prev[x] = NULL

Represents(l, s) == Linked(l, s) /\ Isolated(l, s)
=============================================================================
