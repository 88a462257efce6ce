------------------------------ MODULE MemPool ------------------------------
(***************************************************************************)
(* The pools of include/mutils/thread/mempool.h, used by one thread:       *)
(* MemoryPool<T>, which keeps its free items in a std::vector, and         *)
(* TSMemoryPool<T>, which keeps them in a moodycamel::ConcurrentQueue      *)
(* (first in, first out as long as one thread enqueues); with the list     *)
(* that their items can be sewn into (src/thread/mempool.cpp) and a client *)
(* that calls both.  Timeline has TSMemoryPool with several threads.       *)
(*                                                                         *)
(* The client keeps the rules of the interface: it frees and links only    *)
(* items it holds, and links only an item that is in no chain.             *)
(***************************************************************************)
EXTENDS ListOps, Functions

CONSTANTS
    Storage,       \* the pools: "vector" is MemoryPool, "queue" TSMemoryPool
    InitialSize,   \* the constructor's argument
    MaxAllocs,     \* bound: calls of Alloc over the life of the pool
    EndRanges,     \* the client also cuts ranges that touch an end of the list
    ExplicitClear  \* the pools whose Clear() the client calls, and goes on

ASSUME SizeAssumption ==
    /\ Storage \subseteq {"vector", "queue"} /\ ExplicitClear \subseteq Storage
    /\ InitialSize \in Nat /\ MaxAllocs \in Nat
    /\ EndRanges \in BOOLEAN

VARIABLES
    storage,    \* which of the pools this is
    phase,      \* "ctor", "ready" or "dead"
    heap,       \* the addresses where an item lives (new without delete)
    freeItems,  \* m_freeItems
    held,       \* the items the client got from Alloc and did not free
    id, nextId, \* m_id of each item, m_nextId of the pool
    list,       \* the pool's list
    order       \* history: what the calls so far mean for the list

poolVars == <<storage, phase, heap, freeItems, held, id, nextId>>
memVars == <<poolVars, list, order>>

MemInit ==
    /\ storage \in Storage
    /\ phase = IF InitialSize = 0 THEN "ready" ELSE "ctor"
    /\ heap = {} /\ freeItems = <<>> /\ held = {}
    /\ id = [x \in Item |-> 0] /\ nextId = 0
    /\ list = EmptyList /\ order = <<>>

(* The place of x in the list, and the list when x has been taken out.     *)
IndexOf(x) == CHOOSE n \in DOMAIN order : order[n] = x

Unlinked(x) ==
    IF x \in Range(order)
    THEN LET n == IndexOf(x)
         IN  SubSeq(order, 1, n - 1) \o SubSeq(order, n + 1, Len(order))
    ELSE order

(* The item the pool recycles next, and what is left of m_freeItems then.  *)
Recycled ==
    IF storage = "vector" THEN freeItems[Len(freeItems)] ELSE Head(freeItems)

Rest ==
    IF freeItems = <<>> THEN <<>>
    ELSE IF storage = "vector" THEN SubSeq(freeItems, 1, Len(freeItems) - 1)
    ELSE Tail(freeItems)

(* Alloc returns x: a recycled item if there is one, or a new one.         *)
AllocItem(x) ==
    /\ nextId < MaxAllocs
    /\ \/ /\ freeItems = <<>>
          /\ x \in Item \ heap
          /\ heap' = heap \cup {x}
       \/ /\ freeItems # <<>>
          /\ x = Recycled
          /\ UNCHANGED heap
    /\ id' = [id EXCEPT ![x] = nextId]
    /\ nextId' = nextId + 1

(* One iteration of the constructor's loop: it stores what Alloc returns.  *)
Construct ==
    /\ phase = "ctor"
    /\ \E x \in Item :
          /\ AllocItem(x)
          /\ freeItems' = Append(Rest, x)
    /\ phase' = IF nextId' = InitialSize THEN "ready" ELSE "ctor"
    /\ UNCHANGED <<storage, held, list, order>>

Alloc ==
    /\ phase = "ready"
    /\ \E x \in Item :
          /\ AllocItem(x)
          /\ held' = held \cup {x}
    /\ freeItems' = Rest
    /\ UNCHANGED <<storage, phase, list, order>>

(* PoolItem::Free: leave the chain, go back to the pool.                   *)
Free(x) ==
    /\ phase = "ready" /\ x \in held
    /\ list' = Disconnect(list, x)
    /\ order' = Unlinked(x)
    /\ held' = held \ {x}
    /\ freeItems' = Append(freeItems, x)
    /\ UNCHANGED <<storage, phase, heap, id, nextId>>

(* Mutant: the deleted items stay in the queue.                            *)
ClearKeepsQueue ==
    /\ heap' = heap \ Range(freeItems)
    /\ UNCHANGED <<storage, freeItems, held, id, nextId, list, order>>

(* Clear deletes the free items.  TSMemoryPool dequeues them, MemoryPool   *)
(* leaves their addresses in the vector.                                   *)
Clear ==
    /\ heap' = heap \ Range(freeItems)
    /\ freeItems' = IF storage = "queue" THEN <<>> ELSE freeItems
    /\ UNCHANGED <<storage, held, id, nextId, list, order>>

CallClear == phase = "ready" /\ storage \in ExplicitClear /\ Clear /\ UNCHANGED phase

Destroy == phase = "ready" /\ phase' = "dead" /\ Clear

-----------------------------------------------------------------------------
(* The list functions, as the client calls them.                           *)

LinkedBehind(n, x) ==
    SubSeq(order, 1, n) \o <<x>> \o SubSeq(order, n + 1, Len(order))

InNoChain(x) == list.next[x] = NULL /\ list.prev[x] = NULL /\ list.root # x

CallInsertAfter(pos, x) ==
    /\ phase = "ready" /\ x \in held /\ InNoChain(x)
    /\ pos \in Range(order) \cup {NULL}
    /\ list' = InsertAfter(list, pos, x)
    /\ order' = LinkedBehind(IF pos = NULL THEN 0 ELSE IndexOf(pos), x)
    /\ UNCHANGED poolVars

CallInsertBefore(pos, x) ==
    /\ phase = "ready" /\ x \in held /\ InNoChain(x)
    /\ pos \in Range(order) \/ (pos = NULL /\ order = <<>>)
    /\ list' = InsertBefore(list, pos, x)
    /\ order' = LinkedBehind(IF pos = NULL THEN 0 ELSE IndexOf(pos) - 1, x)
    /\ UNCHANGED poolVars

CallDisconnect(x) ==
    /\ phase = "ready" /\ x \in held
    /\ list' = Disconnect(list, x)
    /\ order' = Unlinked(x)
    /\ UNCHANGED poolVars

(* The cut from the a-th to the b-th item; a null pointer for an end.      *)
CallDisconnectRange(a, b) ==
    /\ phase = "ready"
    /\ a < b
    /\ ~EndRanges => 1 < a /\ b < Len(order)
    /\ \E pBegin \in {order[a]} \cup (IF a = 1 THEN {NULL} ELSE {}),
          pEnd \in {order[b]} \cup (IF b = Len(order) THEN {NULL} ELSE {}) :
          /\ pBegin # NULL \/ pEnd # NULL
          /\ list' = DisconnectRange(list, pBegin, pEnd)
    /\ order' = SubSeq(order, 1, a - 1) \o SubSeq(order, b + 1, Len(order))
    /\ UNCHANGED poolVars

MemNext ==
    \/ Construct \/ Alloc \/ CallClear \/ Destroy
    \/ \E x \in Item : Free(x) \/ CallDisconnect(x)
    \/ \E x \in Item, pos \in Pointer :
          CallInsertAfter(pos, x) \/ CallInsertBefore(pos, x)
    \/ \E a, b \in DOMAIN order : CallDisconnectRange(a, b)

MemSpec == MemInit /\ [][MemNext]_memVars

-----------------------------------------------------------------------------
(* Every variable of the pool and of the list has its type.                *)
MemTypeOK ==
    /\ storage \in Storage
    /\ phase \in {"ctor", "ready", "dead"}
    /\ heap \subseteq Item /\ held \subseteq Item
    /\ freeItems \in Seq(Item)
    /\ id \in [Item -> Nat] /\ nextId \in 0..MaxAllocs
    /\ list \in ListType
    /\ order \in Seq(Item)

(* The pointers that the list functions leave behind are those of the      *)
(* list their calls describe: walking m_pNext from m_pRoot, or m_pPrevious *)
(* from m_pLast, meets every item linked so far, once and in order.  The   *)
(* two mirror each other on every item, also in the strands that           *)
(* list_disconnect_range cut out of the list.                              *)
ListIsOrder ==
    /\ MemTypeOK
    /\ Linked(list, order)
    /\ \A x, y \in Item : list.next[x] = y <=> list.prev[y] = x

(* Every item that exists is either in m_freeItems, once, or the client's; *)
(* only the client's are linked.  Alloc never hands an item out twice, and *)
(* its "uniqueId" tells it from every other item that was handed out, a    *)
(* recycled one included.                                                  *)
OneOwner ==
    /\ IsInjective(freeItems)
    /\ held \cap Range(freeItems) = {}
    /\ held \subseteq heap
    /\ phase # "dead" => heap = held \cup Range(freeItems)
    /\ \A x \in Item : ~InNoChain(x) => x \in held
    /\ \A x \in held : id[x] < nextId
    /\ \A x, y \in held : id[x] = id[y] => x = y

(* The assertions in list_disconnect_range about the new ends, evaluated   *)
(* where they stand: after the fix-up, before the range is unlinked.       *)
RangeAsserts ==
    \A a, b \in DOMAIN order :
        a < b /\ (~EndRanges => 1 < a /\ b < Len(order)) =>
            LET l == RangeEnds(list, order[a], order[b])
            IN  /\ order[a] = list.root =>
                       l.root = NULL \/ l.prev[l.root] = NULL
                /\ order[b] = list.last =>
                       l.last = NULL \/ l.next[l.last] = NULL

(* "store the free item for later": what m_freeItems holds can be handed   *)
(* out by Alloc, and deleted by the destructor, so it must be alive.       *)
FreeItemsAlive == phase # "dead" => Range(freeItems) \subseteq heap
=============================================================================
