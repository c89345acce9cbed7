------------------------------- MODULE Arena --------------------------------
(* __osMalloc.c: an arena is one region cut into blocks, each an ArenaNode   *)
(* and the memory it heads, in a list linked both ways in the order of the  *)
(* addresses.  Addresses and sizes count units of 16 bytes (ALIGN16), HDR   *)
(* is sizeof(ArenaNode).  Every call holds the arena's lock from its start  *)
(* to its end and is one step.  The contents of the memory, the magic       *)
(* numbers, the debug fields and the fill and check flags are left out, and *)
(* a second region (nobody calls __osMallocAddBlock but __osMallocInit).    *)
EXTENDS Integers
CONSTANTS Start, End, HDR, Sizes

NULL == 0

ASSUME ArenaAssumption ==
    /\ Start \in Nat \ {0} /\ HDR \in Nat \ {0} /\ End \in Nat
    /\ Start + HDR < End /\ Sizes \subseteq Nat

VARIABLES
    node,     \* the blocks: address -> ArenaNode
    last      \* the call that returned last: its arguments and its result

vars == <<node, last>>

ArenaNode == [next : Nat, prev : Nat, size : Nat, isFree : BOOLEAN]

After(N, a) == a + HDR + N[a].size

(* __osMallocAddBlock for the region of an empty arena. *)
AddBlock == [a \in {Start} |->
                [next |-> NULL, prev |-> NULL, size |-> End - Start - HDR, isFree |-> TRUE]]

Init ==
    /\ node = AddBlock
    /\ last = [call |-> "init", ptr |-> NULL, n |-> 0, ret |-> NULL]

Returned(call, p, n, r) == last' = [call |-> call, ptr |-> p, n |-> n, ret |-> r]

-----------------------------------------------------------------------------
(* Changes of the list. *)

(* Mutant: the block behind does not learn of its new neighbour. *)
Split_NoBack(N, a, n, free) ==
    LET b == a + HDR + n
    IN  [x \in DOMAIN N \cup {b} |->
            CASE x = b -> [next |-> N[a].next, prev |-> a,
                           size |-> N[a].size - (n + HDR), isFree |-> free]
              [] x = a -> [N[a] EXCEPT !.next = b, !.size = n]
              [] OTHER -> N[x]]

(* Block a keeps n units; the rest becomes a block of its own. *)
Split(N, a, n, free) ==
    LET b == a + HDR + n
    IN  [x \in DOMAIN N \cup {b} |->
            CASE x = b -> [next |-> N[a].next, prev |-> a,
                           size |-> N[a].size - (n + HDR), isFree |-> free]
              [] x = a -> [N[a] EXCEPT !.next = b, !.size = n]
              [] x \notin {a, b} /\ x = N[a].next -> [N[x] EXCEPT !.prev = b]
              [] OTHER -> N[x]]

(* Block a takes the block behind it in. *)
Merge(N, a) ==
    LET b == N[a].next
    IN  [x \in DOMAIN N \ {b} |->
            CASE x = a -> [N[a] EXCEPT !.next = N[b].next, !.size = @ + N[b].size + HDR]
              [] x # a /\ x = N[b].next -> [N[x] EXCEPT !.prev = a]
              [] OTHER -> N[x]]

(* Block a gets n units; the header of the block behind it moves. *)
Shift(N, a, n) ==
    LET b == N[a].next
        c == a + HDR + n
    IN  [x \in (DOMAIN N \ {b}) \cup {c} |->
            CASE x = c -> [N[b] EXCEPT !.size = @ + N[a].size - n]
              [] x = a -> [N[a] EXCEPT !.next = c, !.size = n]
              [] x \notin {a, c} /\ x = N[b].next -> [N[x] EXCEPT !.prev = c]
              [] OTHER -> N[x]]

SetFree(N, a, free) == [N EXCEPT ![a].isFree = free]

-----------------------------------------------------------------------------
Fitting(N, n) == {a \in DOMAIN N : N[a].isFree /\ n <= N[a].size}

(* The search from the head of the list and the one from its end. *)
FirstFit(N, n) == {a \in Fitting(N, n) : \A b \in Fitting(N, n) : a <= b}
LastFit(N, n)  == {a \in Fitting(N, n) : \A b \in Fitting(N, n) : b <= a}

(* Whether the rest of block a is worth a header. *)
Parts(N, a, n) == n + HDR < N[a].size

(* The block found by __osMalloc_NoLock gives n units from its start. *)
Taken(N, a, n) ==
    SetFree(IF Parts(N, a, n) THEN Split(N, a, n, TRUE) ELSE N, a, FALSE)

(* __osMallocR takes them from its end. *)
TakenR(N, a, n) ==
    IF Parts(N, a, n) THEN Split(N, a, N[a].size - (n + HDR), FALSE)
    ELSE SetFree(N, a, FALSE)
PlaceR(N, a, n) == IF Parts(N, a, n) THEN a + (N[a].size - n) ELSE a

FreeNext(N, a) == N[a].next # NULL /\ N[a].next = After(N, a) /\ N[N[a].next].isFree
FreePrev(N, a) ==
    LET p == N[a].prev IN p # NULL /\ N[p].isFree /\ a = After(N, p)

(* Mutant: only the block behind is merged. *)
Freed_NotPrev(N, a) ==
    LET F == SetFree(N, a, TRUE) IN IF FreeNext(N, a) THEN Merge(F, a) ELSE F

(* __osFree_NoLock: block a is free and merged with its free neighbours. *)
Freed(N, a) ==
    LET F == SetFree(N, a, TRUE)
        M == IF FreeNext(N, a) THEN Merge(F, a) ELSE F
    IN  IF FreePrev(N, a) THEN Merge(M, N[a].prev) ELSE M

-----------------------------------------------------------------------------
Allocated == {a \in DOMAIN node : ~node[a].isFree}

__osMalloc_NoLock(call, n) ==
    \/ \E a \in FirstFit(node, n) :
            node' = Taken(node, a, n) /\ Returned(call, NULL, n, a + HDR)
    \/ Fitting(node, n) = {} /\ node' = node /\ Returned(call, NULL, n, NULL)

__osMalloc(n) == __osMalloc_NoLock("malloc", n)

__osMallocR(n) ==
    \/ \E a \in LastFit(node, n) :
        /\ node' = TakenR(node, a, n)
        /\ Returned("malloc", NULL, n, PlaceR(node, a, n) + HDR)
    \/ Fitting(node, n) = {} /\ node' = node /\ Returned("malloc", NULL, n, NULL)

__osFree(a) == node' = Freed(node, a) /\ Returned("free", a + HDR, 0, NULL)

(* Nothing is done for NULL and for a block that is free already. *)
__osFree_Nothing ==
    /\ node' = node
    /\ \/ Returned("free", NULL, 0, NULL)
       \/ \E a \in DOMAIN node \ Allocated : Returned("free", a + HDR, 0, NULL)

ReallocFree(a) == node' = Freed(node, a) /\ Returned("realloc", a + HDR, 0, NULL)

(* n \in Nat \ {0} from here on. *)
ReallocSame(a, n) ==
    n = node[a].size /\ node' = node /\ Returned("realloc", a + HDR, n, a + HDR)

CanGrow(a, n) ==
    FreeNext(node, a) /\ n - node[a].size <= node[node[a].next].size

ReallocGrow(a, n) ==
    /\ node[a].size < n /\ CanGrow(a, n)
    /\ node' = Shift(node, a, n) /\ Returned("realloc", a + HDR, n, a + HDR)

ReallocMove(a, n) ==
    /\ node[a].size < n /\ ~CanGrow(a, n)
    /\ \/ \E b \in FirstFit(node, n) :
            /\ node' = Freed(Taken(node, b, n), a)
            /\ Returned("realloc", a + HDR, n, b + HDR)
       \/ /\ Fitting(node, n) = {} /\ node' = node
          /\ Returned("realloc", a + HDR, n, NULL)

ReallocShrink(a, n) ==
    /\ n < node[a].size
    /\ LET next == node[a].next
           Here == Returned("realloc", a + HDR, n, a + HDR)
       IN  \/ next # NULL /\ node[next].isFree /\ node' = Shift(node, a, n) /\ Here
           \/ /\ ~(next # NULL /\ node[next].isFree)
              /\ \/ Parts(node, a, n) /\ node' = Split(node, a, n, TRUE) /\ Here
                 \/ /\ ~Parts(node, a, n) /\ node' = node
                    /\ Returned("realloc", a + HDR, n, NULL)

__osRealloc(a, n) ==
    IF n = 0 THEN ReallocFree(a)
    ELSE ReallocSame(a, n) \/ ReallocGrow(a, n) \/ ReallocMove(a, n) \/ ReallocShrink(a, n)

Next ==
    \/ \E n \in Sizes : __osMalloc(n) \/ __osMallocR(n) \/ __osMalloc_NoLock("realloc", n)
    \/ \E a \in Allocated : __osFree(a) \/ \E n \in Sizes : __osRealloc(a, n)
    \/ __osFree_Nothing

Spec == Init /\ [][Next]_vars

-----------------------------------------------------------------------------
InRegion(N) ==
    \A a \in DOMAIN N :
        a \in Nat /\ Start <= a /\ N[a] \in ArenaNode /\ After(N, a) <= End

Disjoint(N) == \A a, b \in DOMAIN N : a < b => After(N, a) <= b

Covered(N) ==
    \A x \in Start .. End - 1 : \E a \in DOMAIN N : a <= x /\ x < After(N, a)

(* The links of each block lead to its neighbours and back. *)
Linked(N) ==
    /\ N[Start].prev = NULL
    /\ \A a \in DOMAIN N :
        IF After(N, a) = End THEN N[a].next = NULL
        ELSE N[a].next = After(N, a) /\ N[N[a].next].prev = a

(* No free block stays apart from a free one it could be merged with. *)
Merged(N) ==
    \A a \in DOMAIN N : N[a].isFree /\ N[a].next # NULL => ~N[N[a].next].isFree

Tiled(N) == InRegion(N) /\ Disjoint(N) /\ Covered(N)

(* After every call the blocks cut the region into pieces without a gap or   *)
(* an overlap, linked both ways, free neighbours merged (__osMalloc.c:421). *)
Whole == Tiled(node) /\ Linked(node) /\ Merged(node)

-----------------------------------------------------------------------------
AreasOf(N) ==
    {[at |-> a + HDR, len |-> N[a].size] : a \in {x \in DOMAIN N : ~N[x].isFree}}

H == INSTANCE Heap WITH areas <- AreasOf(node)

(* The calls keep the promises of a heap: areas apart from one another, the  *)
(* size asked for, NULL only for want of room (__osMalloc.c:198-648).       *)
ImplementsHeap == H!Spec
=============================================================================
