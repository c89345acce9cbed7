---------------------------- MODULE ArenaProofs -----------------------------
(* For any region and any sizes of requests, the list of an arena is whole   *)
(* after every call, and the calls keep the promises of a heap.             *)
EXTENDS Arena, TLAPS

(* What the geometry alone says of the block behind a block. *)
LEMMA BlockBehind ==
    ASSUME NEW N, Tiled(N), NEW a \in DOMAIN N
    PROVE  /\ a \in Nat /\ N[a].size \in Nat /\ After(N, a) \in Nat
           /\ a < After(N, a) /\ After(N, a) <= End
           /\ After(N, a) # End => After(N, a) \in DOMAIN N
           /\ \A b \in DOMAIN N : After(N, b) = After(N, a) => b = a
<1>1. /\ a \in Nat /\ N[a].size \in Nat /\ After(N, a) \in Nat
      /\ a < After(N, a) /\ After(N, a) <= End /\ Start <= a
  BY ArenaAssumption DEF Tiled, InRegion, ArenaNode, After
<1>2. ASSUME After(N, a) # End PROVE After(N, a) \in DOMAIN N
  <2>1. After(N, a) \in Start .. End - 1
    BY <1>1, <1>2, ArenaAssumption
  <2>2. PICK b \in DOMAIN N : b <= After(N, a) /\ After(N, a) < After(N, b)
    BY <2>1 DEF Tiled, Covered
  <2>3. b \in Nat /\ After(N, b) \in Nat
    BY ArenaAssumption DEF Tiled, InRegion, ArenaNode, After
  <2>4. ~ b < a
    BY <1>1, <2>2, <2>3 DEF Tiled, Disjoint
  <2>5. b # a
    BY <1>1, <2>2
  <2>6. After(N, a) <= b
    BY <1>1, <2>3, <2>4, <2>5 DEF Tiled, Disjoint
  <2> QED BY <1>1, <2>2, <2>3, <2>6
<1>3. ASSUME NEW b \in DOMAIN N, After(N, b) = After(N, a) PROVE b = a
  <2>1. b \in Nat /\ b < After(N, b)
    BY ArenaAssumption DEF Tiled, InRegion, ArenaNode, After
  <2> QED BY <1>1, <1>3, <2>1 DEF Tiled, Disjoint
<1> QED BY <1>1, <1>2, <1>3

(* The first block starts where the region does. *)
LEMMA FirstBlock ==
    ASSUME NEW N, Tiled(N)
    PROVE  Start \in DOMAIN N
<1>1. Start \in Start .. End - 1
  BY ArenaAssumption
<1>2. PICK a \in DOMAIN N : a <= Start
  BY <1>1 DEF Tiled, Covered
<1> QED BY <1>2, ArenaAssumption DEF Tiled, InRegion

(* Every other block is behind a block. *)
LEMMA BlockBefore ==
    ASSUME NEW N, Tiled(N), NEW a \in DOMAIN N, a # Start
    PROVE  \E p \in DOMAIN N : p < a /\ After(N, p) = a
<1>1. a \in Nat /\ Start < a /\ a < End
  BY BlockBehind, ArenaAssumption DEF Tiled, InRegion
<1>2. PICK p \in DOMAIN N : p <= a - 1 /\ a - 1 < After(N, p)
  BY <1>1, ArenaAssumption DEF Tiled, Covered
<1>3. p \in Nat /\ After(N, p) \in Nat
  BY BlockBehind
<1>4. After(N, p) <= a
  BY <1>1, <1>2, <1>3 DEF Tiled, Disjoint
<1> QED BY <1>1, <1>2, <1>3, <1>4

(* The links say where the neighbours are. *)
LEMMA Neighbours ==
    ASSUME NEW N, Tiled(N), Linked(N), NEW a \in DOMAIN N
    PROVE  /\ N[a].next = NULL <=> After(N, a) = End
           /\ N[a].next # NULL =>
                /\ N[a].next = After(N, a) /\ N[a].next \in DOMAIN N
                /\ a < N[a].next /\ N[N[a].next].prev = a
           /\ N[a].prev = NULL <=> a = Start
           /\ N[a].prev # NULL =>
                /\ N[a].prev \in DOMAIN N /\ After(N, N[a].prev) = a
                /\ N[a].prev < a /\ N[N[a].prev].next = a
<1>1. a \in Nat /\ a < After(N, a) /\ After(N, a) \in Nat
      /\ (After(N, a) # End => After(N, a) \in DOMAIN N)
  BY BlockBehind
<1>2. NULL = 0 /\ Start > 0 /\ Start <= a
  BY ArenaAssumption DEF NULL, Tiled, InRegion
<1>3. N[a].next = NULL <=> After(N, a) = End
  BY <1>1, <1>2 DEF Linked
<1>4. N[a].next # NULL =>
        /\ N[a].next = After(N, a) /\ N[a].next \in DOMAIN N
        /\ a < N[a].next /\ N[N[a].next].prev = a
  BY <1>1, <1>3 DEF Linked
<1>5. CASE a = Start
  BY <1>2, <1>3, <1>4, <1>5 DEF Linked
<1>6. CASE a # Start
  <2>1. PICK p \in DOMAIN N : p < a /\ After(N, p) = a
    BY <1>6, BlockBefore
  <2>2. a # End
    BY <1>1, BlockBehind
  <2>3. N[p].next = a /\ N[a].prev = p
    BY <2>1, <2>2 DEF Linked
  <2>4. p # NULL
    BY <1>2, ArenaAssumption DEF Tiled, InRegion
  <2> QED BY <1>3, <1>4, <1>6, <2>1, <2>3, <2>4
<1> QED BY <1>5, <1>6

-----------------------------------------------------------------------------
(* The changes of the list keep it whole but for free neighbours.  What each *)
(* makes of a list N is said of the result M.                               *)

IsSetFree(N, a, free, M) ==
    /\ Tiled(M) /\ Linked(M) /\ DOMAIN M = DOMAIN N /\ M[a].isFree = free
    /\ \A x \in DOMAIN N : M[x].size = N[x].size /\ M[x].next = N[x].next
    /\ \A x \in DOMAIN N \ {a} : M[x].isFree = N[x].isFree

IsSplit(N, a, n, free, b, M) ==
    /\ Tiled(M) /\ Linked(M)
    /\ b \in Nat \ DOMAIN N /\ DOMAIN M = DOMAIN N \cup {b}
    /\ M[a].size = n /\ M[a].isFree = N[a].isFree /\ M[a].next = b
    /\ M[b].size = N[a].size - (n + HDR) /\ M[b].isFree = free /\ M[b].next = N[a].next
    /\ \A x \in DOMAIN N \ {a} :
        M[x].size = N[x].size /\ M[x].isFree = N[x].isFree /\ M[x].next = N[x].next

IsMerge(N, a, b, M) ==
    /\ Tiled(M) /\ Linked(M)
    /\ b \in DOMAIN N \ {a} /\ DOMAIN M = DOMAIN N \ {b}
    /\ M[a].size = N[a].size + N[b].size + HDR /\ M[a].isFree = N[a].isFree
    /\ M[a].next = N[b].next
    /\ \A x \in DOMAIN N \ {a, b} :
        M[x].size = N[x].size /\ M[x].isFree = N[x].isFree /\ M[x].next = N[x].next

LEMMA SetFreeKeeps ==
    ASSUME NEW N, Tiled(N), Linked(N), NEW a \in DOMAIN N, NEW free \in BOOLEAN,
           NEW M, M = SetFree(N, a, free)
    PROVE  IsSetFree(N, a, free, M)
<1>1. \A x \in DOMAIN N : N[x] \in ArenaNode
  BY DEF Tiled, InRegion
<1>2. /\ DOMAIN M = DOMAIN N
      /\ \A x \in DOMAIN N :
            /\ M[x] \in ArenaNode
            /\ M[x].size = N[x].size /\ M[x].next = N[x].next /\ M[x].prev = N[x].prev
            /\ x # a => M[x].isFree = N[x].isFree
      /\ M[a].isFree = free
  BY <1>1 DEF SetFree, ArenaNode
<1>3. \A x \in DOMAIN N : After(M, x) = After(N, x)
  BY <1>2 DEF After
<1>4. Tiled(M)
  BY <1>2, <1>3 DEF Tiled, InRegion, Disjoint, Covered
<1>5. Linked(M)
  <2>1. Start \in DOMAIN N
    BY FirstBlock
  <2>2. \A x \in DOMAIN N : After(N, x) # End => N[x].next \in DOMAIN N
    BY Neighbours
  <2> QED BY <1>2, <1>3, <2>1, <2>2 DEF Linked
<1> QED BY <1>2, <1>4, <1>5 DEF IsSetFree

LEMMA SplitKeeps ==
    ASSUME NEW N, Tiled(N), Linked(N), NEW a \in DOMAIN N, NEW n \in Nat,
           n + HDR <= N[a].size, NEW free \in BOOLEAN,
           NEW b, b = a + HDR + n, NEW M, M = Split(N, a, n, free)
    PROVE  IsSplit(N, a, n, free, b, M)
<1>1. /\ a \in Nat /\ N[a].size \in Nat /\ After(N, a) \in Nat /\ HDR \in Nat \ {0}
      /\ After(N, a) = a + HDR + N[a].size /\ After(N, a) <= End /\ End \in Nat /\ Start <= a
  BY BlockBehind, ArenaAssumption DEF After, Tiled, InRegion
<1>2. b = a + HDR + n /\ b \in Nat /\ a < b /\ b + HDR <= After(N, a)
  BY <1>1
<1>3. b \notin DOMAIN N
  BY <1>1, <1>2 DEF Tiled, Disjoint
<1>4. \A x \in DOMAIN N : N[x] \in ArenaNode
  BY DEF Tiled, InRegion
<1>5. N[a].size - (n + HDR) \in Nat /\ NULL \in Nat
  BY <1>1 DEF NULL
<1>6. /\ DOMAIN M = DOMAIN N \cup {b}
      /\ M[b] = [next |-> N[a].next, prev |-> a,
                  size |-> N[a].size - (n + HDR), isFree |-> free]
      /\ M[a] = [N[a] EXCEPT !.next = b, !.size = n]
      /\ \A x \in DOMAIN N \ {a} :
            M[x] = IF x = N[a].next THEN [N[x] EXCEPT !.prev = b] ELSE N[x]
  BY <1>2, <1>3 DEF Split
<1>7. M[b] \in ArenaNode /\ M[a] \in ArenaNode
  <2>1. N[a] \in ArenaNode
    BY <1>4
  <2>2. M[a] \in ArenaNode
    BY <1>2, <1>6, <2>1 DEF ArenaNode
  <2>3. N[a].next \in Nat
    BY <2>1 DEF ArenaNode
  <2>4. M[b] \in ArenaNode
    BY <1>1, <1>5, <1>6, <2>3 DEF ArenaNode
  <2> QED BY <2>2, <2>4
<1>8. /\ M[b].next = N[a].next /\ M[b].prev = a /\ M[b].isFree = free
      /\ M[b].size = N[a].size - (n + HDR)
      /\ M[a].next = b /\ M[a].size = n /\ M[a].isFree = N[a].isFree
      /\ M[a].prev = N[a].prev
  BY <1>4, <1>6 DEF ArenaNode
<1>9. \A x \in DOMAIN N \ {a} :
        /\ M[x] \in ArenaNode
        /\ M[x].size = N[x].size /\ M[x].isFree = N[x].isFree /\ M[x].next = N[x].next
        /\ M[x].prev = IF x = N[a].next THEN b ELSE N[x].prev
  BY <1>2, <1>4, <1>6 DEF ArenaNode
<1>10. /\ After(M, a) = b /\ After(M, b) = After(N, a)
       /\ \A x \in DOMAIN N \ {a} : After(M, x) = After(N, x)
  BY <1>1, <1>2, <1>8, <1>9 DEF After
<1>11. Tiled(M)
  <2>1. InRegion(M)
    <3> SUFFICES ASSUME NEW x \in DOMAIN M
                 PROVE  x \in Nat /\ Start <= x /\ M[x] \in ArenaNode /\ After(M, x) <= End
      BY DEF InRegion
    <3>1. CASE x = b
      BY <1>1, <1>2, <1>7, <1>10, <3>1, ArenaAssumption
    <3>2. CASE x = a
      BY <1>1, <1>2, <1>7, <1>10, <3>2, ArenaAssumption
    <3>3. CASE x \in DOMAIN N \ {a}
      BY <1>9, <1>10, <3>3 DEF Tiled, InRegion
    <3> QED BY <1>6, <3>1, <3>2, <3>3
  <2>2. Disjoint(M)
    <3> SUFFICES ASSUME NEW x \in DOMAIN M, NEW y \in DOMAIN M, x < y
                 PROVE  After(M, x) <= y
      BY DEF Disjoint
    <3>1. \A z \in DOMAIN N : z \in Nat /\ After(N, z) \in Nat /\ z < After(N, z)
      BY BlockBehind
    <3>2. CASE x \in DOMAIN N \ {a} /\ y \in DOMAIN N
      <4>1. After(N, x) <= y
        BY <3>2 DEF Tiled, Disjoint
      <4> QED BY <1>10, <3>2, <4>1
    <3>3. CASE x = b /\ y \in DOMAIN N
      <4>1. After(N, a) <= y
        BY <1>2, <3>1, <3>3 DEF Tiled, Disjoint
      <4> QED BY <1>10, <3>3, <4>1
    <3>4. CASE x = a /\ y \in DOMAIN N
      <4>1. After(N, a) <= y
        BY <3>1, <3>4 DEF Tiled, Disjoint
      <4> QED BY <1>1, <1>2, <1>10, <3>1, <3>4, <4>1
    <3>5. CASE y = b /\ x = a
      BY <1>2, <1>10, <3>5
    <3>6. CASE y = b /\ x \in DOMAIN N \ {a}
      <4>1. ~ a < x
        <5>1. a < x => After(N, a) <= x
          BY <3>6 DEF Tiled, Disjoint
        <5> QED BY <1>1, <1>2, <3>1, <3>6, <5>1
      <4>2. After(N, x) <= a
        BY <1>1, <3>1, <3>6, <4>1 DEF Tiled, Disjoint
      <4> QED BY <1>1, <1>2, <1>10, <3>1, <3>6, <4>2
    <3> QED BY <1>2, <1>6, <3>2, <3>3, <3>4, <3>5, <3>6
  <2>3. Covered(M)
    <3> SUFFICES ASSUME NEW x \in Start .. End - 1
                 PROVE  \E y \in DOMAIN M : y <= x /\ x < After(M, y)
      BY DEF Covered
    <3>1. PICK y \in DOMAIN N : y <= x /\ x < After(N, y)
      BY DEF Tiled, Covered
    <3>2. CASE y # a
      BY <1>6, <1>10, <3>1, <3>2
    <3>3. CASE y = a /\ x < b
      BY <1>6, <1>10, <3>1, <3>3
    <3>4. CASE y = a /\ ~ x < b
      BY <1>2, <1>6, <1>10, <3>1, <3>4, ArenaAssumption
    <3> QED BY <3>2, <3>3, <3>4
  <2> QED BY <2>1, <2>2, <2>3 DEF Tiled
<1>12. Linked(M)
  <2>1. Start \in DOMAIN N /\ M[Start].prev = NULL
    <3>1. Start \in DOMAIN N
      BY FirstBlock
    <3>2. Start # N[a].next
      BY <1>1, Neighbours, ArenaAssumption DEF NULL
    <3> QED BY <1>8, <1>9, <3>1, <3>2 DEF Linked
  <2>2. ASSUME NEW x \in DOMAIN N \ {a}
        PROVE  IF After(M, x) = End THEN M[x].next = NULL
               ELSE M[x].next = After(M, x) /\ M[M[x].next].prev = x
    <3>1. CASE After(N, x) = End
      BY <1>9, <1>10, <2>2, <3>1 DEF Linked
    <3>2. CASE After(N, x) # End
      <4>1. /\ N[x].next = After(N, x) /\ N[x].next \in DOMAIN N /\ N[N[x].next].prev = x
        BY <3>2, Neighbours
      <4>2. N[x].next # N[a].next
        <5>1. N[x].next # NULL
          BY <3>2, Neighbours
        <5>2. N[a].next # NULL => N[N[a].next].prev = a
          BY Neighbours
        <5> QED BY <4>1, <5>1, <5>2
      <4>3. M[N[x].next].prev = x
        BY <1>8, <1>9, <4>1, <4>2
      <4> QED BY <1>9, <1>10, <3>2, <4>1, <4>3
    <3> QED BY <3>1, <3>2
  <2>3. b # End
    BY <1>1, <1>2
  <2>4. After(M, b) = End => M[b].next = NULL
    BY <1>8, <1>10 DEF Linked
  <2>5. After(M, b) # End => M[b].next = After(M, b) /\ M[M[b].next].prev = b
    <3>1. SUFFICES ASSUME After(M, b) # End PROVE M[b].next = After(M, b) /\ M[M[b].next].prev = b
      OBVIOUS
    <3>2. N[a].next = After(N, a) /\ N[a].next \in DOMAIN N /\ N[a].next # a
      BY <1>10, <3>1, <1>1, Neighbours
    <3>3. M[N[a].next].prev = b
      BY <1>9, <3>2
    <3> QED BY <1>8, <1>10, <3>2, <3>3
  <2>6. After(M, a) # End /\ M[a].next = After(M, a) /\ M[M[a].next].prev = a
    BY <1>8, <1>10, <2>3
  <2>7. ASSUME NEW x \in DOMAIN M
        PROVE  IF After(M, x) = End THEN M[x].next = NULL
               ELSE M[x].next = After(M, x) /\ M[M[x].next].prev = x
    BY <1>6, <2>2, <2>4, <2>5, <2>6
  <2> QED BY <2>1, <2>7 DEF Linked
<1> QED BY <1>2, <1>3, <1>6, <1>8, <1>9, <1>11, <1>12 DEF IsSplit

LEMMA MergeKeeps ==
    ASSUME NEW N, Tiled(N), Linked(N), NEW a \in DOMAIN N,
           NEW b, b = N[a].next, b # NULL, NEW M, M = Merge(N, a)
    PROVE  IsMerge(N, a, b, M)
<1>1. /\ a \in Nat /\ N[a].size \in Nat /\ After(N, a) \in Nat /\ HDR \in Nat \ {0}
      /\ After(N, a) = a + HDR + N[a].size /\ After(N, a) <= End /\ End \in Nat /\ Start <= a
      /\ NULL = 0 /\ NULL \in Nat
  BY BlockBehind, ArenaAssumption DEF After, Tiled, InRegion, NULL
<1>2. /\ b = After(N, a) /\ b \in DOMAIN N /\ a < b /\ N[b].prev = a
  BY Neighbours
<1>3. /\ b \in Nat /\ N[b].size \in Nat /\ After(N, b) \in Nat
      /\ After(N, b) = b + HDR + N[b].size /\ After(N, b) <= End
  BY <1>2, BlockBehind DEF After
<1>4. /\ (After(N, b) = End => N[b].next = NULL)
      /\ (After(N, b) # End => /\ N[b].next = After(N, b) /\ N[b].next \in DOMAIN N
                              /\ b < N[b].next /\ N[N[b].next].prev = b)
  BY <1>2, Neighbours
<1>5. N[b].next # a /\ N[b].next # b
  BY <1>1, <1>2, <1>3, <1>4, Neighbours, ArenaAssumption DEF Tiled, InRegion
<1>6. \A x \in DOMAIN N : N[x] \in ArenaNode
  BY DEF Tiled, InRegion
<1>7. /\ DOMAIN M = DOMAIN N \ {b}
      /\ M[a] = [N[a] EXCEPT !.next = N[b].next, !.size = N[a].size + N[b].size + HDR]
      /\ \A x \in DOMAIN N \ {a, b} :
            M[x] = IF x = N[b].next THEN [N[x] EXCEPT !.prev = a] ELSE N[x]
  BY <1>1, <1>2 DEF Merge
<1>8. /\ M[a] \in ArenaNode
      /\ M[a].next = N[b].next /\ M[a].size = N[a].size + N[b].size + HDR
      /\ M[a].isFree = N[a].isFree /\ M[a].prev = N[a].prev
  <2>1. N[a] \in ArenaNode /\ N[b] \in ArenaNode
    BY <1>2, <1>6
  <2>2. N[b].next \in Nat /\ N[a].size + N[b].size + HDR \in Nat
    BY <1>1, <1>3, <2>1 DEF ArenaNode
  <2> QED BY <1>7, <2>1, <2>2 DEF ArenaNode
<1>9. \A x \in DOMAIN N \ {a, b} :
        /\ M[x] \in ArenaNode
        /\ M[x].size = N[x].size /\ M[x].isFree = N[x].isFree /\ M[x].next = N[x].next
        /\ M[x].prev = IF x = N[b].next THEN a ELSE N[x].prev
  <2> SUFFICES ASSUME NEW x \in DOMAIN N \ {a, b}
               PROVE  /\ M[x] \in ArenaNode
                      /\ M[x].size = N[x].size /\ M[x].isFree = N[x].isFree
                      /\ M[x].next = N[x].next
                      /\ M[x].prev = IF x = N[b].next THEN a ELSE N[x].prev
    OBVIOUS
  <2>1. N[x] \in ArenaNode
    BY <1>6
  <2>2. CASE x = N[b].next
    <3>1. M[x] = [N[x] EXCEPT !.prev = a]
      BY <1>7, <2>2
    <3> QED BY <1>1, <2>1, <2>2, <3>1 DEF ArenaNode
  <2>3. CASE x # N[b].next
    BY <1>7, <2>1, <2>3
  <2> QED BY <2>2, <2>3
<1>10. /\ After(M, a) = After(N, b)
       /\ \A x \in DOMAIN N \ {a, b} : After(M, x) = After(N, x)
  BY <1>1, <1>2, <1>3, <1>8, <1>9 DEF After
<1>11. Tiled(M)
  <2>1. InRegion(M)
    <3> SUFFICES ASSUME NEW x \in DOMAIN M
                 PROVE  x \in Nat /\ Start <= x /\ M[x] \in ArenaNode /\ After(M, x) <= End
      BY DEF InRegion
    <3>1. CASE x = a
      BY <1>1, <1>3, <1>8, <1>10, <3>1
    <3>2. CASE x \in DOMAIN N \ {a, b}
      BY <1>9, <1>10, <3>2 DEF Tiled, InRegion
    <3> QED BY <1>7, <3>1, <3>2
  <2>2. Disjoint(M)
    <3> SUFFICES ASSUME NEW x \in DOMAIN N \ {b}, NEW y \in DOMAIN N \ {b}, x < y
                 PROVE  After(M, x) <= y
      BY <1>7 DEF Disjoint
    <3>1. CASE x # a
      <4>1. After(N, x) <= y
        BY <3>1 DEF Tiled, Disjoint
      <4> QED BY <1>10, <3>1, <4>1
    <3>2. CASE x = a
      <4>1. y \in Nat /\ After(N, a) <= y
        BY <3>2, BlockBehind DEF Tiled, Disjoint
      <4>2. b < y
        BY <1>2, <1>3, <4>1
      <4>3. After(N, b) <= y
        BY <1>2, <4>2 DEF Tiled, Disjoint
      <4> QED BY <1>10, <3>2, <4>3
    <3> QED BY <3>1, <3>2
  <2>3. Covered(M)
    <3> SUFFICES ASSUME NEW x \in Start .. End - 1
                 PROVE  \E y \in DOMAIN M : y <= x /\ x < After(M, y)
      BY DEF Covered
    <3>1. PICK y \in DOMAIN N : y <= x /\ x < After(N, y)
      BY DEF Tiled, Covered
    <3>2. CASE y \notin {a, b}
      BY <1>7, <1>10, <3>1, <3>2
    <3>3. CASE y \in {a, b}
      <4>1. a <= x /\ x < After(N, b)
        BY <1>1, <1>2, <1>3, <3>1, <3>3, ArenaAssumption
      <4> QED BY <1>2, <1>3, <1>7, <1>10, <4>1, <1>1
    <3> QED BY <3>2, <3>3
  <2> QED BY <2>1, <2>2, <2>3 DEF Tiled
<1>12. Linked(M)
  <2>1. M[Start].prev = NULL
    <3>1. Start \in DOMAIN N /\ Start # b
      BY <1>1, <1>2, <1>3, FirstBlock, ArenaAssumption
    <3>2. Start # N[b].next
      BY <1>1, <1>2, <1>3, <1>4, ArenaAssumption
    <3> QED BY <1>8, <1>9, <3>1, <3>2 DEF Linked
  <2>2. ASSUME NEW x \in DOMAIN N \ {a, b}
        PROVE  IF After(M, x) = End THEN M[x].next = NULL
               ELSE M[x].next = After(M, x) /\ M[M[x].next].prev = x
    <3>1. CASE After(N, x) = End
      BY <1>9, <1>10, <2>2, <3>1 DEF Linked
    <3>2. CASE After(N, x) # End
      <4>1. /\ N[x].next = After(N, x) /\ N[x].next \in DOMAIN N /\ N[N[x].next].prev = x
        BY <3>2, Neighbours
      <4>2. N[x].next # b
        BY <1>2, <4>1
      <4>3. N[x].next # N[b].next
        BY <1>1, <1>2, <1>4, <4>1, BlockBehind
      <4>4. M[N[x].next].prev = x
        BY <1>8, <1>9, <4>1, <4>2, <4>3
      <4> QED BY <1>9, <1>10, <3>2, <4>1, <4>4
    <3> QED BY <3>1, <3>2
  <2>3. After(M, a) = End => M[a].next = NULL
    BY <1>4, <1>8, <1>10
  <2>4. ASSUME After(M, a) # End
        PROVE  M[a].next = After(M, a) /\ M[M[a].next].prev = a
    <3>1. N[b].next = After(N, b) /\ N[b].next \in DOMAIN N \ {a, b}
      BY <1>4, <1>5, <1>10, <2>4
    <3>2. M[N[b].next].prev = a
      BY <1>9, <3>1
    <3> QED BY <1>8, <1>10, <3>1, <3>2
  <2> QED BY <1>7, <2>1, <2>2, <2>3, <2>4 DEF Linked
<1> QED BY <1>2, <1>7, <1>8, <1>9, <1>11, <1>12, <1>1 DEF IsMerge

(* Moving the header behind a block is merging and splitting again. *)
LEMMA ShiftIsSplit ==
    ASSUME NEW N, Tiled(N), Linked(N), NEW a \in DOMAIN N, N[a].next # NULL,
           NEW n \in Nat, n <= N[a].size + N[N[a].next].size
    PROVE  /\ Shift(N, a, n) = Split(Merge(N, a), a, n, N[N[a].next].isFree)
           /\ n + HDR <= Merge(N, a)[a].size
<1> DEFINE b == N[a].next
           c == a + HDR + n
           K == Merge(N, a)
<1>1. /\ a \in Nat /\ N[a].size \in Nat /\ HDR \in Nat \ {0} /\ N[a] \in ArenaNode
  BY BlockBehind, ArenaAssumption DEF Tiled, InRegion
<1>2. /\ b = After(N, a) /\ b \in DOMAIN N /\ a < b /\ N[b].prev = a
      /\ N[b].size \in Nat /\ N[b] \in ArenaNode /\ N[b].next # a
  <2>1. b = After(N, a) /\ b \in DOMAIN N /\ a < b /\ N[b].prev = a
    BY Neighbours
  <2>2. b \in Nat /\ N[b].size \in Nat /\ N[b] \in ArenaNode
    BY <2>1, BlockBehind DEF Tiled, InRegion
  <2>3. N[b].next # a
    <3>1. CASE N[b].next = NULL
      BY <1>1, <3>1, ArenaAssumption DEF NULL, Tiled, InRegion
    <3>2. CASE N[b].next # NULL
      BY <1>1, <2>1, <2>2, <3>2, Neighbours
    <3> QED BY <3>1, <3>2
  <2> QED BY <2>1, <2>2, <2>3
<1>3. /\ DOMAIN K = DOMAIN N \ {b}
      /\ K[a] = [N[a] EXCEPT !.next = N[b].next, !.size = N[a].size + N[b].size + HDR]
      /\ \A x \in DOMAIN N \ {a, b} :
            K[x] = IF x = N[b].next THEN [N[x] EXCEPT !.prev = a] ELSE N[x]
  BY <1>1, <1>2 DEF Merge
<1> HIDE DEF K, b
<1>4. K[a].size = N[a].size + N[b].size + HDR /\ K[a].next = N[b].next
  BY <1>1, <1>3 DEF ArenaNode
<1>5. n + HDR <= K[a].size
  BY <1>1, <1>2, <1>4 DEF b
<1>6. K[a].size - (n + HDR) = N[b].size + N[a].size - n
  BY <1>1, <1>2, <1>4
<1>7. c # a /\ c = a + HDR + n
  BY <1>1
<1> HIDE DEF c
<1>8. [N[b] EXCEPT !.size = N[b].size + N[a].size - n] =
      [next |-> K[a].next, prev |-> a, size |-> K[a].size - (n + HDR), isFree |-> N[b].isFree]
  BY <1>2, <1>4, <1>6 DEF ArenaNode
<1>9. [N[a] EXCEPT !.next = c, !.size = n] = [K[a] EXCEPT !.next = c, !.size = n]
  BY <1>1, <1>3 DEF ArenaNode
<1>10. \A x \in DOMAIN N \ {a, b} : x = N[b].next =>
        [N[x] EXCEPT !.prev = c] = [K[x] EXCEPT !.prev = c]
  <2>1. \A x \in DOMAIN N : N[x] \in ArenaNode
    BY DEF Tiled, InRegion
  <2> QED BY <1>3, <2>1 DEF ArenaNode
<1> DEFINE L(x) == CASE x = c -> [N[b] EXCEPT !.size = N[b].size + N[a].size - n]
                     [] x = a -> [N[a] EXCEPT !.next = c, !.size = n]
                     [] x \notin {a, c} /\ x = N[b].next -> [N[x] EXCEPT !.prev = c]
                     [] OTHER -> N[x]
           R(x) == CASE x = c -> [next |-> K[a].next, prev |-> a,
                                  size |-> K[a].size - (n + HDR), isFree |-> N[b].isFree]
                     [] x = a -> [K[a] EXCEPT !.next = c, !.size = n]
                     [] x \notin {a, c} /\ x = K[a].next -> [K[x] EXCEPT !.prev = c]
                     [] OTHER -> K[x]
<1>11. \A x \in (DOMAIN N \ {b}) \cup {c} : L(x) = R(x)
  <2> SUFFICES ASSUME NEW x \in (DOMAIN N \ {b}) \cup {c} PROVE L(x) = R(x)
    OBVIOUS
  <2>1. CASE x = c
    BY <1>7, <1>8, <2>1
  <2>2. CASE x = a
    BY <1>7, <1>9, <2>2
  <2>3. CASE x \in DOMAIN N \ {a, b, c} /\ x = N[b].next
    BY <1>4, <1>10, <2>3
  <2>4. CASE x \in DOMAIN N \ {a, b, c} /\ x # N[b].next
    <3>1. K[x] = N[x]
      BY <1>3, <2>4
    <3> QED BY <1>4, <2>4, <3>1
  <2> QED BY <2>1, <2>2, <2>3, <2>4
<1>12. Shift(N, a, n) = [x \in (DOMAIN N \ {b}) \cup {c} |-> L(x)]
  BY DEF Shift, b, c
<1>13. Split(K, a, n, N[b].isFree) = [x \in (DOMAIN N \ {b}) \cup {c} |-> R(x)]
  BY <1>3 DEF Split, c
<1> HIDE DEF L, R
<1>14. Shift(N, a, n) = Split(K, a, n, N[b].isFree)
  BY <1>11, <1>12, <1>13
<1> QED BY <1>5, <1>14 DEF b, K

-----------------------------------------------------------------------------
(* What the calls do to a whole list. *)

WholeList(N) == Tiled(N) /\ Linked(N) /\ Merged(N)
InUse(N) == {x \in DOMAIN N : ~N[x].isFree}
AreaOf(N, a) == [at |-> a + HDR, len |-> N[a].size]

(* Block a, in use, has n units now, and the other blocks in use are as before. *)
IsResized(N, a, n, M) ==
    /\ WholeList(M) /\ InUse(M) = InUse(N) /\ M[a].size = n
    /\ \A x \in InUse(N) \ {a} : M[x].size = N[x].size

LEMMA AreasAreBlocks ==
    ASSUME NEW N PROVE AreasOf(N) = {AreaOf(N, a) : a \in InUse(N)}
BY DEF AreasOf, AreaOf, InUse

(* Distinct blocks head distinct areas. *)
LEMMA AreasDiffer ==
    ASSUME NEW N, NEW M, NEW a \in Nat, NEW b \in Nat, AreaOf(N, a) = AreaOf(M, b)
    PROVE  a = b
<1>1. AreaOf(N, a).at = a + HDR /\ AreaOf(M, b).at = b + HDR
  BY DEF AreaOf
<1> QED BY <1>1, ArenaAssumption

(* If the blocks in use change by one block, so do the areas. *)
LEMMA AreasAdded ==
    ASSUME NEW N, NEW M, NEW a, InUse(M) = InUse(N) \cup {a},
           \A x \in InUse(N) : M[x].size = N[x].size
    PROVE  AreasOf(M) = AreasOf(N) \cup {AreaOf(M, a)}
<1>1. \A x \in InUse(N) : AreaOf(M, x) = AreaOf(N, x)
  BY DEF AreaOf
<1> QED BY <1>1, AreasAreBlocks

LEMMA AreasRemoved ==
    ASSUME NEW N, NEW M, InUse(N) \subseteq Nat, NEW a \in InUse(N),
           InUse(M) = InUse(N) \ {a},
           \A x \in InUse(M) : M[x].size = N[x].size
    PROVE  AreasOf(M) = AreasOf(N) \ {AreaOf(N, a)}
<1>1. \A x \in InUse(M) : AreaOf(M, x) = AreaOf(N, x)
  BY DEF AreaOf
<1>2. \A x \in InUse(N) : AreaOf(N, x) = AreaOf(N, a) => x = a
  BY AreasDiffer
<1> QED BY <1>1, <1>2, AreasAreBlocks

LEMMA AreasResized ==
    ASSUME NEW N, NEW M, InUse(N) \subseteq Nat, NEW a \in InUse(N),
           InUse(M) = InUse(N),
           \A x \in InUse(N) \ {a} : M[x].size = N[x].size
    PROVE  AreasOf(M) = (AreasOf(N) \ {AreaOf(N, a)}) \cup {AreaOf(M, a)}
<1>1. \A x \in InUse(N) \ {a} : AreaOf(M, x) = AreaOf(N, x)
  BY DEF AreaOf
<1>2. \A x \in InUse(N) : AreaOf(N, x) = AreaOf(N, a) => x = a
  BY AreasDiffer
<1> QED BY <1>1, <1>2, AreasAreBlocks

(* What lies within a block is apart from the areas of all others. *)
LEMMA FitsInBlock ==
    ASSUME NEW N, Tiled(N), NEW a \in DOMAIN N, NEW x \in Nat, NEW k \in Nat,
           a + HDR <= x, x + k <= After(N, a),
           NEW S, \A s \in S : \E b \in DOMAIN N \ {a} : s = AreaOf(N, b)
    PROVE  H!Fits([at |-> x, len |-> k], S)
<1>1. /\ a \in Nat /\ After(N, a) \in Nat /\ After(N, a) <= End /\ Start <= a
      /\ HDR \in Nat /\ Start \in Nat /\ End \in Nat
  BY BlockBehind, ArenaAssumption DEF Tiled, InRegion
<1>2. Start + HDR <= x /\ x + k <= End
  BY <1>1
<1>3. ASSUME NEW s \in S PROVE H!Apart([at |-> x, len |-> k], s)
  <2>1. PICK b \in DOMAIN N \ {a} : s = AreaOf(N, b)
    BY <1>3
  <2>2. /\ s.at = b + HDR /\ s.len = N[b].size
        /\ b \in Nat /\ N[b].size \in Nat /\ After(N, b) = b + HDR + N[b].size
    BY <2>1, BlockBehind DEF AreaOf, After
  <2>3. CASE b < a
    <3>1. After(N, b) <= a
      BY <2>3 DEF Tiled, Disjoint
    <3> QED BY <1>1, <2>2, <3>1 DEF H!Apart
  <2>4. CASE a < b
    <3>1. After(N, a) <= b
      BY <2>4 DEF Tiled, Disjoint
    <3> QED BY <1>1, <2>2, <3>1 DEF H!Apart
  <2> QED BY <1>1, <2>1, <2>2, <2>3, <2>4
<1> QED BY <1>2, <1>3 DEF H!Fits

(* The search fails only when there is no room: as free neighbours are       *)
(* merged, all the room between two areas in use is one free block.         *)
LEMMA NoFitNoRoom ==
    ASSUME NEW N, WholeList(N), NEW n \in Nat, Fitting(N, n) = {}
    PROVE  ~H!Room(n, AreasOf(N))
<1>1. Tiled(N) /\ Linked(N) /\ Merged(N)
  BY DEF WholeList
<1> SUFFICES ASSUME NEW x \in Start .. End, H!Fits([at |-> x, len |-> n], AreasOf(N))
             PROVE  FALSE
  BY DEF H!Room, H!Addr
<1>2. /\ Start \in Nat /\ End \in Nat /\ HDR \in Nat \ {0} /\ x \in Nat
      /\ Start + HDR <= x /\ x + n <= End
  BY ArenaAssumption DEF H!Fits
<1>3. ASSUME NEW b \in InUse(N)
      PROVE  x + n + HDR <= b + HDR \/ b + HDR + N[b].size + HDR <= x
  <2>1. AreaOf(N, b) \in AreasOf(N)
    BY AreasAreBlocks
  <2>2. H!Apart([at |-> x, len |-> n], AreaOf(N, b))
    BY <2>1 DEF H!Fits
  <2> QED BY <2>2 DEF H!Apart, AreaOf
<1>4. x - HDR \in Start .. End - 1
  BY <1>2
<1>5. PICK a \in DOMAIN N : a <= x - HDR /\ x - HDR < After(N, a)
  BY <1>1, <1>4 DEF Tiled, Covered
<1>6. /\ a \in Nat /\ N[a].size \in Nat /\ After(N, a) = a + HDR + N[a].size
      /\ After(N, a) <= End
  BY <1>1, BlockBehind DEF After
<1>7. N[a].isFree
  <2> SUFFICES ASSUME a \in InUse(N) PROVE FALSE
    BY <1>1 DEF InUse, Tiled, InRegion, ArenaNode
  <2> QED BY <1>2, <1>3, <1>5, <1>6
<1>8. N[a].size < n
  BY <1>2, <1>6, <1>7 DEF Fitting
<1>9. After(N, a) < x + n
  BY <1>2, <1>5, <1>6, <1>8
<1>10. N[a].next # NULL /\ N[a].next = After(N, a) /\ N[a].next \in DOMAIN N
  BY <1>1, <1>2, <1>6, <1>9, Neighbours
<1>11. N[a].next \in InUse(N)
  BY <1>1, <1>7, <1>10 DEF InUse, Merged
<1> QED BY <1>2, <1>3, <1>5, <1>6, <1>9, <1>10, <1>11, BlockBehind, <1>1

(* __osMalloc_NoLock: the block found is in use, a free rest behind it. *)
LEMMA TakenKeeps ==
    ASSUME NEW N, WholeList(N), NEW n \in Nat, NEW a \in Fitting(N, n)
    PROVE  /\ WholeList(Taken(N, a, n))
           /\ InUse(Taken(N, a, n)) = InUse(N) \cup {a}
           /\ \A x \in InUse(N) : Taken(N, a, n)[x].size = N[x].size
           /\ a \notin InUse(N) /\ a \in DOMAIN N
           /\ Taken(N, a, n)[a].size \in n .. n + HDR
           /\ Taken(N, a, n)[a].size <= N[a].size
<1>0. TRUE \in BOOLEAN /\ FALSE \in BOOLEAN
  OBVIOUS
<1>1. Tiled(N) /\ Linked(N) /\ Merged(N) /\ a \in DOMAIN N /\ N[a].isFree /\ n <= N[a].size
  BY DEF WholeList, Fitting
<1>2. N[a].size \in Nat /\ HDR \in Nat \ {0} /\ a \in Nat
  BY <1>1, BlockBehind, ArenaAssumption
<1>3. a \notin InUse(N)
  BY <1>1 DEF InUse
<1>4. \A x \in DOMAIN N : N[x].next # NULL => N[x].next \in DOMAIN N /\ N[x].next # x
  <2> SUFFICES ASSUME NEW x \in DOMAIN N, N[x].next # NULL
               PROVE  N[x].next \in DOMAIN N /\ N[x].next # x
    OBVIOUS
  <2>1. x \in Nat
    BY <1>1, BlockBehind
  <2> QED BY <1>1, <2>1, Neighbours
<1>5. CASE Parts(N, a, n)
  <2> DEFINE b == a + HDR + n
             K == Split(N, a, n, TRUE)
             M == SetFree(K, a, FALSE)
  <2>1. n + HDR <= N[a].size
    BY <1>2, <1>5 DEF Parts
  <2>0. b = a + HDR + n
    OBVIOUS
  <2>a. K = Split(N, a, n, TRUE) /\ M = SetFree(K, a, FALSE)
    OBVIOUS
  <2>4. Taken(N, a, n) = M
    BY <1>5 DEF Taken
  <2> HIDE DEF b, K, M
  <2>b. IsSplit(N, a, n, TRUE, b, K)
    BY <1>0, <1>1, <2>0, <2>1, <2>a, SplitKeeps
  <2>2. /\ Tiled(K) /\ Linked(K) /\ DOMAIN K = DOMAIN N \cup {b} /\ b \notin DOMAIN N
        /\ K[a].size = n /\ K[b].isFree /\ K[b].next = N[a].next /\ K[a].next = b
        /\ \A x \in DOMAIN N \ {a} :
             K[x].size = N[x].size /\ (K[x].isFree <=> N[x].isFree) /\ K[x].next = N[x].next
    BY <2>b DEF IsSplit
  <2>d. a \in DOMAIN K /\ Tiled(K) /\ Linked(K)
    BY <1>1, <2>2
  <2>c. IsSetFree(K, a, FALSE, M)
    BY <1>0, <2>a, <2>d, SetFreeKeeps
  <2>3. /\ Tiled(M) /\ Linked(M) /\ DOMAIN M = DOMAIN K
        /\ \A x \in DOMAIN K : M[x].size = K[x].size /\ M[x].next = K[x].next
        /\ \A x \in DOMAIN K \ {a} : M[x].isFree <=> K[x].isFree
        /\ ~M[a].isFree
    BY <2>c DEF IsSetFree
  <2>5. Merged(M)
    <3> SUFFICES ASSUME NEW x \in DOMAIN M, M[x].isFree, M[x].next # NULL
                 PROVE  ~M[M[x].next].isFree
      BY DEF Merged
    <3>1. x # a
      BY <2>3
    <3>2. CASE x = b
      <4>1. M[x].next = N[a].next
        BY <2>2, <2>3, <3>2
      <4>2. N[a].next \in DOMAIN N \ {a} /\ ~N[N[a].next].isFree
        BY <1>1, <1>4, <4>1 DEF Merged
      <4> QED BY <2>2, <2>3, <4>1, <4>2
    <3>3. CASE x \in DOMAIN N \ {a}
      <4>1. M[x].next = N[x].next /\ N[x].isFree
        BY <2>2, <2>3, <3>3
      <4>2. N[x].next \in DOMAIN N /\ ~N[N[x].next].isFree
        BY <1>1, <1>4, <3>3, <4>1 DEF Merged
      <4> QED BY <2>2, <2>3, <4>1, <4>2
    <3> QED BY <2>2, <2>3, <3>1, <3>2, <3>3
  <2>6. InUse(M) = InUse(N) \cup {a}
    BY <1>1, <2>2, <2>3 DEF InUse
  <2>7. \A x \in InUse(N) : M[x].size = N[x].size
    BY <1>3, <2>2, <2>3 DEF InUse
  <2>8. M[a].size = n
    BY <1>1, <2>2, <2>3
  <2> QED BY <1>1, <1>2, <1>3, <2>3, <2>4, <2>5, <2>6, <2>7, <2>8 DEF WholeList
<1>6. CASE ~Parts(N, a, n)
  <2> DEFINE M == SetFree(N, a, FALSE)
  <2>a. M = SetFree(N, a, FALSE)
    OBVIOUS
  <2>2. Taken(N, a, n) = M
    BY <1>6 DEF Taken
  <2> HIDE DEF M
  <2>b. IsSetFree(N, a, FALSE, M)
    BY <1>0, <1>1, <2>a, SetFreeKeeps
  <2>1. /\ Tiled(M) /\ Linked(M) /\ DOMAIN M = DOMAIN N
        /\ \A x \in DOMAIN N : M[x].size = N[x].size /\ M[x].next = N[x].next
        /\ \A x \in DOMAIN N \ {a} : M[x].isFree <=> N[x].isFree
        /\ ~M[a].isFree
    BY <2>b DEF IsSetFree
  <2>3. Merged(M)
    BY <1>1, <1>4, <2>1 DEF Merged
  <2>4. InUse(M) = InUse(N) \cup {a} /\ \A x \in InUse(N) : M[x].size = N[x].size
    BY <1>1, <2>1 DEF InUse
  <2>5. M[a].size \in n .. n + HDR
    BY <1>1, <1>2, <1>6, <2>1 DEF Parts
  <2> QED BY <1>1, <1>2, <1>3, <2>1, <2>2, <2>3, <2>4, <2>5 DEF WholeList
<1> QED BY <1>5, <1>6

(* __osMallocR: the same from the end of the block found. *)
LEMMA TakenRKeeps ==
    ASSUME NEW N, WholeList(N), NEW n \in Nat, NEW a \in Fitting(N, n)
    PROVE  /\ WholeList(TakenR(N, a, n))
           /\ InUse(TakenR(N, a, n)) = InUse(N) \cup {PlaceR(N, a, n)}
           /\ \A x \in InUse(N) : TakenR(N, a, n)[x].size = N[x].size
           /\ a \notin InUse(N) /\ a \in DOMAIN N
           /\ PlaceR(N, a, n) \in Nat /\ a <= PlaceR(N, a, n)
           /\ TakenR(N, a, n)[PlaceR(N, a, n)].size \in n .. n + HDR
           /\ PlaceR(N, a, n) + HDR + TakenR(N, a, n)[PlaceR(N, a, n)].size <= After(N, a)
<1>0. TRUE \in BOOLEAN /\ FALSE \in BOOLEAN
  OBVIOUS
<1>1. Tiled(N) /\ Linked(N) /\ Merged(N) /\ a \in DOMAIN N /\ N[a].isFree /\ n <= N[a].size
  BY DEF WholeList, Fitting
<1>2. /\ N[a].size \in Nat /\ HDR \in Nat \ {0} /\ a \in Nat
      /\ After(N, a) = a + HDR + N[a].size
  BY <1>1, BlockBehind, ArenaAssumption DEF After
<1>3. a \notin InUse(N)
  BY <1>1 DEF InUse
<1>4. \A x \in DOMAIN N : N[x].next # NULL => N[x].next \in DOMAIN N
  BY <1>1, Neighbours
<1>5. CASE Parts(N, a, n)
  <2> DEFINE k == N[a].size - (n + HDR)
             b == a + HDR + k
             M == Split(N, a, k, FALSE)
  <2>1. k \in Nat /\ k + HDR <= N[a].size /\ b = a + (N[a].size - n) /\ N[a].size - (k + HDR) = n
    BY <1>1, <1>2, <1>5 DEF Parts
  <2>2. PlaceR(N, a, n) = b /\ TakenR(N, a, n) = M
    BY <1>5, <2>1 DEF PlaceR, TakenR
  <2>0. b = a + HDR + k
    OBVIOUS
  <2>a. M = Split(N, a, k, FALSE)
    OBVIOUS
  <2> HIDE DEF k, b, M
  <2>b. IsSplit(N, a, k, FALSE, b, M)
    BY <1>0, <1>1, <2>0, <2>1, <2>a, SplitKeeps
  <2>3. /\ Tiled(M) /\ Linked(M) /\ DOMAIN M = DOMAIN N \cup {b} /\ b \notin DOMAIN N
        /\ b \in Nat
        /\ M[a].isFree /\ M[a].next = b
        /\ M[b].size = N[a].size - (k + HDR) /\ ~M[b].isFree
        /\ \A x \in DOMAIN N \ {a} :
             M[x].size = N[x].size /\ (M[x].isFree <=> N[x].isFree) /\ M[x].next = N[x].next
    BY <1>1, <2>b DEF IsSplit
  <2>4. Merged(M)
    <3> SUFFICES ASSUME NEW x \in DOMAIN M, M[x].isFree, M[x].next # NULL
                 PROVE  ~M[M[x].next].isFree
      BY DEF Merged
    <3>1. CASE x \in {a, b}
      BY <2>3, <3>1
    <3>2. CASE x \in DOMAIN N \ {a}
      <4>1. M[x].next = N[x].next /\ N[x].isFree
        BY <2>3, <3>2
      <4>2. N[x].next \in DOMAIN N /\ ~N[N[x].next].isFree
        BY <1>1, <1>4, <3>2, <4>1 DEF Merged
      <4> QED BY <1>1, <2>3, <4>1, <4>2
    <3> QED BY <2>3, <3>1, <3>2
  <2>5. InUse(M) = InUse(N) \cup {b}
    BY <1>1, <2>3 DEF InUse
  <2>6. \A x \in InUse(N) : M[x].size = N[x].size
    BY <1>3, <2>3 DEF InUse
  <2>7. M[b].size \in n .. n + HDR /\ b + HDR + M[b].size <= After(N, a) /\ a <= b
    BY <1>1, <1>2, <2>1, <2>3
  <2> QED BY <1>1, <1>3, <2>2, <2>3, <2>4, <2>5, <2>6, <2>7 DEF WholeList
<1>6. CASE ~Parts(N, a, n)
  <2>1. TakenR(N, a, n) = Taken(N, a, n) /\ PlaceR(N, a, n) = a
    BY <1>6 DEF TakenR, Taken, PlaceR
  <2>2. Taken(N, a, n)[a].size \in Nat /\ Taken(N, a, n)[a].size <= N[a].size
    BY <1>2, TakenKeeps
  <2>3. a + HDR + Taken(N, a, n)[a].size <= After(N, a)
    BY <1>2, <2>2
  <2> QED BY <1>2, <2>1, <2>3, TakenKeeps
<1> QED BY <1>5, <1>6

IsMarkedFree(N, a, F) ==
    /\ Tiled(F) /\ Linked(F) /\ DOMAIN F = DOMAIN N /\ F[a].isFree
    /\ \A x \in DOMAIN N : F[x].size = N[x].size /\ F[x].next = N[x].next
    /\ \A x \in DOMAIN N \ {a} : F[x].isFree <=> N[x].isFree

IsFreedBehind(N, a, M) ==
    /\ Tiled(M) /\ Linked(M) /\ a \in DOMAIN M /\ M[a].isFree
    /\ DOMAIN M \subseteq DOMAIN N
    /\ \A x \in DOMAIN N : x < a => x \in DOMAIN M
    /\ \A x \in DOMAIN M \ {a} : /\ M[x].size = N[x].size /\ M[x].next = N[x].next
                                /\ (M[x].isFree <=> N[x].isFree)
    /\ \A x \in DOMAIN N \ DOMAIN M : N[x].isFree
    /\ \A x \in DOMAIN M :
         M[x].isFree /\ M[x].next # NULL /\ M[M[x].next].isFree => M[x].next = a

LEMMA MarkedFree ==
    ASSUME NEW N, Tiled(N), Linked(N), NEW a \in DOMAIN N
    PROVE  IsMarkedFree(N, a, SetFree(N, a, TRUE))
<1> DEFINE F == SetFree(N, a, TRUE)
<1>1. TRUE \in BOOLEAN /\ F = SetFree(N, a, TRUE)
  OBVIOUS
<1> HIDE DEF F
<1>2. IsSetFree(N, a, TRUE, F)
  BY <1>1, SetFreeKeeps
<1>3. IsMarkedFree(N, a, F)
  BY <1>2 DEF IsSetFree, IsMarkedFree
<1> QED BY <1>1, <1>3

(* The first half of __osFree_NoLock: block a is free and merged with the one *)
(* behind it; only the block before a may still have to be merged.          *)
LEMMA FreedBehind ==
    ASSUME NEW N, WholeList(N), NEW a \in InUse(N), NEW F, IsMarkedFree(N, a, F),
           NEW M, M = IF FreeNext(N, a) THEN Merge(F, a) ELSE F
    PROVE  IsFreedBehind(N, a, M)
<1>1. Tiled(N) /\ Linked(N) /\ Merged(N) /\ a \in DOMAIN N /\ ~N[a].isFree
  BY DEF WholeList, InUse
<1>4. /\ Tiled(F) /\ Linked(F) /\ DOMAIN F = DOMAIN N /\ F[a].isFree
      /\ \A x \in DOMAIN N : F[x].size = N[x].size /\ F[x].next = N[x].next
      /\ \A x \in DOMAIN N \ {a} : F[x].isFree <=> N[x].isFree
  BY DEF IsMarkedFree
<1>2. M = IF FreeNext(N, a) THEN Merge(F, a) ELSE F
  OBVIOUS
<1>5. \A x \in DOMAIN N : N[x].next # NULL => N[x].next \in DOMAIN N /\ N[x].next # x
  <2> SUFFICES ASSUME NEW x \in DOMAIN N, N[x].next # NULL
               PROVE  N[x].next \in DOMAIN N /\ N[x].next # x
    OBVIOUS
  <2>1. x \in Nat
    BY <1>1, BlockBehind
  <2> QED BY <1>1, <2>1, Neighbours
<1>6. CASE FreeNext(N, a)
  <2> DEFINE b == F[a].next
  <2>1. /\ b = N[a].next /\ b # NULL /\ N[b].isFree /\ b \in DOMAIN N /\ a < b
        /\ a \in Nat /\ b \in Nat
    BY <1>1, <1>4, <1>6, Neighbours, BlockBehind DEF FreeNext
  <2>2. b = F[a].next
    OBVIOUS
  <2> HIDE DEF b
  <2>3. IsMerge(F, a, b, M)
    BY <1>1, <1>2, <1>4, <1>6, <2>1, <2>2, MergeKeeps
  <2>4. /\ Tiled(M) /\ Linked(M) /\ DOMAIN M = DOMAIN N \ {b}
        /\ M[a].isFree /\ M[a].next = N[b].next /\ b # a
        /\ \A x \in DOMAIN M \ {a} : /\ M[x].size = N[x].size /\ M[x].next = N[x].next
                                    /\ (M[x].isFree <=> N[x].isFree)
    BY <1>4, <2>1, <2>3 DEF IsMerge
  <2>5. \A x \in DOMAIN N : x < a => x \in DOMAIN M
    <3> SUFFICES ASSUME NEW x \in DOMAIN N, x < a PROVE x # b
      BY <2>4
    <3> QED BY <2>1
  <2>6. ASSUME NEW x \in DOMAIN M, M[x].isFree, M[x].next # NULL, M[M[x].next].isFree
        PROVE  M[x].next = a
    <3>1. CASE x = a
      <4>1. N[b].next \in DOMAIN N /\ N[b].next # b /\ ~N[N[b].next].isFree
        BY <1>1, <1>5, <2>1, <2>4, <2>6, <3>1 DEF Merged
      <4>2. N[b].next # a
        <5>1. b < N[b].next
          BY <1>1, <2>1, <2>4, <2>6, <3>1, Neighbours
        <5> QED BY <2>1, <5>1
      <4> QED BY <2>4, <2>6, <3>1, <4>1, <4>2
    <3>2. CASE x # a
      <4>1. N[x].isFree /\ N[x].next = M[x].next /\ x \in DOMAIN N
        BY <2>4, <2>6, <3>2
      <4>2. N[x].next \in DOMAIN N /\ ~N[N[x].next].isFree
        BY <1>1, <1>5, <2>6, <4>1 DEF Merged
      <4>3. N[x].next # b
        BY <2>1, <4>2
      <4> QED BY <2>4, <2>6, <4>1, <4>2, <4>3
    <3> QED BY <3>1, <3>2
  <2> QED BY <1>1, <2>1, <2>4, <2>5, <2>6 DEF IsFreedBehind
<1>7. CASE ~FreeNext(N, a)
  <2>1. M = F
    BY <1>2, <1>7
  <2>2. ASSUME NEW x \in DOMAIN M, M[x].isFree, M[x].next # NULL, M[M[x].next].isFree
        PROVE  M[x].next = a
    <3>1. CASE x = a
      <4>1. N[a].next # NULL /\ N[a].next \in DOMAIN N \ {a} /\ N[a].next = After(N, a)
        BY <1>1, <1>4, <1>5, <2>1, <2>2, <3>1, Neighbours
      <4>2. N[N[a].next].isFree
        BY <1>4, <2>1, <2>2, <3>1, <4>1
      <4> QED BY <1>7, <4>1, <4>2 DEF FreeNext
    <3>2. CASE x # a
      <4>1. N[x].isFree /\ N[x].next = M[x].next /\ x \in DOMAIN N
        BY <1>4, <2>1, <2>2, <3>2
      <4>2. N[x].next \in DOMAIN N /\ ~N[N[x].next].isFree
        BY <1>1, <1>5, <2>2, <4>1 DEF Merged
      <4> QED BY <1>4, <2>1, <2>2, <4>1, <4>2
    <3> QED BY <3>1, <3>2
  <2> QED BY <1>1, <1>4, <2>1, <2>2 DEF IsFreedBehind
<1> QED BY <1>6, <1>7

(* __osFree_NoLock: the list is whole again, and only block a is freed. *)
LEMMA FreedKeeps ==
    ASSUME NEW N, WholeList(N), NEW a \in InUse(N), NEW R, R = Freed(N, a)
    PROVE  /\ WholeList(R) /\ InUse(R) = InUse(N) \ {a}
           /\ \A x \in InUse(R) : R[x].size = N[x].size
<1> DEFINE F == SetFree(N, a, TRUE)
           M == IF FreeNext(N, a) THEN Merge(F, a) ELSE F
<1>1. Tiled(N) /\ Linked(N) /\ Merged(N) /\ a \in DOMAIN N /\ ~N[a].isFree
  BY DEF WholeList, InUse
<1>2. R = IF FreePrev(N, a) THEN Merge(M, N[a].prev) ELSE M
  BY DEF Freed
<1>8. M = IF FreeNext(N, a) THEN Merge(F, a) ELSE F
  OBVIOUS
<1>9. IsMarkedFree(N, a, F)
  BY <1>1, MarkedFree
<1> HIDE DEF F, M
<1>10. IsFreedBehind(N, a, M)
  BY <1>8, <1>9, FreedBehind
<1>3. /\ Tiled(M) /\ Linked(M) /\ a \in DOMAIN M /\ M[a].isFree
      /\ DOMAIN M \subseteq DOMAIN N
      /\ \A x \in DOMAIN N : x < a => x \in DOMAIN M
      /\ \A x \in DOMAIN M \ {a} : /\ M[x].size = N[x].size /\ M[x].next = N[x].next
                                  /\ (M[x].isFree <=> N[x].isFree)
      /\ \A x \in DOMAIN N \ DOMAIN M : N[x].isFree
      /\ \A x \in DOMAIN M :
            M[x].isFree /\ M[x].next # NULL /\ M[M[x].next].isFree => M[x].next = a
  BY <1>10 DEF IsFreedBehind
<1>4. InUse(M) = InUse(N) \ {a}
  BY <1>1, <1>3 DEF InUse
<1>5. a # NULL
  BY <1>1, ArenaAssumption DEF NULL, Tiled, InRegion
<1>6. CASE FreePrev(N, a)
  <2> DEFINE p == N[a].prev
  <2>1. /\ p # NULL /\ p \in DOMAIN N /\ p < a /\ N[p].isFree /\ N[p].next = a
        /\ p \in Nat /\ a \in Nat
    BY <1>1, <1>6, Neighbours, BlockBehind DEF FreePrev
  <2>2. R = Merge(M, p)
    BY <1>2, <1>6
  <2> HIDE DEF p
  <2>3. p \in DOMAIN M /\ p # a /\ M[p].next = a /\ M[p].isFree
    BY <1>3, <2>1
  <2>4. IsMerge(M, p, a, R)
    BY <1>3, <1>5, <2>2, <2>3, MergeKeeps
  <2>5. /\ Tiled(R) /\ Linked(R) /\ DOMAIN R = DOMAIN M \ {a}
        /\ R[p].isFree /\ R[p].next = M[a].next
        /\ \A x \in DOMAIN R \ {p} : /\ R[x].size = M[x].size /\ R[x].next = M[x].next
                                    /\ (R[x].isFree <=> M[x].isFree)
    BY <2>3, <2>4 DEF IsMerge
  <2>6. Merged(R)
    <3> SUFFICES ASSUME NEW x \in DOMAIN R, R[x].isFree, R[x].next # NULL,
                        R[R[x].next].isFree
                 PROVE  FALSE
      BY DEF Merged
    <3>1. CASE x = p
      <4>1. M[a].next \in DOMAIN M /\ a < M[a].next
        BY <1>3, <2>5, <3>1, Neighbours
      <4>2. M[a].next \in Nat
        BY <1>3, <4>1, BlockBehind
      <4>3. M[a].next \notin {a, p}
        BY <2>1, <4>1, <4>2
      <4>4. M[M[a].next].isFree
        BY <2>5, <3>1, <4>1, <4>3
      <4> QED BY <1>3, <2>5, <3>1, <4>3, <4>4
    <3>2. CASE x # p
      <4>1. x \in DOMAIN M /\ x # a /\ M[x].isFree /\ M[x].next = R[x].next
        BY <2>5, <3>2
      <4>2. M[x].next \in DOMAIN M /\ M[M[x].next].prev = x
        BY <1>3, <4>1, Neighbours
      <4>3. M[x].next # a
        <5>1. M[a].prev = p
          BY <1>3, <1>5, <2>3, Neighbours
        <5> QED BY <3>2, <4>2, <5>1
      <4>4. M[M[x].next].isFree
        BY <2>3, <2>5, <4>1, <4>2, <4>3
      <4> QED BY <1>3, <4>1, <4>3, <4>4
    <3> QED BY <3>1, <3>2
  <2>7. InUse(R) = InUse(M)
    BY <1>3, <2>3, <2>5 DEF InUse
  <2>8. \A x \in InUse(R) : R[x].size = N[x].size
    BY <1>3, <2>5 DEF InUse
  <2> QED BY <1>4, <2>5, <2>6, <2>7, <2>8 DEF WholeList
<1>7. CASE ~FreePrev(N, a)
  <2>1. R = M
    BY <1>2, <1>7
  <2>2. Merged(M)
    <3> SUFFICES ASSUME NEW x \in DOMAIN M, M[x].isFree, M[x].next # NULL,
                        M[M[x].next].isFree
                 PROVE  FALSE
      BY DEF Merged
    <3>1. M[x].next = a
      BY <1>3
    <3>2. x < a
      BY <1>3, <3>1, Neighbours
    <3>3. x # a
      BY <1>3, <3>2, BlockBehind
    <3>4. N[x].next = a /\ N[x].isFree /\ x \in DOMAIN N
      BY <1>3, <3>1, <3>3
    <3>5. N[a].prev = x /\ After(N, x) = a /\ x # NULL
      BY <1>1, <1>5, <3>4, Neighbours, ArenaAssumption DEF NULL, Tiled, InRegion
    <3> QED BY <1>7, <3>4, <3>5 DEF FreePrev
  <2>3. \A x \in InUse(R) : R[x].size = N[x].size
    BY <1>3, <2>1 DEF InUse
  <2> QED BY <1>3, <1>4, <2>1, <2>2, <2>3 DEF WholeList
<1> QED BY <1>6, <1>7

(* The header behind block a moves: the block in use gets n units, the free   *)
(* one behind it the rest.                                                  *)
LEMMA ShiftKeeps ==
    ASSUME NEW N, WholeList(N), NEW a \in InUse(N), NEW n \in Nat,
           N[a].next # NULL, N[N[a].next].isFree,
           n <= N[a].size + N[N[a].next].size, NEW M, M = Shift(N, a, n)
    PROVE  IsResized(N, a, n, M)
<1> DEFINE b == N[a].next
           K == Merge(N, a)
           c == a + HDR + n
           free == N[b].isFree
<1>1. Tiled(N) /\ Linked(N) /\ Merged(N) /\ a \in DOMAIN N /\ ~N[a].isFree
  BY DEF WholeList, InUse
<1>2. M = Split(K, a, n, free) /\ n + HDR <= K[a].size
  BY <1>1, ShiftIsSplit
<1>3. b \in DOMAIN N /\ b # NULL /\ b = N[a].next /\ N[b].isFree
      /\ N[b] \in ArenaNode
  BY <1>1, Neighbours DEF Tiled, InRegion
<1>4. free \in BOOLEAN /\ free
  BY <1>3 DEF ArenaNode
<1>5. K = Merge(N, a) /\ c = a + HDR + n
  OBVIOUS
<1> HIDE DEF b, K, c, free
<1>6. IsMerge(N, a, b, K)
  BY <1>1, <1>3, <1>5, MergeKeeps
<1>7. /\ Tiled(K) /\ Linked(K) /\ a \in DOMAIN K /\ DOMAIN K = DOMAIN N \ {b} /\ b # a
      /\ ~K[a].isFree /\ K[a].next = N[b].next
      /\ \A x \in DOMAIN K \ {a} :
            K[x].size = N[x].size /\ (K[x].isFree <=> N[x].isFree) /\ K[x].next = N[x].next
  BY <1>1, <1>6 DEF IsMerge
<1>8. IsSplit(K, a, n, free, c, M)
  BY <1>2, <1>4, <1>5, <1>7, SplitKeeps
<1>9. /\ Tiled(M) /\ Linked(M) /\ c \notin DOMAIN K /\ DOMAIN M = DOMAIN K \cup {c}
      /\ M[a].size = n /\ ~M[a].isFree /\ M[c].isFree /\ M[c].next = K[a].next
      /\ \A x \in DOMAIN K \ {a} :
            M[x].size = K[x].size /\ (M[x].isFree <=> K[x].isFree) /\ M[x].next = K[x].next
  BY <1>4, <1>7, <1>8 DEF IsSplit
<1>10. Merged(M)
  <2> SUFFICES ASSUME NEW x \in DOMAIN M, M[x].isFree, M[x].next # NULL
               PROVE  ~M[M[x].next].isFree
    BY DEF Merged
  <2>1. CASE x = c
    <3>1. M[x].next = N[b].next /\ N[b].next # NULL
      BY <1>7, <1>9, <2>1
    <3>2. N[b].next \in DOMAIN N /\ ~N[N[b].next].isFree
      BY <1>1, <1>3, <3>1, Neighbours DEF Merged
    <3> QED BY <1>3, <1>7, <1>9, <3>1, <3>2
  <2>2. CASE x \in DOMAIN K \ {a}
    <3>1. M[x].next = N[x].next /\ N[x].isFree /\ N[x].next # NULL /\ x \in DOMAIN N
      BY <1>7, <1>9, <2>2
    <3>2. N[x].next \in DOMAIN N /\ ~N[N[x].next].isFree
      BY <1>1, <3>1, Neighbours DEF Merged
    <3>3. N[x].next # b
      BY <1>3, <3>2
    <3> QED BY <1>7, <1>9, <3>1, <3>2, <3>3
  <2> QED BY <1>7, <1>9, <2>1, <2>2
<1>11. InUse(M) = InUse(N)
  BY <1>1, <1>3, <1>7, <1>9 DEF InUse
<1>12. \A x \in InUse(N) \ {a} : M[x].size = N[x].size
  BY <1>3, <1>7, <1>9 DEF InUse
<1> QED BY <1>9, <1>10, <1>11, <1>12 DEF WholeList, IsResized

(* A block in use is cut, and what is behind it is not free. *)
LEMMA ShrinkKeeps ==
    ASSUME NEW N, WholeList(N), NEW a \in InUse(N), NEW n \in Nat, Parts(N, a, n),
           ~(N[a].next # NULL /\ N[N[a].next].isFree), NEW free, free \in BOOLEAN, free,
           NEW M, M = Split(N, a, n, free)
    PROVE  IsResized(N, a, n, M)
<1> DEFINE c == a + HDR + n
<1>1. Tiled(N) /\ Linked(N) /\ Merged(N) /\ a \in DOMAIN N /\ ~N[a].isFree
  BY DEF WholeList, InUse
<1>2. n + HDR <= N[a].size
  BY <1>1, BlockBehind, ArenaAssumption DEF Parts
<1>3. c = a + HDR + n
  OBVIOUS
<1> HIDE DEF c
<1>4. IsSplit(N, a, n, free, c, M)
  BY <1>1, <1>2, <1>3, SplitKeeps
<1>5. /\ Tiled(M) /\ Linked(M) /\ c \notin DOMAIN N /\ DOMAIN M = DOMAIN N \cup {c}
      /\ M[a].size = n /\ ~M[a].isFree /\ M[c].isFree /\ M[c].next = N[a].next
      /\ \A x \in DOMAIN N \ {a} :
            M[x].size = N[x].size /\ (M[x].isFree <=> N[x].isFree) /\ M[x].next = N[x].next
  BY <1>1, <1>4 DEF IsSplit
<1>6. Merged(M)
  <2> SUFFICES ASSUME NEW x \in DOMAIN M, M[x].isFree, M[x].next # NULL
               PROVE  ~M[M[x].next].isFree
    BY DEF Merged
  <2>1. CASE x = c
    <3>1. M[x].next = N[a].next /\ N[a].next # NULL /\ ~N[N[a].next].isFree
      BY <1>5, <2>1
    <3>2. N[a].next \in DOMAIN N
      BY <1>1, <3>1, Neighbours
    <3> QED BY <1>5, <3>1, <3>2
  <2>2. CASE x \in DOMAIN N \ {a}
    <3>1. M[x].next = N[x].next /\ N[x].isFree /\ N[x].next # NULL
      BY <1>5, <2>2
    <3>2. N[x].next \in DOMAIN N /\ ~N[N[x].next].isFree
      BY <1>1, <2>2, <3>1, Neighbours DEF Merged
    <3> QED BY <1>5, <3>1, <3>2
  <2> QED BY <1>5, <2>1, <2>2
<1>7. InUse(M) = InUse(N)
  BY <1>1, <1>5 DEF InUse
<1>8. \A x \in InUse(N) \ {a} : M[x].size = N[x].size
  BY <1>5 DEF InUse
<1> QED BY <1>5, <1>6, <1>7, <1>8 DEF WholeList, IsResized

-----------------------------------------------------------------------------
(* What the calls do to the areas. *)

(* The call that leads from list N to M returned x, an area of n units or a    *)
(* few more, apart from all that were there.                                *)
IsNewArea(N, M, n, x) ==
    /\ x \in H!Addr
    /\ \E k \in n .. n + HDR :
        /\ H!Fits([at |-> x, len |-> k], AreasOf(N))
        /\ AreasOf(M) = AreasOf(N) \cup {[at |-> x, len |-> k]}

LEMMA NewInBlock ==
    ASSUME NEW N, WholeList(N), NEW n \in Nat, NEW a \in DOMAIN N \ InUse(N),
           NEW b \in Nat, NEW M, InUse(M) = InUse(N) \cup {b},
           \A x \in InUse(N) : M[x].size = N[x].size,
           M[b].size \in n .. n + HDR, a <= b, b + HDR + M[b].size <= After(N, a)
    PROVE  IsNewArea(N, M, n, b + HDR)
<1>1. Tiled(N)
  BY DEF WholeList
<1>2. /\ a \in Nat /\ Start <= a /\ After(N, a) \in Nat /\ After(N, a) <= End
      /\ HDR \in Nat /\ Start \in Nat /\ End \in Nat /\ M[b].size \in Nat
  BY <1>1, BlockBehind, ArenaAssumption DEF Tiled, InRegion
<1>3. \A s \in AreasOf(N) : \E x \in DOMAIN N \ {a} : s = AreaOf(N, x)
  BY AreasAreBlocks DEF InUse
<1>4. b + HDR \in Nat /\ a + HDR <= b + HDR /\ b + HDR + M[b].size <= After(N, a)
  BY <1>2
<1>5. H!Fits([at |-> b + HDR, len |-> M[b].size], AreasOf(N))
  BY <1>1, <1>2, <1>3, <1>4, FitsInBlock
<1>6. AreasOf(M) = AreasOf(N) \cup {[at |-> b + HDR, len |-> M[b].size]}
  BY AreasAdded DEF AreaOf
<1>7. b + HDR \in H!Addr
  BY <1>2, <1>4 DEF H!Addr
<1> QED BY <1>5, <1>6, <1>7 DEF IsNewArea

LEMMA TakenGets ==
    ASSUME NEW N, WholeList(N), NEW n \in Nat, NEW a \in Fitting(N, n)
    PROVE  IsNewArea(N, Taken(N, a, n), n, a + HDR)
<1> DEFINE M == Taken(N, a, n)
<1>1. /\ InUse(M) = InUse(N) \cup {a} /\ \A x \in InUse(N) : M[x].size = N[x].size
      /\ a \in DOMAIN N \ InUse(N) /\ M[a].size \in n .. n + HDR /\ M[a].size <= N[a].size
  BY TakenKeeps
<1> HIDE DEF M
<1>2. a \in Nat /\ N[a].size \in Nat /\ M[a].size \in Nat /\ After(N, a) = a + HDR + N[a].size
  BY <1>1, BlockBehind, ArenaAssumption DEF After, WholeList
<1>3. a <= a /\ a + HDR + M[a].size <= After(N, a)
  BY <1>1, <1>2, ArenaAssumption
<1>4. IsNewArea(N, M, n, a + HDR)
  BY <1>1, <1>2, <1>3, NewInBlock
<1> QED BY <1>4 DEF M

LEMMA TakenRGets ==
    ASSUME NEW N, WholeList(N), NEW n \in Nat, NEW a \in Fitting(N, n)
    PROVE  IsNewArea(N, TakenR(N, a, n), n, PlaceR(N, a, n) + HDR)
<1> DEFINE M == TakenR(N, a, n)
           b == PlaceR(N, a, n)
<1>1. /\ InUse(M) = InUse(N) \cup {b} /\ \A x \in InUse(N) : M[x].size = N[x].size
      /\ a \in DOMAIN N \ InUse(N) /\ b \in Nat /\ a <= b
      /\ M[b].size \in n .. n + HDR /\ b + HDR + M[b].size <= After(N, a)
  BY TakenRKeeps
<1> HIDE DEF M, b
<1>2. IsNewArea(N, M, n, b + HDR)
  BY <1>1, NewInBlock
<1> QED BY <1>2 DEF M, b

LEMMA FreedFrees ==
    ASSUME NEW N, WholeList(N), NEW a \in InUse(N)
    PROVE  AreasOf(Freed(N, a)) = AreasOf(N) \ {AreaOf(N, a)}
<1>1. InUse(N) \subseteq Nat
  BY BlockBehind DEF WholeList, InUse
<1> DEFINE M == Freed(N, a)
<1>2. InUse(M) = InUse(N) \ {a} /\ \A x \in InUse(M) : M[x].size = N[x].size
  BY FreedKeeps
<1> HIDE DEF M
<1>3. AreasOf(M) = AreasOf(N) \ {AreaOf(N, a)}
  BY <1>1, <1>2, AreasRemoved
<1> QED BY <1>3 DEF M

LEMMA ResizedFits ==
    ASSUME NEW N, WholeList(N), NEW a \in InUse(N), NEW n \in Nat, NEW M,
           IsResized(N, a, n, M)
    PROVE  /\ H!Fits([at |-> a + HDR, len |-> n], AreasOf(N) \ {AreaOf(N, a)})
           /\ AreasOf(M) =
                (AreasOf(N) \ {AreaOf(N, a)}) \cup {[at |-> a + HDR, len |-> n]}
<1>1. /\ Tiled(M) /\ InUse(M) = InUse(N) /\ M[a].size = n
      /\ \A x \in InUse(N) \ {a} : M[x].size = N[x].size
  BY DEF IsResized, WholeList
<1>2. InUse(N) \subseteq Nat /\ InUse(M) \subseteq DOMAIN M /\ a \in DOMAIN M
  BY <1>1, BlockBehind DEF WholeList, InUse
<1>3. AreasOf(M) = (AreasOf(N) \ {AreaOf(N, a)}) \cup {AreaOf(M, a)}
  BY <1>1, <1>2, AreasResized
<1> DEFINE S == AreasOf(N) \ {AreaOf(N, a)}
<1>4. \A s \in S : \E b \in DOMAIN M \ {a} : s = AreaOf(M, b)
  BY <1>1, <1>2, AreasAreBlocks DEF AreaOf
<1> HIDE DEF S
<1>5. a + HDR \in Nat /\ a + HDR <= a + HDR /\ (a + HDR) + n <= After(M, a)
  BY <1>1, <1>2, ArenaAssumption DEF After
<1>6. H!Fits([at |-> a + HDR, len |-> n], S)
  BY <1>1, <1>2, <1>4, <1>5, FitsInBlock
<1> QED BY <1>1, <1>3, <1>6 DEF S, AreaOf

-----------------------------------------------------------------------------
(* The calls. *)

LEMMA Gets ==
    ASSUME NEW n \in Nat, NEW call, NEW p, NEW x,
           IsNewArea(node, node', n, x), Returned(call, p, n, x)
    PROVE  H!Get(call, p, n, {})
<1>1. PICK k \in n .. n + HDR :
        /\ H!Fits([at |-> x, len |-> k], AreasOf(node))
        /\ AreasOf(node') = AreasOf(node) \cup {[at |-> x, len |-> k]}
  BY DEF IsNewArea
<1>2. x \in H!Addr
  BY DEF IsNewArea
<1>3. H!Returned(call, p, n, x)
  BY DEF Returned, H!Returned
<1>4. AreasOf(node') = (AreasOf(node) \ {}) \cup {[at |-> x, len |-> k]}
  BY <1>1
<1> QED BY <1>1, <1>2, <1>3, <1>4 DEF H!Get

LEMMA GetsNothing ==
    ASSUME NEW n \in Nat, NEW call, NEW p, NEW old, WholeList(node),
           Fitting(node, n) = {}, node' = node, Returned(call, p, n, NULL)
    PROVE  H!Get(call, p, n, old)
<1>1. ~H!Room(n, AreasOf(node))
  BY NoFitNoRoom
<1>2. H!Returned(call, p, n, H!NULL)
  BY DEF Returned, H!Returned, NULL, H!NULL
<1>3. AreasOf(node') = AreasOf(node)
  OBVIOUS
<1> QED BY <1>1, <1>2, <1>3 DEF H!Get

LEMMA MallocStep ==
    ASSUME WholeList(node), NEW n \in Nat, NEW call, __osMalloc_NoLock(call, n)
    PROVE  WholeList(node') /\ H!Get(call, NULL, n, {})
<1>1. CASE \E a \in FirstFit(node, n) :
            node' = Taken(node, a, n) /\ Returned(call, NULL, n, a + HDR)
  <2>1. PICK a \in FirstFit(node, n) :
            node' = Taken(node, a, n) /\ Returned(call, NULL, n, a + HDR)
    BY <1>1
  <2>2. a \in Fitting(node, n)
    BY DEF FirstFit
  <2>3. IsNewArea(node, node', n, a + HDR)
    BY <2>1, <2>2, TakenGets
  <2>4. WholeList(node')
    BY <2>1, <2>2, TakenKeeps
  <2> QED BY <2>1, <2>3, <2>4, Gets
<1>2. CASE Fitting(node, n) = {} /\ node' = node /\ Returned(call, NULL, n, NULL)
  BY <1>2, GetsNothing
<1> QED BY <1>1, <1>2 DEF __osMalloc_NoLock

LEMMA MallocRStep ==
    ASSUME WholeList(node), NEW n \in Nat, __osMallocR(n)
    PROVE  WholeList(node') /\ H!Get("malloc", NULL, n, {})
<1>1. CASE \E a \in LastFit(node, n) :
            /\ node' = TakenR(node, a, n)
            /\ Returned("malloc", NULL, n, PlaceR(node, a, n) + HDR)
  <2>1. PICK a \in LastFit(node, n) :
            /\ node' = TakenR(node, a, n)
            /\ Returned("malloc", NULL, n, PlaceR(node, a, n) + HDR)
    BY <1>1
  <2>2. a \in Fitting(node, n)
    BY DEF LastFit
  <2>3. IsNewArea(node, node', n, PlaceR(node, a, n) + HDR)
    BY <2>1, <2>2, TakenRGets
  <2>4. WholeList(node')
    BY <2>1, <2>2, TakenRKeeps
  <2> QED BY <2>1, <2>3, <2>4, Gets
<1>2. CASE Fitting(node, n) = {} /\ node' = node /\ Returned("malloc", NULL, n, NULL)
  BY <1>2, GetsNothing
<1> QED BY <1>1, <1>2 DEF __osMallocR

(* The area of a block in use, as the abstract heap knows it. *)
LEMMA UsedArea ==
    ASSUME NEW N, NEW a \in InUse(N)
    PROVE  /\ AreaOf(N, a) \in AreasOf(N)
           /\ AreaOf(N, a).at = a + HDR /\ AreaOf(N, a).len = N[a].size
BY AreasAreBlocks DEF AreaOf

LEMMA FreeStep ==
    ASSUME WholeList(node), NEW a \in Allocated, __osFree(a)
    PROVE  WholeList(node') /\ \E s \in AreasOf(node) : H!Free(s)
<1>1. a \in InUse(node)
  BY DEF Allocated, InUse
<1>2. WholeList(node')
  BY <1>1, FreedKeeps DEF __osFree
<1>3. AreasOf(node') = AreasOf(node) \ {AreaOf(node, a)}
  BY <1>1, FreedFrees DEF __osFree
<1>4. H!Returned("free", AreaOf(node, a).at, 0, H!NULL)
  BY <1>1, UsedArea DEF __osFree, Returned, H!Returned, NULL, H!NULL
<1>5. H!Free(AreaOf(node, a))
  BY <1>3, <1>4 DEF H!Free
<1> QED BY <1>1, <1>2, <1>5, UsedArea

LEMMA FreeNothingStep ==
    ASSUME WholeList(node), __osFree_Nothing
    PROVE  WholeList(node') /\ \E p \in H!Addr \cup {H!NULL} : H!FreeNothing(p)
<1>1. node' = node /\ WholeList(node') /\ AreasOf(node') = AreasOf(node)
  BY DEF __osFree_Nothing
<1>2. \A a \in DOMAIN node : a \in Nat /\ a + HDR \in H!Addr
  <2> SUFFICES ASSUME NEW a \in DOMAIN node PROVE a \in Nat /\ a + HDR \in H!Addr
    OBVIOUS
  <2>1. a \in Nat /\ node[a].size \in Nat /\ Start <= a /\ a + HDR + node[a].size <= End
    BY BlockBehind DEF WholeList, Tiled, InRegion, After
  <2> QED BY <2>1, ArenaAssumption DEF H!Addr
<1>3. CASE Returned("free", NULL, 0, NULL)
  <2>1. \A s \in AreasOf(node) : s.at # H!NULL
    <3> SUFFICES ASSUME NEW a \in InUse(node) PROVE AreaOf(node, a).at # H!NULL
      BY AreasAreBlocks
    <3> QED BY <1>2, UsedArea, ArenaAssumption DEF InUse, H!NULL
  <2>2. H!Returned("free", H!NULL, 0, H!NULL)
    BY <1>3 DEF Returned, H!Returned, NULL, H!NULL
  <2>3. H!FreeNothing(H!NULL)
    BY <1>1, <2>1, <2>2 DEF H!FreeNothing
  <2> QED BY <1>1, <2>3
<1>4. CASE \E a \in DOMAIN node \ Allocated : Returned("free", a + HDR, 0, NULL)
  <2>1. PICK a \in DOMAIN node \ Allocated : Returned("free", a + HDR, 0, NULL)
    BY <1>4
  <2>2. \A s \in AreasOf(node) : s.at # a + HDR
    <3> SUFFICES ASSUME NEW b \in InUse(node) PROVE AreaOf(node, b).at # a + HDR
      BY AreasAreBlocks
    <3>1. b # a
      BY DEF InUse, Allocated
    <3> QED BY <1>2, <3>1, UsedArea, ArenaAssumption DEF InUse
  <2>3. H!Returned("free", a + HDR, 0, H!NULL)
    BY <2>1 DEF Returned, H!Returned, NULL, H!NULL
  <2>4. H!FreeNothing(a + HDR)
    BY <1>1, <2>2, <2>3 DEF H!FreeNothing
  <2> QED BY <1>1, <1>2, <2>1, <2>4
<1> QED BY <1>3, <1>4 DEF __osFree_Nothing

(* The block stays where it is. *)
LEMMA ResizedStep ==
    ASSUME WholeList(node), NEW a \in InUse(node), NEW n \in Nat,
           IsResized(node, a, n, node'), Returned("realloc", a + HDR, n, a + HDR)
    PROVE  WholeList(node') /\ H!Resize(AreaOf(node, a), n)
<1> DEFINE s == AreaOf(node, a)
<1>1. s.at = a + HDR /\ s \in AreasOf(node) /\ s = AreaOf(node, a)
  BY UsedArea
<1> HIDE DEF s
<1>2. /\ H!Fits([at |-> s.at, len |-> n], AreasOf(node) \ {s})
      /\ AreasOf(node') = (AreasOf(node) \ {s}) \cup {[at |-> s.at, len |-> n]}
  BY <1>1, ResizedFits
<1>3. H!Returned("realloc", s.at, n, s.at)
  BY <1>1 DEF Returned, H!Returned
<1>4. H!Resize(s, n)
  BY <1>2, <1>3 DEF H!Resize
<1> QED BY <1>1, <1>4 DEF IsResized

LEMMA SameStep ==
    ASSUME WholeList(node), NEW a \in InUse(node), NEW n \in Nat, ReallocSame(a, n)
    PROVE  WholeList(node') /\ H!Resize(AreaOf(node, a), n)
<1>1. IsResized(node, a, n, node')
  BY DEF ReallocSame, IsResized
<1> QED BY <1>1, ResizedStep DEF ReallocSame

LEMMA GrowStep ==
    ASSUME WholeList(node), NEW a \in InUse(node), NEW n \in Nat, ReallocGrow(a, n)
    PROVE  WholeList(node') /\ H!Resize(AreaOf(node, a), n)
<1>1. /\ node[a].next # NULL /\ node[node[a].next].isFree
      /\ n - node[a].size <= node[node[a].next].size /\ node' = Shift(node, a, n)
      /\ Returned("realloc", a + HDR, n, a + HDR)
  BY DEF ReallocGrow, CanGrow, FreeNext
<1>2. node[a].size \in Nat /\ node[node[a].next].size \in Nat
  BY <1>1, BlockBehind, Neighbours DEF WholeList, InUse
<1>3. n <= node[a].size + node[node[a].next].size
  BY <1>1, <1>2
<1>4. IsResized(node, a, n, node')
  BY <1>1, <1>3, ShiftKeeps
<1> QED BY <1>1, <1>4, ResizedStep

LEMMA MoveStep ==
    ASSUME WholeList(node), NEW a \in InUse(node), NEW n \in Nat, ReallocMove(a, n)
    PROVE  WholeList(node') /\ H!Resize(AreaOf(node, a), n)
<1> DEFINE s == AreaOf(node, a)
<1>1. /\ s.at = a + HDR /\ s.len = node[a].size /\ s \in AreasOf(node)
      /\ s = AreaOf(node, a)
  BY UsedArea
<1> HIDE DEF s
<1>2. s.len < n
  BY <1>1 DEF ReallocMove
<1>3. CASE \E b \in FirstFit(node, n) :
            /\ node' = Freed(Taken(node, b, n), a)
            /\ Returned("realloc", a + HDR, n, b + HDR)
  <2>1. PICK b \in FirstFit(node, n) :
            /\ node' = Freed(Taken(node, b, n), a)
            /\ Returned("realloc", a + HDR, n, b + HDR)
    BY <1>3
  <2> DEFINE M == Taken(node, b, n)
  <2>2. b \in Fitting(node, n)
    BY DEF FirstFit
  <2>3. /\ WholeList(M) /\ InUse(M) = InUse(node) \cup {b}
        /\ \A x \in InUse(node) : M[x].size = node[x].size
        /\ b \in DOMAIN node \ InUse(node)
    BY <2>2, TakenKeeps
  <2>4. IsNewArea(node, M, n, b + HDR)
    BY <2>2, TakenGets
  <2>5. node' = Freed(M, a)
    BY <2>1
  <2> HIDE DEF M
  <2>6. a \in InUse(M) /\ AreaOf(M, a) = s
    BY <1>1, <2>3 DEF AreaOf
  <2>7. WholeList(node') /\ AreasOf(node') = AreasOf(M) \ {s}
    BY <2>3, <2>5, <2>6, FreedKeeps, FreedFrees
  <2>8. PICK k \in n .. n + HDR :
            /\ H!Fits([at |-> b + HDR, len |-> k], AreasOf(node))
            /\ AreasOf(M) = AreasOf(node) \cup {[at |-> b + HDR, len |-> k]}
    BY <2>4 DEF IsNewArea
  <2>9. b + HDR \in H!Addr
    BY <2>4 DEF IsNewArea
  <2>10. [at |-> b + HDR, len |-> k] # s
    <3>1. a \in Nat /\ b \in Nat /\ a # b
      BY <2>3, BlockBehind DEF WholeList, InUse
    <3>2. a + HDR # b + HDR
      BY <3>1, ArenaAssumption
    <3> QED BY <1>1, <3>2
  <2>11. AreasOf(node') = (AreasOf(node) \ {s}) \cup {[at |-> b + HDR, len |-> k]}
    BY <2>7, <2>8, <2>10
  <2>12. H!Returned("realloc", s.at, n, b + HDR)
    BY <1>1, <2>1 DEF Returned, H!Returned
  <2>13. H!Get("realloc", s.at, n, {s})
    BY <2>8, <2>9, <2>11, <2>12 DEF H!Get
  <2>14. H!Resize(s, n)
    BY <1>2, <2>13 DEF H!Resize
  <2> QED BY <1>1, <2>7, <2>14
<1>4. CASE Fitting(node, n) = {} /\ node' = node /\ Returned("realloc", a + HDR, n, NULL)
  <2>1. H!Get("realloc", s.at, n, {s})
    BY <1>1, <1>4, GetsNothing
  <2>2. H!Resize(s, n)
    BY <1>2, <2>1 DEF H!Resize
  <2> QED BY <1>1, <1>4, <2>2
<1> QED BY <1>3, <1>4 DEF ReallocMove

LEMMA ShrinkStep ==
    ASSUME WholeList(node), NEW a \in InUse(node), NEW n \in Nat, ReallocShrink(a, n)
    PROVE  WholeList(node') /\ H!Resize(AreaOf(node, a), n)
<1>1. n < node[a].size
  BY DEF ReallocShrink
<1>2. node[a].size \in Nat /\ HDR \in Nat
  BY BlockBehind, ArenaAssumption DEF WholeList, InUse
<1>3. CASE /\ node[a].next # NULL /\ node[node[a].next].isFree
           /\ node' = Shift(node, a, n) /\ Returned("realloc", a + HDR, n, a + HDR)
  <2>1. node[node[a].next].size \in Nat
    BY <1>3, BlockBehind, Neighbours DEF WholeList, InUse
  <2>2. n <= node[a].size + node[node[a].next].size
    BY <1>1, <1>2, <2>1
  <2>3. IsResized(node, a, n, node')
    BY <1>3, <2>2, ShiftKeeps
  <2> QED BY <1>3, <2>3, ResizedStep
<1>4. CASE /\ ~(node[a].next # NULL /\ node[node[a].next].isFree)
           /\ Parts(node, a, n) /\ node' = Split(node, a, n, TRUE)
           /\ Returned("realloc", a + HDR, n, a + HDR)
  <2> DEFINE free == TRUE
  <2>1. free \in BOOLEAN /\ free /\ node' = Split(node, a, n, free)
    BY <1>4
  <2> HIDE DEF free
  <2>2. IsResized(node, a, n, node')
    BY <1>4, <2>1, ShrinkKeeps
  <2> QED BY <1>4, <2>2, ResizedStep
<1>5. CASE ~Parts(node, a, n) /\ node' = node /\ Returned("realloc", a + HDR, n, NULL)
  <2> DEFINE s == AreaOf(node, a)
  <2>1. s.at = a + HDR /\ s.len = node[a].size
    BY UsedArea
  <2> HIDE DEF s
  <2>2. n < s.len /\ s.len <= n + HDR
    BY <1>1, <1>2, <1>5, <2>1 DEF Parts
  <2>3. H!Returned("realloc", s.at, n, H!NULL)
    BY <1>5, <2>1 DEF Returned, H!Returned, NULL, H!NULL
  <2>4. H!Resize(s, n)
    BY <1>5, <2>2, <2>3 DEF H!Resize
  <2> QED BY <1>5, <2>4 DEF s
<1> QED BY <1>3, <1>4, <1>5 DEF ReallocShrink

LEMMA ReallocStep ==
    ASSUME WholeList(node), NEW a \in Allocated, NEW n \in Nat, __osRealloc(a, n)
    PROVE  WholeList(node') /\ H!Realloc(n)
<1>1. a \in InUse(node) /\ AreaOf(node, a) \in AreasOf(node)
  BY UsedArea DEF Allocated, InUse
<1>2. CASE n = 0
  <2>1. ReallocFree(a)
    BY <1>2 DEF __osRealloc
  <2>2. WholeList(node')
    BY <1>1, <2>1, FreedKeeps DEF ReallocFree
  <2>3. AreasOf(node') = AreasOf(node) \ {AreaOf(node, a)}
    BY <1>1, <2>1, FreedFrees DEF ReallocFree
  <2>4. H!Returned("realloc", AreaOf(node, a).at, 0, H!NULL)
    BY <1>1, <2>1, UsedArea DEF ReallocFree, Returned, H!Returned, NULL, H!NULL
  <2> QED BY <1>1, <1>2, <2>2, <2>3, <2>4 DEF H!Realloc
<1>3. CASE n # 0
  <2>1. WholeList(node') /\ H!Resize(AreaOf(node, a), n)
    BY <1>1, <1>3, SameStep, GrowStep, MoveStep, ShrinkStep DEF __osRealloc
  <2> QED BY <1>1, <1>3, <2>1 DEF H!Realloc
<1> QED BY <1>2, <1>3

(* The calls together: the invariant and the step of the abstract heap. *)
LEMMA CallStep ==
    ASSUME WholeList(node), Next
    PROVE  WholeList(node') /\ H!Next
<1>1. \A n \in Sizes : n \in Nat
  BY ArenaAssumption
<1>2. ASSUME NEW n \in Sizes, __osMalloc(n) PROVE WholeList(node') /\ H!Malloc(n)
  <2>1. __osMalloc_NoLock("malloc", n)
    BY <1>2 DEF __osMalloc
  <2>2. WholeList(node') /\ H!Get("malloc", NULL, n, {})
    BY <1>1, <2>1, MallocStep
  <2> QED BY <2>2 DEF H!Malloc, NULL, H!NULL
<1>3. ASSUME NEW n \in Sizes, __osMallocR(n) PROVE WholeList(node') /\ H!Malloc(n)
  <2>1. WholeList(node') /\ H!Get("malloc", NULL, n, {})
    BY <1>1, <1>3, MallocRStep
  <2> QED BY <2>1 DEF H!Malloc, NULL, H!NULL
<1>4. ASSUME NEW n \in Sizes, __osMalloc_NoLock("realloc", n)
      PROVE  WholeList(node') /\ H!Realloc(n)
  <2>1. WholeList(node') /\ H!Get("realloc", NULL, n, {})
    BY <1>1, <1>4, MallocStep
  <2> QED BY <2>1 DEF H!Realloc, NULL, H!NULL
<1>5. ASSUME NEW a \in Allocated, NEW n \in Sizes, __osRealloc(a, n)
      PROVE  WholeList(node') /\ H!Realloc(n)
  BY <1>1, <1>5, ReallocStep
<1> QED BY <1>2, <1>3, <1>4, <1>5, FreeStep, FreeNothingStep DEF Next, H!Next

(* The region as __osMallocAddBlock leaves it. *)
LEMMA WholeAtFirst == Init => WholeList(node) /\ H!Init
<1> SUFFICES ASSUME Init PROVE WholeList(node) /\ H!Init
  OBVIOUS
<1>1. /\ DOMAIN node = {Start} /\ node[Start].next = NULL /\ node[Start].prev = NULL
      /\ node[Start].size = End - Start - HDR /\ node[Start].isFree
      /\ node[Start] \in ArenaNode
  BY ArenaAssumption DEF Init, AddBlock, ArenaNode, NULL
<1>2. After(node, Start) = End
  BY <1>1, ArenaAssumption DEF After
<1>3. Tiled(node)
  <2>1. InRegion(node)
    BY <1>1, <1>2, ArenaAssumption DEF InRegion
  <2>2. Disjoint(node)
    BY <1>1, ArenaAssumption DEF Disjoint
  <2>3. Covered(node)
    BY <1>1, <1>2, ArenaAssumption DEF Covered
  <2> QED BY <2>1, <2>2, <2>3 DEF Tiled
<1>4. Linked(node) /\ Merged(node)
  BY <1>1, <1>2 DEF Linked, Merged
<1>5. AreasOf(node) = {}
  BY <1>1 DEF AreasOf
<1> QED BY <1>3, <1>4, <1>5 DEF WholeList, Init, H!Init, NULL, H!NULL

(* For every region and every size of the header: whatever the calls, the     *)
(* list stays whole (__osMallocAddBlock to __osRealloc).                    *)
THEOREM ArenaWhole == Spec => []Whole
<1>1. Init => WholeList(node)
  BY WholeAtFirst
<1>2. WholeList(node) /\ [Next]_vars => WholeList(node)'
  <2>1. CASE Next
    BY <2>1, CallStep
  <2>2. CASE UNCHANGED vars
    BY <2>2 DEF vars
  <2> QED BY <2>1, <2>2
<1>3. WholeList(node) => Whole
  BY DEF WholeList, Whole
<1> QED BY <1>1, <1>2, <1>3, PTL DEF Spec

(* The calls do to the areas what the abstract heap allows, so no two areas  *)
(* overlap, and NULL is returned only when no hole has room.                *)
THEOREM HeapRefinement == Spec => ImplementsHeap
<1>1. Init => WholeList(node) /\ H!Init
  BY WholeAtFirst
<1>2. WholeList(node) /\ [Next]_vars => WholeList(node)' /\ [H!Next]_(H!vars)
  <2>1. CASE Next
    BY <2>1, CallStep
  <2>2. CASE UNCHANGED vars
    BY <2>2 DEF vars, H!vars
  <2> QED BY <2>1, <2>2
<1> QED BY <1>1, <1>2, PTL DEF Spec, ImplementsHeap, H!Spec
=============================================================================
