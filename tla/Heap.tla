-------------------------------- MODULE Heap --------------------------------
(* What the users of a heap (system_malloc.c, z_malloc.c, debug_malloc.c)   *)
(* may rely on: areas that do not overlap, and NULL only for want of room.  *)
(* Sizes and addresses count units of 16 bytes; an area has HDR units of    *)
(* overhead in front of it.                                                 *)
EXTENDS Integers
CONSTANTS Start, End, HDR, Sizes

NULL == 0
Addr == Start .. End

VARIABLES
    areas,    \* the allocated areas
    last      \* the call that returned last: its arguments and its result

vars == <<areas, last>>

(* Areas a and b, with their overhead, have no unit in common. *)
Apart(a, b) == a.at + a.len + HDR <= b.at \/ b.at + b.len + HDR <= a.at

Fits(a, S) ==
    /\ Start + HDR <= a.at /\ a.at + a.len <= End
    /\ \A b \in S : Apart(a, b)

Room(n, S) == \E x \in Addr : Fits([at |-> x, len |-> n], S)

Returned(call, p, n, r) == last' = [call |-> call, ptr |-> p, n |-> n, ret |-> r]

Init == areas = {} /\ last = [call |-> "init", ptr |-> NULL, n |-> 0, ret |-> NULL]

(* A new area of at least n units takes the place of those in old. *)
Get(call, p, n, old) ==
    \/ \E x \in Addr, k \in n .. n + HDR :
            LET new == [at |-> x, len |-> k] IN
            /\ Returned(call, p, n, x)
            /\ areas' = (areas \ old) \cup {new} /\ Fits(new, areas)
    \/ Returned(call, p, n, NULL) /\ ~Room(n, areas) /\ areas' = areas

Malloc(n) == Get("malloc", NULL, n, {})

Free(a) == Returned("free", a.at, 0, NULL) /\ areas' = areas \ {a}

(* NULL, or an area that is free already. *)
FreeNothing(p) ==
    /\ Returned("free", p, 0, NULL) /\ areas' = areas
    /\ \A a \in areas : a.at # p

(* The area has n units and stays where it is, or grows elsewhere, or         *)
(* cannot shrink because what is left over is too small to be of use.       *)
Resize(a, n) ==
    \/ LET kept == [at |-> a.at, len |-> n] IN
       /\ Returned("realloc", a.at, n, a.at) /\ Fits(kept, areas \ {a})
       /\ areas' = (areas \ {a}) \cup {kept}
    \/ a.len < n /\ Get("realloc", a.at, n, {a})
    \/ /\ n < a.len /\ a.len <= n + HDR
       /\ Returned("realloc", a.at, n, NULL) /\ areas' = areas

Realloc(n) ==
    \/ Get("realloc", NULL, n, {})
    \/ \E a \in areas :
            IF n = 0 THEN Returned("realloc", a.at, 0, NULL) /\ areas' = areas \ {a}
            ELSE Resize(a, n)

Next ==
    \/ \E n \in Sizes : Malloc(n) \/ Realloc(n)
    \/ \E a \in areas : Free(a)
    \/ \E p \in Addr \cup {NULL} : FreeNothing(p)

Spec == Init /\ [][Next]_vars
=============================================================================
