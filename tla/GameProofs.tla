----------------------------- MODULE GameProofs -----------------------------
(***************************************************************************)
(* What is loaded, drawn and freed in the game never collides, for any     *)
(* rooms, objects and loading planes, as long as the loads are faster than *)
(* the player, the arena has room for an actor and the player gets round    *)
(* no plane (round, the case of the @bug in z_en_holl.c).                  *)
(***************************************************************************)
EXTENDS Game, FiniteSetTheorems, TLAPS

(* The states of a bank entry, a room, a request, an actor. *)
Entry == [object : Object, state : {"asked", "sent", "answered", "loaded"}]
ARoom == [num : Room \cup {NoRoom}, segment : {NULL, 0, 1}]
Request ==
    [what : {"room", "object"}, at : Nat, file : Room \cup Object]
AnActor ==
    [object : Object \cup {Keep}, plane : Plane \cup {0}, objBankIndex : Nat, room : Room,
     init : BOOLEAN, live : BOOLEAN, destroy : BOOLEAN, isDrawn : BOOLEAN,
     used : Object \cup {Keep}, loading : BOOLEAN]
-----------------------------------------------------------------------------
(* The actors and their lists.                                              *)

Injective(s) == \A i, j \in DOMAIN s : s[i] = s[j] => i = j
Elements(s) == {s[i] : i \in DOMAIN s}

(* The two lists hold each actor once; the planes' actors are those of the  *)
(* door list, live until they are destroyed, one for each entry with a     *)
(* negative id.                                                             *)
Planes(ac) == {c \in DOMAIN ac.actor : ac.actor[c].plane # 0}

ActorsWhole(ac) ==
    /\ DOMAIN ac.actor \subseteq Block /\ \A c \in DOMAIN ac.actor : ac.actor[c] \in AnActor
    /\ ac = [actor |-> [c \in DOMAIN ac.actor |-> ac.actor[c]], prop |-> ac.prop, door |-> ac.door,
             entered |-> ac.entered, freed |-> ac.freed]
    /\ ac.prop \in Seq(Block) /\ ac.door \in Seq(Block)
    /\ ac.entered \in [Plane -> BOOLEAN] /\ ac.freed \subseteq Block
    /\ Injective(ac.prop) /\ Elements(ac.prop) = DOMAIN ac.actor \ Planes(ac)
    /\ Injective(ac.door) /\ Elements(ac.door) = Planes(ac)

PlanesWhole(ac) ==
    /\ \A c \in Planes(ac) :
           LET a == ac.actor[c]
           IN  a.objBankIndex = 0 /\ ~a.init /\ a.live = a.destroy /\ a.used = a.object
    /\ \A c \in DOMAIN ac.actor \ Planes(ac) : ~ac.actor[c].loading
    /\ \A c, d \in Planes(ac) :
           ac.actor[c].plane = ac.actor[d].plane /\ ac.actor[c].live /\ ac.actor[d].live => c = d
    /\ \A p \in Plane : ac.entered[p] <=> \E c \in Planes(ac) : ac.actor[c].plane = p /\ ac.actor[c].live

(* The actors Actor_UpdateAll has still to come to.                         *)
Before(s, c, d) == \E i, j \in DOMAIN s : i < j /\ s[i] = c /\ s[j] = d
Rest(ac, c) == {c} \cup {d \in DOMAIN ac.actor : Before(Order(ac), c, d)}
ToCome == IF at = NULL THEN {} ELSE Rest(actorCtx, at)
-----------------------------------------------------------------------------
(* The rooms and their buffers.                                             *)

RoomsWhole ==
    LET cur == roomCtx.cur
        prev == roomCtx.prev
        free == roomCtx.unk_30
    IN  /\ roomCtx = [cur |-> cur, prev |-> prev, status |-> roomCtx.status, unk_30 |-> free,
                      unk_34 |-> roomCtx.unk_34]
        /\ cur \in ARoom /\ prev \in ARoom /\ cur.num # NoRoom
        /\ free \in {0, 1} /\ roomCtx.status \in {0, 1}
        /\ cur.segment \in {NULL, 1 - free} /\ prev.segment \in {NULL, free}
        /\ prev.num = NoRoom => prev.segment = NULL
        /\ roomCtx.status = 1 => prev.num # NoRoom /\ cur.segment = NULL /\ roomCtx.unk_34 = 1 - free
        /\ DOMAIN buffer = {0, 1}
        /\ cur.segment # NULL => buffer[cur.segment] = cur.num
        /\ prev.segment # NULL => buffer[prev.segment] = prev.num
        /\ arrived \in BOOLEAN
        /\ roomCtx.status = 1 /\ arrived => buffer[1 - free] = cur.num

(* At most one room is on its way, and the objects asked for before it come *)
(* before it.                                                               *)
RequestsWhole ==
    /\ dma \in Seq(Request) /\ bank \in Seq(Entry)
    /\ \A k \in DOMAIN dma : dma[k].what = "room" =>
           /\ roomCtx.status = 1 /\ ~arrived
           /\ dma[k].at = roomCtx.unk_34 /\ dma[k].file = roomCtx.cur.num
    /\ \A k \in DOMAIN dma : dma[k].what = "object" =>
           /\ dma[k].at \in DOMAIN bank
           /\ bank[dma[k].at] = [object |-> dma[k].file, state |-> "sent"]
    /\ \A k, l \in DOMAIN dma :
           /\ dma[k].what = "room" /\ dma[l].what = "room" => k = l
           /\ dma[k].what = "object" /\ dma[l].what = "object" /\ dma[k].at = dma[l].at => k = l
           /\ dma[k].what = "room" /\ dma[l].what = "object" => l < k
    /\ roomCtx.status = 1 /\ arrived => \A k \in DOMAIN dma : dma[k].what # "object"
    /\ roomCtx.status = 1 => \A i \in DOMAIN bank : bank[i].state # "asked"
-----------------------------------------------------------------------------
(* Where the player may be when which rooms are there.                      *)

InZone(p) == Place(p) \in 1 .. 4
Own(p) == Sides[p][Side(p)]
Other(p) == Sides[p][1 - Side(p)]

Both(r, q) == roomCtx.cur.num = r /\ roomCtx.prev.num = q
Alone(r) == roomCtx.status = 0 /\ Both(r, NoRoom)

Possible(p) ==
    IF p \in Stepped THEN Alone(Own(p)) \/ Alone(Other(p)) \/ Both(Own(p), Other(p))
    ELSE \/ Alone(Own(p)) \/ Both(Other(p), Own(p))
         \/ (InInner(p) /\ roomCtx.status = 0 /\ Both(Own(p), Other(p)))

(* Once the plane's actor has been updated.                                 *)
Settled(p) ==
    IF p \in Stepped
    THEN \/ Alone(Own(p)) \/ (InInner(p) /\ Alone(Other(p)))
         \/ (roomCtx.status = 1 /\ Both(Own(p), Other(p)))
    ELSE IF InInner(p) THEN Both(Other(p), Own(p))
    ELSE Alone(Own(p)) \/ (roomCtx.status = 1 /\ Both(Other(p), Own(p)))

PlayerWhole ==
    /\ player \in 0 .. 5 * Cardinality(Plane)
    /\ \A p \in Plane : /\ Place(p) = 0 => Alone(Sides[p][0])
                        /\ Place(p) = 5 => Alone(Sides[p][1])
                        /\ InZone(p) => Possible(p)
    /\ pc \in {"start", "picture", "draw"} => \A p \in Plane : InZone(p) => Settled(p)
    /\ pc = "update" => \A p \in Plane : InZone(p) =>
           Settled(p) \/ (\E c \in ToCome : actorCtx.actor[c].plane = p /\ actorCtx.actor[c].live)

LoadingWhole ==
    \A c \in Planes(actorCtx) :
        LET a == actorCtx.actor[c]
        IN  a.live => /\ a.loading = (/\ a.plane \in Stepped /\ InZone(a.plane)
                                     /\ roomCtx.prev.num # NoRoom)
                      /\ (a.loading => a.room = roomCtx.cur.num)

EnteredWhole ==
    \A p \in Plane, s \in {0, 1} :
        \/ Sides[p][s] = roomCtx.prev.num
        \/ roomCtx.status = 0 /\ Sides[p][s] = roomCtx.cur.num
        => actorCtx.entered[p]

(* The places where no plane asks for a room now. *)
NoneAsks ==
    \A p \in Plane : /\ p \in Stepped /\ InOuter(p) => roomCtx.cur.num = Own(p)
                     /\ p \notin Stepped /\ InInner(p) => roomCtx.prev.num # NoRoom

AskedWhole == (\E i \in DOMAIN bank : bank[i].state = "asked") => pc \notin {"room", "picture"} /\ NoneAsks
-----------------------------------------------------------------------------
(* The order of pc, and what is still to be done in a frame.                *)
PassWhole ==
    /\ pc \in {"start", "room", "actors", "update", "draw", "picture"}
    /\ pc = "update" => at \in DOMAIN actorCtx.actor /\ ToCome \cap actorCtx.freed = {}
    /\ pc \in {"start", "room", "actors", "picture"} => actorCtx.freed = {}
    /\ nbSetupActors \in Seq(Object)

(* Actors wait for their object only where the planes ask for no room until *)
(* they are initialised or deleted.                                         *)
Waiting(r) ==
    \A p \in Plane : InZone(p) =>
        IF p \in Stepped THEN roomCtx.cur.num = Own(p) ELSE Both(Other(p), Own(p)) /\ r = Other(p)

InitsWhole ==
    /\ nbSetupActors # <<>> =>
           /\ pc \in {"start", "draw", "picture", "room", "actors"} /\ roomCtx.status = 0
           /\ \/ Waiting(roomCtx.cur.num)
              \/ pc \in {"room", "actors"} /\ \A i \in DOMAIN bank : bank[i].state = "loaded"
    /\ \A c \in DOMAIN actorCtx.actor :
           LET a == actorCtx.actor[c]
           IN  IF a.init
               THEN /\ roomCtx.status = 0 /\ ~a.isDrawn
                    /\ a.objBankIndex \in DOMAIN bank /\ bank[a.objBankIndex].object = a.object
                    /\ \/ Waiting(a.room)
                       \/ /\ bank[a.objBankIndex].state = "loaded"
                          /\ pc \in {"room", "actors"} \/ (pc = "update" /\ c \in ToCome)
               ELSE a.used = a.object /\ (a.live => Object_IsLoaded(bank, a.objBankIndex))

(* What the RCP reads.                                                      *)
ListWhole ==
    /\ list = [rooms |-> list.rooms, objects |-> list.objects, actors |-> list.actors]
    /\ list.rooms \subseteq {0, 1}
    /\ \A c \in list.actors : /\ c \in DOMAIN actorCtx.actor /\ actorCtx.actor[c].isDrawn
                              /\ c \notin actorCtx.freed
    /\ roomCtx.status = 1 => roomCtx.unk_34 \notin list.rooms
    /\ roomCtx.status = 0 /\ roomCtx.unk_30 \in list.rooms /\ roomCtx.prev.num = NoRoom =>
           pc \in {"update", "draw"} /\ NoneAsks
    /\ \A i \in list.objects :
           \/ Object_IsLoaded(bank, i)
           \/ /\ pc \in {"actors", "update", "draw"}
              /\ i \in DOMAIN bank => bank[i].state = "asked"

GameInv ==
    /\ ActorsWhole(actorCtx) /\ PlanesWhole(actorCtx)
    /\ RoomsWhole /\ RequestsWhole /\ PlayerWhole /\ LoadingWhole /\ EnteredWhole /\ AskedWhole
    /\ PassWhole /\ InitsWhole /\ ListWhole
HasRoom == FreeBlocks(actorCtx) # {}
-----------------------------------------------------------------------------
(* Numbers.                                                                 *)

LEMMA LeastNumber ==
    ASSUME NEW S \in SUBSET Nat, S # {}
    PROVE  \E n \in S : \A m \in S : n <= m
<1> DEFINE R == OpToRel(<, Nat)
<1>1. \A m, n \in Nat : m < n => <<m, n>> \in R
    BY DEF OpToRel
<1>2. \E n \in S : \A m \in S : <<m, n>> \notin R
    BY NatLessThanWellFounded, WFMin
<1> HIDE DEF R
<1>3. PICK n \in S : \A m \in S : <<m, n>> \notin R
    BY <1>2
<1>4. ASSUME NEW m \in S PROVE n <= m
  <2>1. m \in Nat /\ n \in Nat /\ ~(m < n)
      BY <1>1, <1>3
  <2> QED
      BY <2>1
<1> QED
    BY <1>4

LEMMA MaxIs ==
    ASSUME NEW n \in Nat, NEW T \in SUBSET (1 .. n), NEW k \in T, \A x \in T : x <= k
    PROVE  Max(T) = k
<1>1. \E x \in T : \A y \in T : x >= y
    OBVIOUS
<1>2. Max(T) \in T /\ \A y \in T : Max(T) >= y
    BY <1>1 DEF Max
<1>3. \A x \in T : x \in Int /\ x <= k
    OBVIOUS
<1>4. \A x \in T : x >= k => x = k
    BY <1>3
<1> HIDE DEF Max
<1> QED
    BY <1>2, <1>4

LEMMA MaxOfInterval ==
    ASSUME NEW n \in Nat, NEW k \in 1 .. n
    PROVE  Max(1 .. k) = k /\ (1 .. k) \ {k} = 1 .. k - 1
<1>1. 1 .. k \in SUBSET (1 .. n) /\ k \in 1 .. k /\ \A x \in 1 .. k : x <= k
    OBVIOUS
<1>2. Max(1 .. k) = k
    BY <1>1, MaxIs
<1>3. (1 .. k) \ {k} = 1 .. k - 1
    OBVIOUS
<1> QED
    BY <1>2, <1>3

LEMMA MaxIn ==
    ASSUME NEW n \in Nat, NEW T \in SUBSET (1 .. n), T # {}
    PROVE  Max(T) \in T /\ \A x \in T : x <= Max(T)
<1> DEFINE S == {k \in Nat : \A x \in T : x <= k}
<1>1. S \in SUBSET Nat /\ n \in S
    OBVIOUS
<1>2. PICK k \in S : \A m \in S : k <= m
    BY <1>1, LeastNumber
<1>3. k \in T
  <2>1. SUFFICES ASSUME k \notin T PROVE FALSE
      OBVIOUS
  <2>2. PICK x \in T : TRUE
      OBVIOUS
  <2>3. k - 1 \in S
      BY <1>2, <2>1, <2>2
  <2> QED
      BY <1>2, <2>3
<1> QED
    BY <1>2, <1>3, MaxIs

LEMMA MinIsLeast ==
    ASSUME NEW S \in SUBSET Nat, S # {}
    PROVE  Min(S) \in S /\ \A x \in S : Min(S) <= x
BY LeastNumber DEF Min

LEMMA Numbers ==
    /\ Cardinality(Plane) \in Nat \ {0} /\ 1 \in Plane
    /\ \A p : p \in Plane <=> p \in Nat /\ 1 <= p /\ p <= Cardinality(Plane)
<1>1. IsFiniteSet(Plane) /\ Plane # {} /\ Plane = 1 .. Cardinality(Plane)
    BY ActorsAssumption
<1>2. Cardinality(Plane) \in Nat
    BY <1>1, FS_CardinalityType
<1> QED
    BY <1>1, <1>2
-----------------------------------------------------------------------------
(* The folds.  Folded is what each of the three does with an element.       *)

Folded(k, e, w, x) ==
    IF k = "only" THEN IF x \in e THEN Append(w, x) ELSE w
    ELSE IF k = "planes"
    THEN IF w.entered[x] \/ ~Adjoins(x, e[2]) THEN w
         ELSE [Actor_Spawn(w, e[1], e[2], Keep, x) EXCEPT !.entered[x] = TRUE]
    ELSE Actor_Spawn(w, e[1], e[2], x, 0)

(* g[T] is the fold over the elements of s at the places in T.              *)
Solves(g, k, e, b, s, n) ==
    g = [T \in SUBSET (1 .. n) |->
            IF T = {} THEN b ELSE Folded(k, e, g[T \ {Max(T)}], s[Max(T)])]

(* V lists the values after 0, 1, ... elements.                             *)
Runs(V, k, e, b, s, n) ==
    V[0] = b /\ \A i \in 1 .. n : V[i] = Folded(k, e, V[i - 1], s[i])

LEMMA Solvable ==
    ASSUME NEW k, NEW e, NEW b, NEW s, NEW n \in Nat
    PROVE  \E g : Solves(g, k, e, b, s, n)
<1> DEFINE Bad == {m \in Nat : ~\E g : Solves(g, k, e, b, s, m)}
<1>1. SUFFICES ASSUME Bad # {} PROVE FALSE
    OBVIOUS
<1>2. PICK m \in Bad : \A j \in Bad : m <= j
    BY <1>1, LeastNumber
<1>3. CASE m = 0
  <2> DEFINE g == [T \in SUBSET (1 .. 0) |-> b]
  <2>1. SUBSET (1 .. 0) = {{}}
      OBVIOUS
  <2>2. Solves(g, k, e, b, s, 0)
      BY <2>1 DEF Solves
  <2> QED
      BY <1>2, <1>3, <2>2
<1>4. CASE m # 0
  <2>1. m - 1 \in Nat /\ m - 1 \notin Bad
      BY <1>2, <1>4
  <2>2. PICK h : Solves(h, k, e, b, s, m - 1)
      BY <2>1
  <2> DEFINE g == [T \in SUBSET (1 .. m) |->
                      IF m \in T THEN Folded(k, e, h[T \ {m}], s[m]) ELSE h[T]]
  <2>3. ASSUME NEW T \in SUBSET (1 .. m)
        PROVE  g[T] = IF T = {} THEN b ELSE Folded(k, e, g[T \ {Max(T)}], s[Max(T)])
    <3>1. CASE m \in T
      <4>1. Max(T) = m
          BY <3>1, MaxIs
      <4>2. T \ {m} \in SUBSET (1 .. m) /\ m \notin T \ {m}
          OBVIOUS
      <4>3. g[T \ {m}] = h[T \ {m}] /\ g[T] = Folded(k, e, h[T \ {m}], s[m])
          BY <3>1, <4>2
      <4> QED
          BY <3>1, <4>1, <4>3
    <3>2. CASE m \notin T
      <4>1. T \in SUBSET (1 .. m - 1) /\ g[T] = h[T]
          BY <1>2, <3>2
      <4>2. h[T] = IF T = {} THEN b ELSE Folded(k, e, h[T \ {Max(T)}], s[Max(T)])
          BY <2>2, <4>1 DEF Solves
      <4>3. T # {} => g[T \ {Max(T)}] = h[T \ {Max(T)}]
          BY <3>2
      <4> QED
          BY <4>1, <4>2, <4>3
    <3> QED
        BY <3>1, <3>2
  <2>4. Solves(g, k, e, b, s, m)
    <3>1. g = [T \in SUBSET (1 .. m) |-> g[T]]
        OBVIOUS
    <3> HIDE DEF g
    <3> QED
        BY <2>3, <3>1 DEF Solves
  <2> QED
      BY <1>2, <2>4
<1> QED
    BY <1>3, <1>4

LEMMA SolutionRuns ==
    ASSUME NEW k, NEW e, NEW b, NEW s, NEW n \in Nat, NEW g, Solves(g, k, e, b, s, n)
    PROVE  \E V : Runs(V, k, e, b, s, n) /\ V[n] = g[1 .. n]
<1> DEFINE V == [i \in 0 .. n |-> g[1 .. i]]
<1>1. \A T \in SUBSET (1 .. n) : g[T] = IF T = {} THEN b ELSE Folded(k, e, g[T \ {Max(T)}], s[Max(T)])
    BY DEF Solves
<1>2. 1 .. 0 = {} /\ 1 .. 0 \in SUBSET (1 .. n)
    OBVIOUS
<1>3. ASSUME NEW i \in 1 .. n PROVE V[i] = Folded(k, e, V[i - 1], s[i])
  <2>1. Max(1 .. i) = i /\ (1 .. i) \ {i} = 1 .. i - 1
      BY MaxOfInterval
  <2>2. 1 .. i \in SUBSET (1 .. n) /\ 1 .. i # {} /\ i \in 0 .. n /\ i - 1 \in 0 .. n
      OBVIOUS
  <2>3. g[1 .. i] = Folded(k, e, g[1 .. i - 1], s[i])
      BY <1>1, <2>1, <2>2
  <2> QED
      BY <2>2, <2>3
<1>4. V[0] = b /\ V[n] = g[1 .. n]
  <2>1. g[1 .. 0] = b
      BY <1>1, <1>2
  <2>2. 0 \in 0 .. n /\ n \in 0 .. n
      OBVIOUS
  <2> QED
      BY <2>1, <2>2
<1> HIDE DEF V
<1> QED
    BY <1>3, <1>4 DEF Runs

(* The three folds are such runs.                                           *)
LEMMA OnlyRuns ==
    ASSUME NEW X, NEW s \in Seq(X), NEW S
    PROVE  \E V : Runs(V, "only", S, <<>>, s, Len(s)) /\ Only(s, S) = V[Len(s)]
<1> DEFINE D == DOMAIN s
           op(w, x) == IF x \in S THEN Append(w, x) ELSE w
           g == CHOOSE g : g = [T \in SUBSET D |->
                                  IF T = {} THEN <<>> ELSE op(g[T \ {Max(T)}], s[Max(T)])]
<1>1. Only(s, S) = g[D]
    BY DEF Only, FoldLeft, MapThenFoldSet
<1>2. D = 1 .. Len(s) /\ Len(s) \in Nat
    OBVIOUS
<1> HIDE DEF D
<1>3. \A h : h = [T \in SUBSET D |-> IF T = {} THEN <<>> ELSE op(h[T \ {Max(T)}], s[Max(T)])]
             <=> Solves(h, "only", S, <<>>, s, Len(s))
    BY <1>2 DEF Solves, Folded
<1>4. \E h : h = [T \in SUBSET D |-> IF T = {} THEN <<>> ELSE op(h[T \ {Max(T)}], s[Max(T)])]
    BY <1>2, <1>3, Solvable, ZenonT(60)
<1>5. g = [T \in SUBSET D |-> IF T = {} THEN <<>> ELSE op(g[T \ {Max(T)}], s[Max(T)])]
    BY <1>4
<1> HIDE DEF g
<1>6. Solves(g, "only", S, <<>>, s, Len(s))
    BY <1>3, <1>5
<1> QED
    BY <1>1, <1>2, <1>6, SolutionRuns

LEMMA PlanesRun ==
    ASSUME NEW ac, NEW bk, NEW rc
    PROVE  \E V : /\ Runs(V, "planes", <<bk, rc>>, ac, [p \in Plane |-> p], Cardinality(Plane))
                  /\ Actor_SpawnTransitionActors(ac, bk, rc) = V[Cardinality(Plane)]
<1> DEFINE s == [p \in Plane |-> p]
           D == DOMAIN s
           op(w, p) == IF w.entered[p] \/ ~Adjoins(p, rc) THEN w
                       ELSE [Actor_Spawn(w, bk, rc, Keep, p) EXCEPT !.entered[p] = TRUE]
           g == CHOOSE g : g = [T \in SUBSET D |->
                                  IF T = {} THEN ac ELSE op(g[T \ {Max(T)}], s[Max(T)])]
<1>1. Actor_SpawnTransitionActors(ac, bk, rc) = g[D]
    BY DEF Actor_SpawnTransitionActors, FoldLeft, MapThenFoldSet
<1>2. D = 1 .. Cardinality(Plane) /\ Cardinality(Plane) \in Nat
    BY ActorsAssumption, Numbers
<1> HIDE DEF D, s
<1>3. \A h : h = [T \in SUBSET D |-> IF T = {} THEN ac ELSE op(h[T \ {Max(T)}], s[Max(T)])]
             <=> Solves(h, "planes", <<bk, rc>>, ac, s, Cardinality(Plane))
    BY <1>2 DEF Solves, Folded
<1>4. \E h : h = [T \in SUBSET D |-> IF T = {} THEN ac ELSE op(h[T \ {Max(T)}], s[Max(T)])]
    BY <1>2, <1>3, Solvable, ZenonT(60)
<1>5. g = [T \in SUBSET D |-> IF T = {} THEN ac ELSE op(g[T \ {Max(T)}], s[Max(T)])]
    BY <1>4
<1> HIDE DEF g
<1>6. Solves(g, "planes", <<bk, rc>>, ac, s, Cardinality(Plane))
    BY <1>3, <1>5
<1> QED
    BY <1>1, <1>2, <1>6, SolutionRuns DEF s

LEMMA SetupRuns ==
    ASSUME NEW ac, NEW bk, NEW rc, NEW X, NEW s \in Seq(X)
    PROVE  \E V : /\ Runs(V, "setup", <<bk, rc>>, ac, s, Len(s))
                  /\ SpawnSetupActors(ac, bk, rc, s) = V[Len(s)]
<1> DEFINE D == DOMAIN s
           op(w, o) == Actor_Spawn(w, bk, rc, o, 0)
           g == CHOOSE g : g = [T \in SUBSET D |->
                                  IF T = {} THEN ac ELSE op(g[T \ {Max(T)}], s[Max(T)])]
<1>1. SpawnSetupActors(ac, bk, rc, s) = g[D]
    BY DEF SpawnSetupActors, FoldLeft, MapThenFoldSet
<1>2. D = 1 .. Len(s) /\ Len(s) \in Nat
    OBVIOUS
<1> HIDE DEF D
<1>3. \A h : h = [T \in SUBSET D |-> IF T = {} THEN ac ELSE op(h[T \ {Max(T)}], s[Max(T)])]
             <=> Solves(h, "setup", <<bk, rc>>, ac, s, Len(s))
    BY <1>2 DEF Solves, Folded
<1>4. \E h : h = [T \in SUBSET D |-> IF T = {} THEN ac ELSE op(h[T \ {Max(T)}], s[Max(T)])]
    BY <1>2, <1>3, Solvable, ZenonT(60)
<1>5. g = [T \in SUBSET D |-> IF T = {} THEN ac ELSE op(g[T \ {Max(T)}], s[Max(T)])]
    BY <1>4
<1> HIDE DEF g
<1>6. Solves(g, "setup", <<bk, rc>>, ac, s, Len(s))
    BY <1>3, <1>5
<1> QED
    BY <1>1, <1>2, <1>6, SolutionRuns
-----------------------------------------------------------------------------
(* Sequences.                                                               *)

(* t holds the elements of the first m of s that are in S; f says where.    *)
Picks(t, f, s, S, m) ==
    /\ f \in [1 .. Len(t) -> 1 .. m]
    /\ \A i \in 1 .. Len(t) : t[i] = s[f[i]] /\ s[f[i]] \in S
    /\ \A i, j \in 1 .. Len(t) : i < j => f[i] < f[j]
    /\ \A j \in 1 .. m : s[j] \in S => \E i \in 1 .. Len(t) : f[i] = j

LEMMA OnlyPicks ==
    ASSUME NEW X, NEW s \in Seq(X), NEW S
    PROVE  Only(s, S) \in Seq(X) /\ \E f : Picks(Only(s, S), f, s, S, Len(s))
<1> DEFINE n == Len(s)
<1>0. n \in Nat /\ \A i \in 1 .. n : s[i] \in X
    OBVIOUS
<1>1. PICK V : Runs(V, "only", S, <<>>, s, n) /\ Only(s, S) = V[n]
    BY OnlyRuns
<1>2. V[0] = <<>> /\ \A i \in 1 .. n : V[i] = IF s[i] \in S THEN Append(V[i - 1], s[i]) ELSE V[i - 1]
    BY <1>1 DEF Runs, Folded
<1> DEFINE Good(m) == V[m] \in Seq(X) /\ \E f : Picks(V[m], f, s, S, m)
           Bad == {m \in Nat : m <= n /\ ~Good(m)}
<1> HIDE DEF n
<1>3. Good(0)
  <2> DEFINE f == [i \in 1 .. 0 |-> i]
  <2>1. Picks(<<>>, f, s, S, 0)
      BY DEF Picks
  <2> QED
      BY <1>2, <2>1
<1>4. ASSUME NEW m \in Nat, m < n, Good(m) PROVE Good(m + 1)
  <2>1. PICK f : Picks(V[m], f, s, S, m)
      BY <1>4
  <2> DEFINE t == V[m]
             u == V[m + 1]
  <2>2. t \in Seq(X) /\ s[m + 1] \in X /\ m + 1 \in 1 .. n /\ Len(t) \in Nat
      BY <1>0, <1>4
  <2>3. u = IF s[m + 1] \in S THEN Append(t, s[m + 1]) ELSE t
      BY <1>2, <2>2
  <2>4. CASE s[m + 1] \notin S
    <3>1. u = t /\ Picks(t, f, s, S, m + 1)
        BY <2>1, <2>2, <2>3, <2>4 DEF Picks
    <3> QED
        BY <2>2, <3>1
  <2>5. CASE s[m + 1] \in S
    <3>1. /\ u = Append(t, s[m + 1]) /\ u \in Seq(X) /\ Len(u) = Len(t) + 1
          /\ u[Len(t) + 1] = s[m + 1] /\ \A i \in 1 .. Len(t) : u[i] = t[i]
        BY <2>2, <2>3, <2>5
    <3> DEFINE l == Len(t)
               h == [i \in 1 .. l + 1 |-> IF i = l + 1 THEN m + 1 ELSE f[i]]
    <3>2. f \in [1 .. l -> 1 .. m] /\ l \in Nat
        BY <2>1, <2>2 DEF Picks
    <3>3. h \in [1 .. l + 1 -> 1 .. m + 1]
        BY <3>2
    <3>4. h[l + 1] = m + 1 /\ \A i \in 1 .. l : h[i] = f[i] /\ f[i] \in 1 .. m
      <4>1. l + 1 \in 1 .. l + 1
          BY <3>2
      <4>2. \A i \in 1 .. l : i \in 1 .. l + 1 /\ i # l + 1
          BY <3>2
      <4>3. \A i \in 1 .. l : f[i] \in 1 .. m
          BY <3>2
      <4> QED
          BY <4>1, <4>2, <4>3
    <3> HIDE DEF h
    <3>5. \A i \in 1 .. l + 1 : u[i] = s[h[i]] /\ s[h[i]] \in S
        BY <2>1, <2>5, <3>1, <3>2, <3>4 DEF Picks
    <3>6. \A i, j \in 1 .. l + 1 : i < j => h[i] < h[j]
      <4>1. \A i, j \in 1 .. l : i < j => f[i] < f[j]
          BY <2>1 DEF Picks
      <4>2. \A i \in 1 .. l + 1 : i \in 1 .. l \/ i = l + 1
          BY <3>2
      <4>3. \A i \in 1 .. l : f[i] < m + 1 /\ i < l + 1 /\ i \in Int
          BY <3>2
      <4> QED
          BY <3>2, <3>4, <4>1, <4>2, <4>3, SMTT(40)
    <3>7. \A j \in 1 .. m + 1 : s[j] \in S => \E i \in 1 .. l + 1 : h[i] = j
      <4>1. ASSUME NEW j \in 1 .. m, s[j] \in S PROVE \E i \in 1 .. l + 1 : h[i] = j
        <5>1. PICK i \in 1 .. l : f[i] = j
            BY <2>1, <4>1 DEF Picks
        <5>2. i \in 1 .. l + 1 /\ h[i] = j
            BY <3>2, <3>4, <5>1
        <5> QED
            BY <5>2
      <4>2. l + 1 \in 1 .. l + 1
          BY <3>2
      <4> QED
          BY <3>4, <4>1, <4>2
    <3>8. Picks(u, h, s, S, m + 1)
        BY <3>1, <3>3, <3>5, <3>6, <3>7 DEF Picks
    <3> QED
        BY <3>1, <3>8
  <2> QED
      BY <2>4, <2>5
<1> HIDE DEF Good
<1>5. ASSUME Bad # {} PROVE FALSE
  <2>1. PICK m \in Bad : \A k \in Bad : m <= k
      BY <1>5, LeastNumber
  <2>2. m \in Nat /\ m <= n /\ ~Good(m) /\ m # 0
      BY <1>3, <2>1
  <2>3. m - 1 \in Nat /\ m - 1 < n /\ m - 1 \notin Bad
      BY <1>0, <2>1, <2>2
  <2>4. Good(m - 1)
      BY <1>0, <2>3
  <2>5. Good((m - 1) + 1)
      BY <1>4, <2>3, <2>4
  <2>6. (m - 1) + 1 = m
      BY <2>2
  <2> QED
      BY <2>2, <2>5, <2>6
<1>6. Good(n)
    BY <1>0, <1>5
<1> QED
    BY <1>1, <1>6 DEF Good, n

LEMMA OnlyKeeps ==
    ASSUME NEW X, NEW s \in Seq(X), NEW S
    PROVE  /\ Only(s, S) \in Seq(X) /\ Elements(Only(s, S)) = Elements(s) \cap S
           /\ \A c, d : Before(Only(s, S), c, d) => Before(s, c, d)
           /\ Injective(s) =>
                  /\ Injective(Only(s, S))
                  /\ \A c, d \in S : Before(s, c, d) => Before(Only(s, S), c, d)
<1> DEFINE t == Only(s, S)
           n == Len(s)
           l == Len(t)
<1>1. t \in Seq(X)
    BY OnlyPicks
<1>2. PICK f : Picks(t, f, s, S, n)
    BY OnlyPicks
<1>3. DOMAIN s = 1 .. n /\ n \in Nat /\ DOMAIN t = 1 .. l /\ l \in Nat
    BY <1>1
<1> HIDE DEF t, n, l
<1>4. /\ \A i \in 1 .. l : f[i] \in 1 .. n /\ t[i] = s[f[i]] /\ s[f[i]] \in S
      /\ \A i, j \in 1 .. l : i < j => f[i] < f[j]
      /\ \A j \in 1 .. n : s[j] \in S => \E i \in 1 .. l : f[i] = j
    BY <1>2 DEF Picks, l
<1>5. Elements(t) = Elements(s) \cap S
    BY <1>3, <1>4, SMTT(40) DEF Elements
<1>6. ASSUME NEW c, NEW d, Before(t, c, d) PROVE Before(s, c, d)
  <2>1. PICK i, j \in 1 .. l : i < j /\ t[i] = c /\ t[j] = d
      BY <1>3, <1>6 DEF Before
  <2>2. f[i] < f[j] /\ s[f[i]] = c /\ s[f[j]] = d /\ f[i] \in 1 .. n /\ f[j] \in 1 .. n
      BY <1>4, <2>1
  <2> QED
      BY <1>3, <2>2 DEF Before
<1>7. ASSUME Injective(s) PROVE Injective(t)
  <2>1. ASSUME NEW i \in 1 .. l, NEW j \in 1 .. l, t[i] = t[j] PROVE i = j
    <3>1. f[i] = f[j]
        BY <1>3, <1>4, <1>7, <2>1 DEF Injective
    <3>2. ~(i < j) /\ ~(j < i)
        BY <1>3, <1>4, <2>1, <3>1
    <3> QED
        BY <1>3, <2>1, <3>2
  <2> QED
      BY <1>3, <2>1 DEF Injective
<1>8. ASSUME NEW c \in S, NEW d \in S, Before(s, c, d) PROVE Before(t, c, d)
  <2>1. PICK j1, j2 \in 1 .. n : j1 < j2 /\ s[j1] = c /\ s[j2] = d
      BY <1>3, <1>8 DEF Before
  <2>2. PICK i1 \in 1 .. l : f[i1] = j1
      BY <1>4, <2>1
  <2>3. PICK i2 \in 1 .. l : f[i2] = j2
      BY <1>4, <2>1
  <2>4. i1 < i2
    <3>1. ~(i2 < i1) /\ i1 # i2
        BY <1>4, <2>1, <2>2, <2>3, SMTT(40)
    <3> QED
        BY <1>3, <2>2, <2>3, <3>1
  <2>5. t[i1] = c /\ t[i2] = d
      BY <1>4, <2>1, <2>2, <2>3
  <2> QED
      BY <1>3, <2>4, <2>5 DEF Before
<1> QED
    BY <1>1, <1>5, <1>6, <1>7, <1>8 DEF t

(* A new element in front. *)
LEMMA InFront ==
    ASSUME NEW X, NEW s \in Seq(X), NEW x \in X
    PROVE  /\ <<x>> \o s \in Seq(X) /\ Elements(<<x>> \o s) = Elements(s) \cup {x}
           /\ x \notin Elements(s) /\ Injective(s) => Injective(<<x>> \o s)
           /\ \A c, d : Before(s, c, d) => Before(<<x>> \o s, c, d)
           /\ \A c, d : c # x /\ Before(<<x>> \o s, c, d) => Before(s, c, d)
<1> DEFINE t == <<x>> \o s
           n == Len(s)
<1>1. /\ t \in Seq(X) /\ DOMAIN t = 1 .. n + 1 /\ DOMAIN s = 1 .. n /\ n \in Nat /\ t[1] = x
      /\ \A i \in 1 .. n : t[i + 1] = s[i]
      /\ \A i \in 1 .. n + 1 : i # 1 => t[i] = s[i - 1]
    OBVIOUS
<1> HIDE DEF t, n
<1>2. /\ 1 \in 1 .. n + 1 /\ \A i \in 1 .. n : i + 1 \in 1 .. n + 1
      /\ \A i \in 1 .. n + 1 : i # 1 => i - 1 \in 1 .. n /\ i = (i - 1) + 1
    BY <1>1
<1>3. Elements(t) = Elements(s) \cup {x}
  <2>1. ASSUME NEW y \in Elements(t) PROVE y \in Elements(s) \cup {x}
    <3>1. PICK i \in 1 .. n + 1 : t[i] = y
        BY <1>1, <2>1 DEF Elements
    <3> QED
        BY <1>1, <1>2, <3>1 DEF Elements
  <2>2. ASSUME NEW y \in Elements(s) PROVE y \in Elements(t)
    <3>1. PICK i \in 1 .. n : s[i] = y
        BY <1>1, <2>2 DEF Elements
    <3>2. i + 1 \in 1 .. n + 1 /\ t[i + 1] = y
        BY <1>1, <1>2, <3>1
    <3> QED
        BY <1>1, <3>2 DEF Elements
  <2>3. x \in Elements(t)
      BY <1>1, <1>2 DEF Elements
  <2> QED
      BY <2>1, <2>2, <2>3
<1>4. ASSUME x \notin Elements(s), Injective(s) PROVE Injective(t)
  <2>1. ASSUME NEW i \in 1 .. n + 1, NEW j \in 1 .. n + 1, t[i] = t[j] PROVE i = j
    <3>1. i # 1 => t[i] = s[i - 1] /\ i - 1 \in 1 .. n
        BY <1>1, <1>2
    <3>2. j # 1 => t[j] = s[j - 1] /\ j - 1 \in 1 .. n
        BY <1>1, <1>2
    <3>3. CASE i = 1 \/ j = 1
        BY <1>1, <1>4, <2>1, <3>1, <3>2, <3>3 DEF Elements
    <3>4. CASE i # 1 /\ j # 1
      <4>1. i - 1 = j - 1
          BY <1>1, <1>4, <2>1, <3>1, <3>2, <3>4 DEF Injective
      <4> QED
          BY <1>1, <4>1
    <3> QED
        BY <3>3, <3>4
  <2> QED
      BY <1>1, <2>1 DEF Injective
<1>5. ASSUME NEW c, NEW d, Before(s, c, d) PROVE Before(t, c, d)
  <2>1. PICK i, j \in 1 .. n : i < j /\ s[i] = c /\ s[j] = d
      BY <1>1, <1>5 DEF Before
  <2>2. i + 1 \in 1 .. n + 1 /\ j + 1 \in 1 .. n + 1 /\ i + 1 < j + 1 /\ t[i + 1] = c /\ t[j + 1] = d
      BY <1>1, <1>2, <2>1
  <2> QED
      BY <1>1, <2>2 DEF Before
<1>6. ASSUME NEW c, NEW d, c # x, Before(t, c, d) PROVE Before(s, c, d)
  <2>1. PICK i, j \in 1 .. n + 1 : i < j /\ t[i] = c /\ t[j] = d
      BY <1>1, <1>6 DEF Before
  <2>2. i # 1 /\ j # 1
      BY <1>1, <1>6, <2>1
  <2>3. i - 1 \in 1 .. n /\ j - 1 \in 1 .. n /\ i - 1 < j - 1 /\ s[i - 1] = c /\ s[j - 1] = d
      BY <1>1, <1>2, <2>1, <2>2
  <2> QED
      BY <1>1, <2>3 DEF Before
<1> QED
    BY <1>1, <1>3, <1>4, <1>5, <1>6 DEF t

(* Two lists, one after the other. *)
LEMMA InTwo ==
    ASSUME NEW X, NEW s \in Seq(X), NEW t \in Seq(X)
    PROVE  /\ s \o t \in Seq(X) /\ Elements(s \o t) = Elements(s) \cup Elements(t)
           /\ Injective(s) /\ Injective(t) /\ Elements(s) \cap Elements(t) = {} => Injective(s \o t)
           /\ \A c, d : Before(s \o t, c, d) <=>
                  Before(s, c, d) \/ Before(t, c, d) \/ (c \in Elements(s) /\ d \in Elements(t))
<1> DEFINE u == s \o t
           m == Len(s)
           n == Len(t)
<1>1. /\ u \in Seq(X) /\ DOMAIN u = 1 .. m + n /\ DOMAIN s = 1 .. m /\ DOMAIN t = 1 .. n
      /\ m \in Nat /\ n \in Nat
      /\ \A i \in 1 .. m : u[i] = s[i]
      /\ \A i \in 1 .. n : u[m + i] = t[i]
    OBVIOUS
<1> HIDE DEF u, m, n
<1>2. /\ \A i \in 1 .. m : i \in 1 .. m + n
      /\ \A i \in 1 .. n : m + i \in 1 .. m + n
      /\ \A i \in 1 .. m + n : i \in 1 .. m \/ (i - m \in 1 .. n /\ m + (i - m) = i)
    BY <1>1
<1>3. \A i \in 1 .. m + n :
          (i \in 1 .. m /\ u[i] = s[i]) \/ (i - m \in 1 .. n /\ u[i] = t[i - m])
    BY <1>1, <1>2
<1>4. Elements(u) = Elements(s) \cup Elements(t)
  <2>1. ASSUME NEW y \in Elements(u) PROVE y \in Elements(s) \cup Elements(t)
      BY <1>1, <1>3, <2>1 DEF Elements
  <2>2. ASSUME NEW y \in Elements(s) PROVE y \in Elements(u)
      BY <1>1, <1>2, <2>2 DEF Elements
  <2>3. ASSUME NEW y \in Elements(t) PROVE y \in Elements(u)
    <3>1. PICK i \in 1 .. n : t[i] = y
        BY <1>1, <2>3 DEF Elements
    <3>2. m + i \in DOMAIN u /\ u[m + i] = y
        BY <1>1, <1>2, <3>1
    <3> QED
        BY <3>2 DEF Elements
  <2> QED
      BY <2>1, <2>2, <2>3
<1>5. ASSUME Injective(s), Injective(t), Elements(s) \cap Elements(t) = {} PROVE Injective(u)
  <2>1. ASSUME NEW i \in 1 .. m + n, NEW j \in 1 .. m + n, u[i] = u[j] PROVE i = j
    <3>1. CASE i \in 1 .. m /\ j \in 1 .. m
        BY <1>1, <1>5, <2>1, <3>1 DEF Injective
    <3>2. CASE i \notin 1 .. m /\ j \notin 1 .. m
      <4>1. i - m \in 1 .. n /\ j - m \in 1 .. n /\ t[i - m] = t[j - m]
          BY <1>3, <2>1, <3>2
      <4>2. i - m = j - m
          BY <1>1, <1>5, <4>1 DEF Injective
      <4>3. m \in Int /\ n \in Int
          BY <1>1
      <4>4. i \in Int /\ j \in Int
          BY <2>1, <4>3
      <4> QED
          BY <4>2, <4>3, <4>4
    <3>3. CASE i \in 1 .. m /\ j \notin 1 .. m
      <4>1. j - m \in 1 .. n /\ u[j] = t[j - m] /\ u[i] = s[i]
          BY <1>1, <1>3, <2>1, <3>3
      <4> QED
          BY <1>1, <1>5, <2>1, <3>3, <4>1 DEF Elements
    <3>4. CASE i \notin 1 .. m /\ j \in 1 .. m
      <4>1. i - m \in 1 .. n /\ u[i] = t[i - m] /\ u[j] = s[j]
          BY <1>1, <1>3, <2>1, <3>4
      <4> QED
          BY <1>1, <1>5, <2>1, <3>4, <4>1 DEF Elements
    <3> QED
        BY <3>1, <3>2, <3>3, <3>4
  <2> QED
      BY <1>1, <2>1 DEF Injective
<1>6. ASSUME NEW c, NEW d, Before(u, c, d)
      PROVE  Before(s, c, d) \/ Before(t, c, d) \/ (c \in Elements(s) /\ d \in Elements(t))
  <2>1. PICK i, j \in 1 .. m + n : i < j /\ u[i] = c /\ u[j] = d
      BY <1>1, <1>6 DEF Before
  <2>2. CASE i \in 1 .. m /\ j \in 1 .. m
      BY <1>1, <2>1, <2>2 DEF Before
  <2>3. CASE i \notin 1 .. m
    <3>1. j \notin 1 .. m
        BY <1>1, <2>1, <2>3
    <3>2. i - m \in 1 .. n /\ j - m \in 1 .. n /\ i - m < j - m /\ t[i - m] = c /\ t[j - m] = d
        BY <1>1, <1>3, <2>1, <2>3, <3>1
    <3> QED
        BY <1>1, <3>2 DEF Before
  <2>4. CASE i \in 1 .. m /\ j \notin 1 .. m
      BY <1>1, <1>3, <2>1, <2>4 DEF Elements
  <2> QED
      BY <2>2, <2>3, <2>4
<1>7. ASSUME NEW c, NEW d, Before(s, c, d) PROVE Before(u, c, d)
    BY <1>1, <1>2, <1>7 DEF Before
<1>8. ASSUME NEW c, NEW d, Before(t, c, d) PROVE Before(u, c, d)
  <2>1. PICK i, j \in 1 .. n : i < j /\ t[i] = c /\ t[j] = d
      BY <1>1, <1>8 DEF Before
  <2>2. m + i \in DOMAIN u /\ m + j \in DOMAIN u /\ m + i < m + j /\ u[m + i] = c /\ u[m + j] = d
      BY <1>1, <1>2, <2>1
  <2> QED
      BY <2>2 DEF Before
<1>9. ASSUME NEW c \in Elements(s), NEW d \in Elements(t) PROVE Before(u, c, d)
  <2>1. PICK i \in 1 .. m : s[i] = c
      BY <1>1 DEF Elements
  <2>2. PICK j \in 1 .. n : t[j] = d
      BY <1>1 DEF Elements
  <2>3. i \in DOMAIN u /\ m + j \in DOMAIN u /\ i < m + j /\ u[i] = c /\ u[m + j] = d
      BY <1>1, <1>2, <2>1, <2>2
  <2> QED
      BY <2>3 DEF Before
<1> QED
    BY <1>1, <1>4, <1>5, <1>6, <1>7, <1>8, <1>9 DEF u
-----------------------------------------------------------------------------
(* The order in which the actors are updated.                               *)

LEMMA OrderWhole ==
    ASSUME NEW ac, ActorsWhole(ac)
    PROVE  /\ Order(ac) \in Seq(Block) /\ Injective(Order(ac)) /\ Elements(Order(ac)) = DOMAIN ac.actor
           /\ \A c, d : Before(Order(ac), c, d) <=>
                  \/ Before(ac.prop, c, d) \/ Before(ac.door, c, d)
                  \/ (c \in Elements(ac.prop) /\ d \in Elements(ac.door))
<1> DEFINE s == ac.prop
           t == ac.door
<1>1. /\ s \in Seq(Block) /\ t \in Seq(Block) /\ Injective(s) /\ Injective(t)
      /\ Elements(s) = DOMAIN ac.actor \ Planes(ac) /\ Elements(t) = Planes(ac)
    BY DEF ActorsWhole
<1>2. Order(ac) = s \o t /\ Planes(ac) \subseteq DOMAIN ac.actor
    BY DEF Order, Planes
<1> HIDE DEF s, t
<1>3. Elements(s) \cap Elements(t) = {} /\ Elements(s) \cup Elements(t) = DOMAIN ac.actor
    BY <1>1, <1>2
<1>4. /\ s \o t \in Seq(Block) /\ Elements(s \o t) = Elements(s) \cup Elements(t)
      /\ Injective(s \o t)
      /\ \A c, d : Before(s \o t, c, d) <=>
             Before(s, c, d) \/ Before(t, c, d) \/ (c \in Elements(s) /\ d \in Elements(t))
    BY <1>1, <1>3, InTwo
<1> QED
    BY <1>2, <1>3, <1>4 DEF s, t

LEMMA FirstComes ==
    ASSUME NEW ac, ActorsWhole(ac)
    PROVE  \/ FirstActor(ac) = NULL /\ DOMAIN ac.actor = {}
           \/ FirstActor(ac) \in DOMAIN ac.actor /\ Rest(ac, FirstActor(ac)) = DOMAIN ac.actor
<1> DEFINE s == Order(ac)
           n == Len(s)
<1>1. s \in Seq(Block) /\ Elements(s) = DOMAIN ac.actor
    BY OrderWhole
<1>2. FirstActor(ac) = IF s = <<>> THEN NULL ELSE s[1]
    BY DEF FirstActor
<1> HIDE DEF s
<1>3. DOMAIN s = 1 .. n /\ n \in Nat /\ (s # <<>> => 1 \in 1 .. n)
    BY <1>1
<1> HIDE DEF n
<1>4. CASE s # <<>>
  <2>1. FirstActor(ac) = s[1] /\ s[1] \in DOMAIN ac.actor
      BY <1>1, <1>2, <1>3, <1>4 DEF Elements
  <2>2. ASSUME NEW d \in DOMAIN ac.actor, d # s[1] PROVE Before(s, s[1], d)
    <3>1. PICK j \in 1 .. n : s[j] = d
        BY <1>1, <1>3, <2>2 DEF Elements
    <3>2. 1 < j
        BY <1>3, <2>2, <3>1
    <3> QED
        BY <1>3, <1>4, <3>1, <3>2 DEF Before
  <2>3. Rest(ac, s[1]) = DOMAIN ac.actor
      BY <2>1, <2>2 DEF Rest, s
  <2> QED
      BY <2>1, <2>3
<1>5. CASE s = <<>>
  <2>1. Elements(s) = {}
      BY <1>5 DEF Elements
  <2> QED
      BY <1>1, <1>2, <1>5, <2>1
<1> QED
    BY <1>4, <1>5

LEMMA NextComes ==
    ASSUME NEW ac, ActorsWhole(ac), NEW c \in DOMAIN ac.actor
    PROVE  \/ NextActor(ac, c) = NULL /\ Rest(ac, c) = {c}
           \/ /\ NextActor(ac, c) \in DOMAIN ac.actor /\ NextActor(ac, c) # c
              /\ NextActor(ac, c) \in Rest(ac, c)
              /\ Rest(ac, NextActor(ac, c)) = Rest(ac, c) \ {c}
<1> DEFINE s == Order(ac)
           n == Len(s)
<1>1. s \in Seq(Block) /\ Elements(s) = DOMAIN ac.actor /\ Injective(s)
    BY OrderWhole
<1>2. PICK i \in DOMAIN s : s[i] = c
    BY <1>1 DEF Elements
<1> DEFINE S == {j \in 1 .. n : s[j] = c}
           found == IF S # {} THEN Min(S) ELSE 0
<1>3. NextActor(ac, c) = IF found \in 1 .. n - 1 THEN s[found + 1] ELSE NULL
    BY DEF NextActor, SelectInSeq
<1> HIDE DEF s
<1>4. found = i
  <2>1. S = {i} /\ i \in Nat
      BY <1>1, <1>2 DEF Injective
  <2> HIDE DEF S
  <2>2. Min(S) \in S
      BY <2>1, MinIsLeast
  <2> QED
      BY <2>1, <2>2
<1> HIDE DEF found
<1>5. DOMAIN s = 1 .. n /\ n \in Nat
    BY <1>1
<1> HIDE DEF n
<1>6. \A j, k \in 1 .. n : s[j] = s[k] => j = k
    BY <1>1, <1>5 DEF Injective
<1>7. ASSUME NEW j \in 1 .. n, NEW d PROVE Before(s, s[j], d) <=> \E k \in 1 .. n : j < k /\ s[k] = d
    BY <1>5, <1>6, <1>7 DEF Before
<1>8. \A d : Before(s, c, d) <=> \E k \in 1 .. n : i < k /\ s[k] = d
    BY <1>2, <1>5, <1>7
<1>9. \A k \in 1 .. n : s[k] \in DOMAIN ac.actor
    BY <1>1, <1>5 DEF Elements
<1>10. \A d : Rest(ac, d) = {d} \cup {e \in DOMAIN ac.actor : Before(s, d, e)}
    BY DEF Rest, s
<1>11. CASE i \in 1 .. n - 1
  <2>1. i + 1 \in 1 .. n /\ i # i + 1 /\ i < i + 1 /\ i \in 1 .. n
      BY <1>5, <1>11
  <2>2. NextActor(ac, c) = s[i + 1] /\ s[i + 1] \in DOMAIN ac.actor /\ s[i + 1] # c
      BY <1>2, <1>3, <1>4, <1>6, <1>9, <1>11, <2>1
  <2>3. \A d : Before(s, s[i + 1], d) <=> \E k \in 1 .. n : i + 1 < k /\ s[k] = d
      BY <1>7, <2>1
  <2>4. \A k \in 1 .. n : i < k <=> k = i + 1 \/ i + 1 < k
      BY <1>5, <2>1
  <2>5. \A d : Before(s, c, d) <=> d = s[i + 1] \/ Before(s, s[i + 1], d)
      BY <1>8, <2>1, <2>3, <2>4
  <2>6. ~Before(s, c, c)
    <3>1. \A k \in 1 .. n : i < k => s[k] # c
        BY <1>2, <1>5, <1>6
    <3> QED
        BY <1>8, <3>1
  <2>7. s[i + 1] \in Rest(ac, c) /\ Rest(ac, s[i + 1]) = Rest(ac, c) \ {c}
      BY <1>10, <2>2, <2>5, <2>6
  <2> QED
      BY <2>2, <2>7
<1>12. CASE i \notin 1 .. n - 1
  <2>1. \A k \in 1 .. n : ~(i < k)
      BY <1>2, <1>5, <1>12
  <2>2. Rest(ac, c) = {c}
      BY <1>8, <1>10, <2>1
  <2> QED
      BY <1>3, <1>4, <1>12, <2>2
<1> QED
    BY <1>11, <1>12
-----------------------------------------------------------------------------
(* Making an actor.                                                         *)

(* A new actor leaves the others alone, and comes before the planes.        *)
Kept(ac, w) ==
    /\ DOMAIN ac.actor \subseteq DOMAIN w.actor /\ \A c \in DOMAIN ac.actor : w.actor[c] = ac.actor[c]
    /\ w.freed = ac.freed
    /\ \A c, d : c \in Planes(ac) /\ Before(Order(w), c, d) => Before(Order(ac), c, d)

Fresh(a, o, p, bk, rc) ==
    /\ a \in AnActor /\ a.object = o /\ a.plane = p /\ a.room = rc.cur.num
    /\ a.live /\ a.destroy /\ ~a.isDrawn /\ ~a.loading
    /\ a.init => /\ a.objBankIndex \in DOMAIN bk /\ bk[a.objBankIndex].object = a.object
                 /\ ~Object_IsLoaded(bk, a.objBankIndex)
    /\ ~a.init => a.used = a.object /\ Object_IsLoaded(bk, a.objBankIndex)
    /\ o = Keep => a.objBankIndex = 0 /\ ~a.init

LEMMA KeptIsOrder ==
    ASSUME NEW u, NEW v, NEW w, Kept(u, v), Kept(v, w)
    PROVE  Kept(u, w)
<1>1. Planes(u) \subseteq Planes(v)
    BY DEF Kept, Planes
<1> QED
    BY <1>1 DEF Kept

LEMMA SpawnIs ==
    ASSUME NEW ac, NEW bk \in Seq(Entry), NEW rc, NEW o \in Object \cup {Keep}, NEW p \in Plane \cup {0},
           rc.cur.num \in Room, DOMAIN ac.actor \subseteq Block, FreeBlocks(ac) # {}
    PROVE  \/ o # Keep /\ Actor_Spawn(ac, bk, rc, o, p) = ac
           \/ \E c \in FreeBlocks(ac), a \in AnActor :
                  Fresh(a, o, p, bk, rc) /\ Actor_Spawn(ac, bk, rc, o, p) = Actor_AddToTypeList(ac, c, a)
<1> DEFINE S == {j \in 1 .. Len(bk) : bk[j].object = o}
           i == Object_GetIndex(bk, o)
           c == Min(FreeBlocks(ac))
           a0 == NewActor(o, p, i, rc.cur.num)
           a == Actor_Init(a0, bk)
<1>1. i = IF o = Keep THEN 0 ELSE IF (IF S # {} THEN Min(S) ELSE 0) = 0 THEN NULL ELSE IF S # {} THEN Min(S) ELSE 0
    BY DEF Object_GetIndex, SelectInSeq
<1>2. S \in SUBSET Nat /\ DOMAIN bk = 1 .. Len(bk)
    OBVIOUS
<1>3. Actor_Spawn(ac, bk, rc, o, p) = IF i = NULL THEN ac ELSE Actor_AddToTypeList(ac, c, a)
    BY DEF Actor_Spawn
<1>4. c \in FreeBlocks(ac)
  <2>1. FreeBlocks(ac) \in SUBSET Nat
      BY ActorsAssumption DEF FreeBlocks
  <2> QED
      BY <2>1, MinIsLeast
<1> HIDE DEF i, c
<1>5. CASE o = Keep
  <2>1. i = 0 /\ i # NULL
      BY <1>1, <1>5 DEF NULL
  <2>2. Object_IsLoaded(bk, i) /\ ObjectAt(bk, i) = Keep
      BY <2>1 DEF Object_IsLoaded, ObjectAt
  <2>3. a = [object |-> o, plane |-> p, objBankIndex |-> i, room |-> rc.cur.num, init |-> FALSE,
             live |-> TRUE, destroy |-> TRUE, isDrawn |-> FALSE, used |-> Keep, loading |-> FALSE]
      BY <1>5, <2>2, <2>1 DEF Actor_Init, Inited, NewActor
  <2> HIDE DEF a
  <2>4. a \in AnActor
      BY <1>5, <2>1, <2>3 DEF AnActor
  <2>5. Fresh(a, o, p, bk, rc)
      BY <1>5, <2>1, <2>2, <2>3, <2>4 DEF Fresh
  <2> QED
      BY <1>3, <1>4, <2>1, <2>4, <2>5
<1>6. CASE o # Keep /\ i = NULL
    BY <1>3, <1>6
<1>7. CASE o # Keep /\ i # NULL
  <2>1. S # {} /\ i = Min(S)
      BY <1>1, <1>7
  <2>2. i \in S
      BY <1>2, <2>1, MinIsLeast
  <2>3. i \in DOMAIN bk /\ bk[i].object = o /\ i \in Nat /\ i # 0
      BY <1>2, <2>2
  <2>4. ObjectAt(bk, i) = o
      BY <2>3 DEF ObjectAt
  <2>5. a0 = [object |-> o, plane |-> p, objBankIndex |-> i, room |-> rc.cur.num, init |-> TRUE,
              live |-> TRUE, destroy |-> TRUE, isDrawn |-> FALSE, used |-> Keep, loading |-> FALSE]
      BY DEF NewActor
  <2>6. a = IF Object_IsLoaded(bk, i) THEN [a0 EXCEPT !.init = FALSE, !.used = o] ELSE a0
      BY <2>4, <2>5 DEF Actor_Init, Inited
  <2> HIDE DEF a, a0
  <2>7. a \in AnActor
      BY <2>3, <2>5, <2>6 DEF AnActor
  <2>8. Fresh(a, o, p, bk, rc)
    <3>1. CASE Object_IsLoaded(bk, i)
        BY <1>7, <2>3, <2>5, <2>6, <2>7, <3>1 DEF Fresh
    <3>2. CASE ~Object_IsLoaded(bk, i)
        BY <1>7, <2>3, <2>5, <2>6, <2>7, <3>2 DEF Fresh
    <3> QED
        BY <3>1, <3>2
  <2> QED
      BY <1>3, <1>4, <1>7, <2>7, <2>8
<1> QED
    BY <1>5, <1>6, <1>7

LEMMA AddedToList ==
    ASSUME NEW ac, ActorsWhole(ac), NEW c \in FreeBlocks(ac), NEW a \in AnActor,
           NEW w, w = Actor_AddToTypeList(ac, c, a)
    PROVE  /\ ActorsWhole(w) /\ Kept(ac, w)
           /\ DOMAIN w.actor = DOMAIN ac.actor \cup {c} /\ w.actor[c] = a /\ w.entered = ac.entered
<1> DEFINE D == DOMAIN ac.actor
           F == [d \in D \cup {c} |-> IF d = c THEN a ELSE ac.actor[d]]
           s == IF a.plane = 0 THEN <<c>> \o ac.prop ELSE ac.prop
           t == IF a.plane = 0 THEN ac.door ELSE <<c>> \o ac.door
<1>1. c \in Block /\ c \notin D
    BY DEF FreeBlocks
<1>2. /\ D \subseteq Block /\ \A d \in D : ac.actor[d] \in AnActor
      /\ ac = [actor |-> [d \in D |-> ac.actor[d]], prop |-> ac.prop, door |-> ac.door,
               entered |-> ac.entered, freed |-> ac.freed]
      /\ ac.prop \in Seq(Block) /\ ac.door \in Seq(Block)
      /\ ac.entered \in [Plane -> BOOLEAN] /\ ac.freed \subseteq Block
      /\ Injective(ac.prop) /\ Elements(ac.prop) = D \ Planes(ac)
      /\ Injective(ac.door) /\ Elements(ac.door) = Planes(ac)
    BY DEF ActorsWhole
<1>3. Planes(ac) = {d \in D : ac.actor[d].plane # 0}
    BY DEF Planes
<1>4. w = [actor |-> F, prop |-> s, door |-> t, entered |-> ac.entered, freed |-> ac.freed]
    BY <1>2 DEF Actor_AddToTypeList
<1>5. DOMAIN F = D \cup {c} /\ F[c] = a /\ \A d \in D : F[d] = ac.actor[d]
    BY <1>1
<1>6. F = [d \in DOMAIN F |-> F[d]]
    OBVIOUS
<1> HIDE DEF F
<1> HIDE DEF s, t
<1>7. /\ w.actor = F /\ w.prop = s /\ w.door = t /\ w.entered = ac.entered /\ w.freed = ac.freed
      /\ w = [actor |-> [d \in DOMAIN w.actor |-> w.actor[d]], prop |-> w.prop, door |-> w.door,
              entered |-> w.entered, freed |-> w.freed]
  <2>1. w.actor = F /\ w.prop = s /\ w.door = t /\ w.entered = ac.entered /\ w.freed = ac.freed
      BY <1>4
  <2>2. w.actor = [d \in DOMAIN w.actor |-> w.actor[d]]
      BY <1>6, <2>1
  <2> QED
      BY <1>4, <2>1, <2>2
<1> USE DEF s, t
<1>8. Planes(w) = IF a.plane = 0 THEN Planes(ac) ELSE Planes(ac) \cup {c}
    BY <1>1, <1>3, <1>5, <1>7 DEF Planes
<1>9. c \notin Elements(ac.prop) /\ c \notin Elements(ac.door)
    BY <1>1, <1>2, <1>3
<1>10. /\ s \in Seq(Block) /\ Injective(s) /\ Elements(s) = DOMAIN F \ Planes(w)
       /\ \A x, y : x # c /\ Before(s, x, y) => Before(ac.prop, x, y)
  <2>1. CASE a.plane = 0
    <3>1. /\ <<c>> \o ac.prop \in Seq(Block) /\ Elements(<<c>> \o ac.prop) = Elements(ac.prop) \cup {c}
          /\ Injective(<<c>> \o ac.prop)
          /\ \A x, y : x # c /\ Before(<<c>> \o ac.prop, x, y) => Before(ac.prop, x, y)
        BY <1>1, <1>2, <1>9, InFront
    <3> QED
        BY <1>1, <1>2, <1>3, <1>5, <1>8, <2>1, <3>1
  <2>2. CASE a.plane # 0
      BY <1>1, <1>2, <1>3, <1>5, <1>8, <2>2
  <2> QED
      BY <2>1, <2>2
<1>11. /\ t \in Seq(Block) /\ Injective(t) /\ Elements(t) = Planes(w)
       /\ \A x, y : x # c /\ Before(t, x, y) => Before(ac.door, x, y)
  <2>1. CASE a.plane # 0
    <3>1. /\ <<c>> \o ac.door \in Seq(Block) /\ Elements(<<c>> \o ac.door) = Elements(ac.door) \cup {c}
          /\ Injective(<<c>> \o ac.door)
          /\ \A x, y : x # c /\ Before(<<c>> \o ac.door, x, y) => Before(ac.door, x, y)
        BY <1>1, <1>2, <1>9, InFront
    <3> QED
        BY <1>2, <1>8, <2>1, <3>1
  <2>2. CASE a.plane = 0
      BY <1>2, <1>8, <2>2
  <2> QED
      BY <2>1, <2>2
<1> HIDE DEF s, t
<1>12. ActorsWhole(w)
  <2>1. DOMAIN w.actor \subseteq Block /\ \A d \in DOMAIN w.actor : w.actor[d] \in AnActor
      BY <1>1, <1>2, <1>5, <1>7
  <2> QED
      BY <1>2, <1>7, <1>10, <1>11, <2>1 DEF ActorsWhole
<1>13. ASSUME NEW x \in Planes(ac), NEW y, Before(Order(w), x, y) PROVE Before(Order(ac), x, y)
  <2>1. x # c /\ x \notin Elements(w.prop)
      BY <1>1, <1>3, <1>7, <1>8, <1>10
  <2>2. Before(w.prop, x, y) \/ Before(w.door, x, y)
      BY <1>12, <1>13, <2>1, OrderWhole
  <2>3. Before(ac.prop, x, y) \/ Before(ac.door, x, y)
      BY <1>7, <1>10, <1>11, <2>1, <2>2
  <2> QED
      BY <2>3, OrderWhole
<1>14. Kept(ac, w)
    BY <1>1, <1>5, <1>7, <1>13 DEF Kept
<1> QED
    BY <1>5, <1>7, <1>12, <1>14

Placed(w, bk, rc, p) == [Actor_Spawn(w, bk, rc, Keep, p) EXCEPT !.entered[p] = TRUE]

LEMMA OnePlane ==
    ASSUME NEW w, ActorsWhole(w), PlanesWhole(w), FreeBlocks(w) # {}, NEW p \in Plane, ~w.entered[p],
           NEW bk \in Seq(Entry), NEW rc, rc.cur.num \in Room,
           NEW x, x = Placed(w, bk, rc, p)
    PROVE  /\ ActorsWhole(x) /\ PlanesWhole(x) /\ Kept(w, x)
           /\ x.entered = [w.entered EXCEPT ![p] = TRUE]
           /\ \E c \in FreeBlocks(w) :
                  DOMAIN x.actor = DOMAIN w.actor \cup {c} /\ Fresh(x.actor[c], Keep, p, bk, rc)
<1>1. p # 0
    BY Numbers
<1>2. DOMAIN w.actor \subseteq Block /\ w.entered \in [Plane -> BOOLEAN]
    BY DEF ActorsWhole
<1> DEFINE z == Actor_Spawn(w, bk, rc, Keep, p)
<1>3. PICK c \in FreeBlocks(w), a \in AnActor :
          Fresh(a, Keep, p, bk, rc) /\ z = Actor_AddToTypeList(w, c, a)
  <2>1. Keep \in Object \cup {Keep} /\ p \in Plane \cup {0}
      OBVIOUS
  <2> QED
      BY <1>2, <2>1, SpawnIs, ZenonT(60)
<1> HIDE DEF z
<1> DEFINE y == Actor_AddToTypeList(w, c, a)
<1>4. /\ ActorsWhole(y) /\ Kept(w, y)
      /\ DOMAIN y.actor = DOMAIN w.actor \cup {c} /\ y.actor[c] = a /\ y.entered = w.entered
    BY AddedToList
<1>5. x = [y EXCEPT !.entered[p] = TRUE]
    BY <1>3 DEF z, Placed
<1> HIDE DEF y
<1> DEFINE A == [d \in DOMAIN y.actor |-> y.actor[d]]
           e == [w.entered EXCEPT ![p] = TRUE]
<1>6. y = [actor |-> A, prop |-> y.prop, door |-> y.door, entered |-> y.entered, freed |-> y.freed]
    BY <1>4 DEF ActorsWhole
<1> HIDE DEF A
<1>7. x = [actor |-> A, prop |-> y.prop, door |-> y.door, entered |-> e, freed |-> y.freed]
  <2>1. x = [y EXCEPT !.entered = [w.entered EXCEPT ![p] = TRUE]]
      BY <1>4, <1>5
  <2> HIDE DEF e
  <2>2. x = [y EXCEPT !.entered = e]
      BY <2>1 DEF e
  <2> DEFINE B == y.prop
             C == y.door
             E == y.entered
             G == y.freed
  <2>3. y = [actor |-> A, prop |-> B, door |-> C, entered |-> E, freed |-> G]
      BY <1>6
  <2> HIDE DEF B, C, E, G
  <2>4. x = [actor |-> A, prop |-> B, door |-> C, entered |-> e, freed |-> G]
      BY <2>2, <2>3
  <2> QED
      BY <2>4 DEF B, C, G
<1>8. e \in [Plane -> BOOLEAN] /\ e[p] = TRUE /\ \A q \in Plane : q # p => e[q] = w.entered[q]
    BY <1>2
<1> HIDE DEF e
<1>9. /\ x.actor = y.actor /\ x.prop = y.prop /\ x.door = y.door /\ x.freed = y.freed
      /\ x.entered = e
    BY <1>6, <1>7
<1>10. Planes(x) = Planes(y) /\ Order(x) = Order(y)
    BY <1>9 DEF Planes, Order
<1>11. ActorsWhole(x)
  <2>1. x = [actor |-> [d \in DOMAIN x.actor |-> x.actor[d]], prop |-> x.prop, door |-> x.door,
             entered |-> x.entered, freed |-> x.freed]
      BY <1>7, <1>9 DEF A
  <2> QED
      BY <1>4, <1>8, <1>9, <1>10, <2>1 DEF ActorsWhole
<1>12. Kept(w, x)
    BY <1>4, <1>9, <1>10 DEF Kept
<1>13. /\ c \notin DOMAIN w.actor /\ a.plane = p /\ a.live /\ a.destroy /\ ~a.init /\ a.used = a.object
       /\ a.objBankIndex = 0
    BY <1>3 DEF Fresh, FreeBlocks
<1>14. /\ Planes(x) = Planes(w) \cup {c} /\ x.actor[c] = a
       /\ \A d \in DOMAIN w.actor : x.actor[d] = w.actor[d]
  <2>1. x.actor[c] = a /\ \A d \in DOMAIN w.actor : x.actor[d] = w.actor[d]
      BY <1>4, <1>9, <1>12 DEF Kept
  <2> QED
      BY <1>1, <1>4, <1>9, <1>13, <2>1 DEF Planes
<1>20. \A d \in Planes(x) :
           (d = c /\ x.actor[d] = a) \/ (d \in Planes(w) /\ d # c /\ x.actor[d] = w.actor[d])
    BY <1>13, <1>14 DEF Planes
<1>15. \A d \in Planes(w) : ~(w.actor[d].plane = p /\ w.actor[d].live)
    BY DEF PlanesWhole
<1>16. Planes(w) \subseteq DOMAIN w.actor
    BY DEF Planes
<1>17. PlanesWhole(x)
  <2>1. \A d \in Planes(x) :
           /\ x.actor[d].objBankIndex = 0 /\ ~x.actor[d].init
           /\ x.actor[d].live = x.actor[d].destroy /\ x.actor[d].used = x.actor[d].object
    <3>1. a.live = a.destroy
        BY <1>3, <1>13 DEF AnActor
    <3>2. ASSUME NEW d \in Planes(w)
          PROVE  /\ w.actor[d].objBankIndex = 0 /\ ~w.actor[d].init
                 /\ w.actor[d].live = w.actor[d].destroy /\ w.actor[d].used = w.actor[d].object
        BY DEF PlanesWhole
    <3>3. ASSUME NEW d \in Planes(x)
          PROVE  /\ x.actor[d].objBankIndex = 0 /\ ~x.actor[d].init
                 /\ x.actor[d].live = x.actor[d].destroy /\ x.actor[d].used = x.actor[d].object
      <4>1. CASE x.actor[d] = a
          BY <1>13, <3>1, <4>1
      <4>2. CASE d \in Planes(w) /\ x.actor[d] = w.actor[d]
          BY <3>2, <4>2
      <4> QED
          BY <1>20, <4>1, <4>2
    <3> QED
        BY <3>3
  <2>2. \A d \in DOMAIN x.actor \ Planes(x) : ~x.actor[d].loading
      BY <1>4, <1>9, <1>14 DEF PlanesWhole
  <2>3. ASSUME NEW b \in Planes(x), NEW d \in Planes(x),
               x.actor[b].plane = x.actor[d].plane, x.actor[b].live, x.actor[d].live
        PROVE  b = d
    <3>1. \A i, j \in Planes(w) :
              w.actor[i].plane = w.actor[j].plane /\ w.actor[i].live /\ w.actor[j].live => i = j
        BY DEF PlanesWhole
    <3>2. CASE b = c \/ d = c
        BY <1>13, <1>15, <1>20, <2>3, <3>2
    <3>3. CASE b # c /\ d # c
      <4>1. b \in Planes(w) /\ d \in Planes(w) /\ x.actor[b] = w.actor[b] /\ x.actor[d] = w.actor[d]
          BY <1>20, <3>3
      <4> QED
          BY <2>3, <3>1, <4>1
    <3> QED
        BY <3>2, <3>3
  <2>4. ASSUME NEW q \in Plane
        PROVE  x.entered[q] <=> \E d \in Planes(x) : x.actor[d].plane = q /\ x.actor[d].live
    <3>1. CASE q = p
      <4>1. x.entered[q] = TRUE /\ c \in Planes(x) /\ x.actor[c].plane = q /\ x.actor[c].live
          BY <1>8, <1>9, <1>13, <1>14, <3>1
      <4> QED
          BY <4>1
    <3>2. CASE q # p
      <4>1. x.entered[q] = w.entered[q]
          BY <1>8, <1>9, <3>2
      <4>2. w.entered[q] <=> \E d \in Planes(w) : w.actor[d].plane = q /\ w.actor[d].live
          BY DEF PlanesWhole
      <4> QED
          BY <1>13, <1>14, <1>16, <3>2, <4>1, <4>2
    <3> QED
        BY <3>1, <3>2
  <2> QED
      BY <2>1, <2>2, <2>3, <2>4 DEF PlanesWhole
<1>18. x.entered = [w.entered EXCEPT ![p] = TRUE]
    BY <1>9 DEF e
<1>19. DOMAIN x.actor = DOMAIN w.actor \cup {c} /\ Fresh(x.actor[c], Keep, p, bk, rc)
    BY <1>3, <1>4, <1>9, <1>14
<1> QED
    BY <1>11, <1>12, <1>17, <1>18, <1>19

(* The planes made for the rooms of rc, of the entries up to i.             *)
NewPlane(a, rc) ==
    /\ a.plane \in Plane /\ a.room = rc.cur.num /\ a.live /\ ~a.isDrawn /\ ~a.loading
    /\ ~a.init /\ a.used = a.object /\ a.objBankIndex = 0

PlanesMade(ac, w, rc, i) ==
    /\ ActorsWhole(w) /\ PlanesWhole(w) /\ Kept(ac, w)
    /\ \A p \in Plane : w.entered[p] <=> ac.entered[p] \/ (p <= i /\ Adjoins(p, rc))
    /\ \A c \in DOMAIN w.actor \ DOMAIN ac.actor :
           NewPlane(w.actor[c], rc) /\ ~ac.entered[w.actor[c].plane]

LEMMA SpawnedPlanes ==
    ASSUME NEW ac, ActorsWhole(ac), PlanesWhole(ac), NEW bk \in Seq(Entry), NEW rc, rc.cur.num \in Room,
           FreeBlocks(Actor_SpawnTransitionActors(ac, bk, rc)) # {}
    PROVE  PlanesMade(ac, Actor_SpawnTransitionActors(ac, bk, rc), rc, Cardinality(Plane))
<1> DEFINE n == Cardinality(Plane)
           s == [p \in Plane |-> p]
<1>0. n \in Nat /\ 1 \in Plane /\ \A p : p \in Plane <=> p \in Nat /\ 1 <= p /\ p <= n
    BY Numbers
<1>1. PICK V : /\ Runs(V, "planes", <<bk, rc>>, ac, s, n)
               /\ Actor_SpawnTransitionActors(ac, bk, rc) = V[n]
    BY PlanesRun
<1> HIDE DEF n
<1>8. \A p \in Plane : p \in 1 .. n /\ s[p] = p
    BY <1>0
<1> HIDE DEF s
<1>2. V[0] = ac
    BY <1>1 DEF Runs
<1>3. \A p \in Plane : V[p] = IF V[p - 1].entered[p] \/ ~Adjoins(p, rc) THEN V[p - 1]
                              ELSE Placed(V[p - 1], bk, rc, p)
  <2>1. \A w, p : Folded("planes", <<bk, rc>>, w, p) =
                   IF w.entered[p] \/ ~Adjoins(p, rc) THEN w ELSE Placed(w, bk, rc, p)
      BY DEF Folded, Placed
  <2>2. \A p \in Plane : V[p] = Folded("planes", <<bk, rc>>, V[p - 1], p)
      BY <1>1, <1>8 DEF Runs
  <2> QED
      BY <2>1, <2>2
<1> DEFINE Full(w) == "actor" \in DOMAIN w /\ FreeBlocks(w) = {}
           Good(m) == PlanesMade(ac, V[m], rc, m) \/ Full(V[m])
           Bad == {m \in Nat : m <= n /\ ~Good(m)}
<1>4. Good(0)
  <2>1. Kept(ac, ac)
      BY DEF Kept
  <2>2. \A p \in Plane : ~(p <= 0)
      BY <1>0
  <2> QED
      BY <1>2, <2>1, <2>2 DEF PlanesMade
<1>5. ASSUME NEW p \in Plane, Good(p - 1) PROVE Good(p)
  <2> DEFINE w == V[p - 1]
             x == V[p]
  <2>0. x = IF w.entered[p] \/ ~Adjoins(p, rc) THEN w
            ELSE Placed(w, bk, rc, p)
      BY <1>3
  <2>1. Good(p - 1) => PlanesMade(ac, w, rc, p - 1) \/ Full(w)
      OBVIOUS
  <2>2. PlanesMade(ac, x, rc, p) \/ Full(x) => Good(p)
      OBVIOUS
  <2>3. \A q \in Plane : q <= p <=> q = p \/ q <= p - 1
      BY <1>0
  <2> HIDE DEF w, x, Good
  <2>4. CASE Full(w)
    <3>1. Actor_Spawn(w, bk, rc, Keep, p) = w
        BY <2>4 DEF Actor_Spawn
    <3>2. "actor" \in DOMAIN x /\ x.actor = w.actor
        BY <2>0, <2>4, <3>1 DEF Placed
    <3> QED
        BY <2>2, <2>4, <3>2 DEF FreeBlocks
  <2>5. CASE PlanesMade(ac, w, rc, p - 1) /\ (w.entered[p] \/ ~Adjoins(p, rc))
    <3>1. x = w
        BY <2>0, <2>5
    <3>2. \A q \in Plane : w.entered[q] <=> ac.entered[q] \/ (q <= p - 1 /\ Adjoins(q, rc))
        BY <2>5 DEF PlanesMade
    <3>3. w.entered[p] <=> ac.entered[p] \/ Adjoins(p, rc)
        BY <2>5, <3>2
    <3>4. \A q \in Plane : w.entered[q] <=> ac.entered[q] \/ (q <= p /\ Adjoins(q, rc))
        BY <2>3, <3>2, <3>3
    <3>5. PlanesMade(ac, x, rc, p)
        BY <2>5, <3>1, <3>4 DEF PlanesMade
    <3> QED
        BY <2>2, <3>5
  <2>6. CASE PlanesMade(ac, w, rc, p - 1) /\ ~w.entered[p] /\ Adjoins(p, rc) /\ FreeBlocks(w) # {}
    <3>1. x = Placed(w, bk, rc, p)
        BY <2>0, <2>6
    <3>2. ActorsWhole(w) /\ PlanesWhole(w) /\ Kept(ac, w) /\ w.entered \in [Plane -> BOOLEAN]
        BY <2>6 DEF PlanesMade, ActorsWhole
    <3>3. /\ ActorsWhole(x) /\ PlanesWhole(x) /\ Kept(w, x)
          /\ x.entered = [w.entered EXCEPT ![p] = TRUE]
          /\ \E c \in FreeBlocks(w) :
                 DOMAIN x.actor = DOMAIN w.actor \cup {c} /\ Fresh(x.actor[c], Keep, p, bk, rc)
      <4>1. FreeBlocks(w) # {} /\ ~w.entered[p]
          BY <2>6
      <4> QED
          BY <3>1, <3>2, <4>1, OnePlane
    <3>4. \A q \in Plane : w.entered[q] <=> ac.entered[q] \/ (q <= p - 1 /\ Adjoins(q, rc))
        BY <2>6 DEF PlanesMade
    <3>5. \A q \in Plane : x.entered[q] <=> ac.entered[q] \/ (q <= p /\ Adjoins(q, rc))
        BY <2>3, <2>6, <3>2, <3>3, <3>4
    <3>6. PICK c \in FreeBlocks(w) :
              DOMAIN x.actor = DOMAIN w.actor \cup {c} /\ Fresh(x.actor[c], Keep, p, bk, rc)
        BY <3>3
    <3>7. NewPlane(x.actor[c], rc) /\ ~ac.entered[x.actor[c].plane]
        BY <2>6, <3>4, <3>6 DEF Fresh, NewPlane
    <3>8. ASSUME NEW d \in DOMAIN x.actor \ DOMAIN ac.actor
          PROVE  NewPlane(x.actor[d], rc) /\ ~ac.entered[x.actor[d].plane]
      <4>1. CASE d = c
          BY <3>7, <4>1
      <4>2. CASE d # c
        <5>1. d \in DOMAIN w.actor \ DOMAIN ac.actor /\ x.actor[d] = w.actor[d]
            BY <3>3, <3>6, <3>8, <4>2 DEF Kept
        <5> QED
            BY <2>6, <5>1 DEF PlanesMade
      <4> QED
          BY <4>1, <4>2
    <3>9. Kept(ac, x)
        BY <3>2, <3>3, KeptIsOrder
    <3>10. PlanesMade(ac, x, rc, p)
        BY <3>3, <3>5, <3>8, <3>9 DEF PlanesMade
    <3> QED
        BY <2>2, <3>10
  <2>7. PlanesMade(ac, w, rc, p - 1) /\ FreeBlocks(w) = {} => Full(w)
    <3>1. PlanesMade(ac, w, rc, p - 1) =>
              w = [actor |-> [c \in DOMAIN w.actor |-> w.actor[c]], prop |-> w.prop, door |-> w.door,
                   entered |-> w.entered, freed |-> w.freed]
        BY DEF PlanesMade, ActorsWhole
    <3> QED
        BY <3>1
  <2> QED
      BY <1>5, <2>1, <2>4, <2>5, <2>6, <2>7
<1> HIDE DEF Good
<1>6. ASSUME Bad # {} PROVE FALSE
  <2>1. PICK m \in Bad : \A k \in Bad : m <= k
      BY <1>6, LeastNumber
  <2>2. m \in Nat /\ m <= n /\ ~Good(m) /\ m # 0
      BY <1>4, <2>1
  <2>3. m \in Plane /\ m - 1 \in Nat /\ m - 1 <= n /\ m - 1 \notin Bad
      BY <1>0, <2>1, <2>2
  <2>4. Good(m - 1)
      BY <2>3
  <2> QED
      BY <1>5, <2>2, <2>3, <2>4
<1>7. Good(n)
    BY <1>0, <1>6
<1> QED
    BY <1>1, <1>7 DEF Good, n

(* The actors made for a room. *)
ActorsMade(ac, w, bk, rc) ==
    /\ ActorsWhole(w) /\ PlanesWhole(w) /\ Kept(ac, w) /\ w.entered = ac.entered
    /\ \A c \in DOMAIN w.actor \ DOMAIN ac.actor : Fresh(w.actor[c], w.actor[c].object, 0, bk, rc)

LEMMA OneActor ==
    ASSUME NEW w, ActorsWhole(w), PlanesWhole(w), FreeBlocks(w) # {}, NEW o \in Object,
           NEW bk \in Seq(Entry), NEW rc, rc.cur.num \in Room,
           NEW x, x = Actor_Spawn(w, bk, rc, o, 0)
    PROVE  ActorsMade(w, x, bk, rc)
<1>1. DOMAIN w.actor \subseteq Block /\ o \in Object \cup {Keep} /\ 0 \in Plane \cup {0}
    BY DEF ActorsWhole
<1>2. \/ x = w
      \/ \E c \in FreeBlocks(w), a \in AnActor :
             Fresh(a, o, 0, bk, rc) /\ x = Actor_AddToTypeList(w, c, a)
    BY <1>1, SpawnIs
<1>3. CASE x = w
  <2>1. Kept(w, w)
      BY DEF Kept
  <2> QED
      BY <1>3, <2>1 DEF ActorsMade
<1>4. CASE \E c \in FreeBlocks(w), a \in AnActor :
               Fresh(a, o, 0, bk, rc) /\ x = Actor_AddToTypeList(w, c, a)
  <2>1. PICK c \in FreeBlocks(w), a \in AnActor :
            Fresh(a, o, 0, bk, rc) /\ x = Actor_AddToTypeList(w, c, a)
      BY <1>4
  <2>2. /\ ActorsWhole(x) /\ Kept(w, x)
        /\ DOMAIN x.actor = DOMAIN w.actor \cup {c} /\ x.actor[c] = a /\ x.entered = w.entered
      BY <2>1, AddedToList
  <2>3. a.plane = 0 /\ ~a.loading /\ a.object = o /\ c \notin DOMAIN w.actor
      BY <2>1 DEF Fresh, FreeBlocks
  <2>4. \A d \in DOMAIN w.actor : x.actor[d] = w.actor[d]
      BY <2>2 DEF Kept
  <2>5. Planes(x) = Planes(w) /\ \A d \in Planes(w) : x.actor[d] = w.actor[d]
      BY <2>2, <2>3, <2>4 DEF Planes
  <2>6. PlanesWhole(x)
    <3>1. ASSUME NEW d \in DOMAIN x.actor \ Planes(x) PROVE ~x.actor[d].loading
      <4>1. (d = c /\ x.actor[d] = a) \/ (d \in DOMAIN w.actor \ Planes(w) /\ x.actor[d] = w.actor[d])
          BY <2>2, <2>4, <2>5
      <4> QED
          BY <2>3, <4>1 DEF PlanesWhole
    <3>2. PlanesWhole(w)
        OBVIOUS
    <3> QED
        BY <2>2, <2>5, <3>1, <3>2 DEF PlanesWhole
  <2> QED
      BY <2>1, <2>2, <2>3, <2>6 DEF ActorsMade
<1> QED
    BY <1>2, <1>3, <1>4

LEMMA SpawnedActors ==
    ASSUME NEW ac, ActorsWhole(ac), PlanesWhole(ac), NEW bk \in Seq(Entry), NEW rc, rc.cur.num \in Room,
           NEW s \in Seq(Object), FreeBlocks(SpawnSetupActors(ac, bk, rc, s)) # {}
    PROVE  ActorsMade(ac, SpawnSetupActors(ac, bk, rc, s), bk, rc)
<1> DEFINE n == Len(s)
<1>0. n \in Nat /\ \A i \in 1 .. n : s[i] \in Object
    OBVIOUS
<1>1. PICK V : Runs(V, "setup", <<bk, rc>>, ac, s, n) /\ SpawnSetupActors(ac, bk, rc, s) = V[n]
    BY SetupRuns
<1> HIDE DEF n
<1>2. V[0] = ac
    BY <1>1 DEF Runs
<1>3. \A i \in 1 .. n : V[i] = Actor_Spawn(V[i - 1], bk, rc, s[i], 0)
  <2>1. \A w, o : Folded("setup", <<bk, rc>>, w, o) = Actor_Spawn(w, bk, rc, o, 0)
      BY DEF Folded
  <2>2. \A i \in 1 .. n : V[i] = Folded("setup", <<bk, rc>>, V[i - 1], s[i])
      BY <1>1 DEF Runs
  <2> QED
      BY <2>1, <2>2
<1> DEFINE Good(m) == ActorsMade(ac, V[m], bk, rc) \/ FreeBlocks(V[m]) = {}
           Bad == {m \in Nat : m <= n /\ ~Good(m)}
<1>4. Good(0)
  <2>1. Kept(ac, ac)
      BY DEF Kept
  <2> QED
      BY <1>2, <2>1 DEF ActorsMade
<1>5. ASSUME NEW i \in 1 .. n, Good(i - 1) PROVE Good(i)
  <2> DEFINE w == V[i - 1]
             x == V[i]
             o == s[i]
  <2>0. x = Actor_Spawn(w, bk, rc, o, 0) /\ o \in Object
      BY <1>0, <1>3
  <2>1. ActorsMade(ac, w, bk, rc) \/ FreeBlocks(w) = {}
      BY <1>5
  <2>2. ActorsMade(ac, x, bk, rc) \/ FreeBlocks(x) = {} => Good(i)
      OBVIOUS
  <2> HIDE DEF w, x, o, Good
  <2>3. CASE FreeBlocks(w) = {}
    <3>1. x = w
        BY <2>0, <2>3 DEF Actor_Spawn
    <3> QED
        BY <2>2, <2>3, <3>1
  <2>4. CASE ActorsMade(ac, w, bk, rc) /\ FreeBlocks(w) # {}
    <3>1. ActorsWhole(w) /\ PlanesWhole(w) /\ Kept(ac, w) /\ w.entered = ac.entered
        BY <2>4 DEF ActorsMade
    <3>2. ActorsMade(w, x, bk, rc)
        BY <2>0, <2>4, <3>1, OneActor
    <3>3. Kept(ac, x)
        BY <3>1, <3>2, KeptIsOrder DEF ActorsMade
    <3>4. ASSUME NEW d \in DOMAIN x.actor \ DOMAIN ac.actor
          PROVE  Fresh(x.actor[d], x.actor[d].object, 0, bk, rc)
      <4>1. CASE d \in DOMAIN w.actor
          BY <2>4, <3>2, <3>4, <4>1 DEF ActorsMade, Kept
      <4>2. CASE d \notin DOMAIN w.actor
          BY <3>2, <3>4, <4>2 DEF ActorsMade
      <4> QED
          BY <4>1, <4>2
    <3>5. ActorsMade(ac, x, bk, rc)
        BY <3>1, <3>2, <3>3, <3>4 DEF ActorsMade
    <3> QED
        BY <2>2, <3>5
  <2> QED
      BY <2>1, <2>3, <2>4
<1> HIDE DEF Good
<1>6. ASSUME Bad # {} PROVE FALSE
  <2>1. PICK m \in Bad : \A k \in Bad : m <= k
      BY <1>6, LeastNumber
  <2>2. m \in Nat /\ m <= n /\ ~Good(m) /\ m # 0
      BY <1>4, <2>1
  <2>3. m \in 1 .. n /\ m - 1 \in Nat /\ m - 1 <= n /\ m - 1 \notin Bad
      BY <1>0, <2>1, <2>2
  <2>4. Good(m - 1)
      BY <2>3
  <2> QED
      BY <1>5, <2>2, <2>3, <2>4
<1>7. Good(n)
    BY <1>0, <1>6
<1> QED
    BY <1>1, <1>7 DEF Good, n
-----------------------------------------------------------------------------
(* Changes to actors that stay where they are.                              *)

Refits(ac, F) ==
    /\ F = [c \in DOMAIN ac.actor |-> F[c]]
    /\ \A c \in DOMAIN ac.actor : F[c] \in AnActor /\ F[c].plane = ac.actor[c].plane

Composed(w, F, s, t, e, f) ==
    /\ w = [actor |-> F, prop |-> s, door |-> t, entered |-> e, freed |-> f]
    /\ e \in [Plane -> BOOLEAN] /\ f \in SUBSET Block

LEMMA WithActors ==
    ASSUME NEW ac, ActorsWhole(ac), NEW F, Refits(ac, F), NEW e, NEW f,
           NEW w, Composed(w, F, ac.prop, ac.door, e, f)
    PROVE  /\ ActorsWhole(w) /\ w.actor = F /\ w.entered = e /\ w.freed = f
           /\ w.prop = ac.prop /\ w.door = ac.door
           /\ Planes(w) = Planes(ac) /\ Order(w) = Order(ac)
<1>1. w.actor = F /\ w.prop = ac.prop /\ w.door = ac.door /\ w.entered = e /\ w.freed = f
    BY DEF Composed
<1>2. Planes(w) = Planes(ac) /\ Order(w) = Order(ac)
    BY <1>1 DEF Planes, Order, Refits
<1>3. w = [actor |-> [c \in DOMAIN w.actor |-> w.actor[c]], prop |-> w.prop, door |-> w.door,
           entered |-> w.entered, freed |-> w.freed]
  <2>1. w = [actor |-> F, prop |-> w.prop, door |-> w.door, entered |-> w.entered, freed |-> w.freed]
      BY <1>1 DEF Composed
  <2>2. w.actor = [c \in DOMAIN w.actor |-> w.actor[c]]
      BY <1>1 DEF Refits
  <2> QED
      BY <1>1, <2>1, <2>2
<1>4. ActorsWhole(w)
  <2>1. /\ DOMAIN F = DOMAIN ac.actor /\ e \in [Plane -> BOOLEAN] /\ f \subseteq Block
        /\ \A c \in DOMAIN ac.actor : F[c] \in AnActor
      BY DEF Refits, Composed
  <2> QED
      BY <1>1, <1>2, <1>3, <2>1 DEF ActorsWhole
<1> QED
    BY <1>1, <1>2, <1>4

(* The planes are the same, but for their room, and whether one is loading. *)
Alike(a, b) ==
    /\ a.plane = b.plane /\ a.object = b.object /\ a.objBankIndex = b.objBankIndex
    /\ a.init = b.init /\ a.live = b.live /\ a.destroy = b.destroy /\ a.used = b.used

LEMMA SamePlanes ==
    ASSUME NEW ac, PlanesWhole(ac), NEW w, DOMAIN w.actor = DOMAIN ac.actor, Planes(w) = Planes(ac),
           \A c \in Planes(ac) : Alike(w.actor[c], ac.actor[c]),
           \A c \in DOMAIN ac.actor \ Planes(ac) : ~w.actor[c].loading,
           w.entered = ac.entered
    PROVE  PlanesWhole(w)
<1>1. ASSUME NEW c \in Planes(ac)
      PROVE  /\ w.actor[c].objBankIndex = 0 /\ ~w.actor[c].init
             /\ w.actor[c].live = w.actor[c].destroy /\ w.actor[c].used = w.actor[c].object
             /\ w.actor[c].plane = ac.actor[c].plane /\ w.actor[c].live = ac.actor[c].live
  <2>1. Alike(w.actor[c], ac.actor[c])
      OBVIOUS
  <2>2. /\ ac.actor[c].objBankIndex = 0 /\ ~ac.actor[c].init
        /\ ac.actor[c].live = ac.actor[c].destroy /\ ac.actor[c].used = ac.actor[c].object
      BY DEF PlanesWhole
  <2> QED
      BY <2>1, <2>2 DEF Alike
<1>2. \A c, d \in Planes(ac) :
          w.actor[c].plane = w.actor[d].plane /\ w.actor[c].live /\ w.actor[d].live => c = d
    BY <1>1 DEF PlanesWhole
<1>3. \A p \in Plane : w.entered[p] <=> \E c \in Planes(ac) : w.actor[c].plane = p /\ w.actor[c].live
  <2>1. \A p \in Plane : ac.entered[p] <=> \E c \in Planes(ac) : ac.actor[c].plane = p /\ ac.actor[c].live
      BY DEF PlanesWhole
  <2> QED
      BY <1>1, <2>1
<1> QED
    BY <1>1, <1>2, <1>3 DEF PlanesWhole

(* Only the actor c is another one. *)
Altered(ac, w, c, a) ==
    /\ ActorsWhole(w) /\ DOMAIN w.actor = DOMAIN ac.actor
    /\ w.actor[c] = a /\ \A d \in DOMAIN ac.actor : d # c => w.actor[d] = ac.actor[d]
    /\ w.entered = ac.entered /\ w.freed = ac.freed
    /\ Planes(w) = Planes(ac) /\ Order(w) = Order(ac)

WithActor(ac, c, a) == [ac EXCEPT !.actor[c] = a]

LEMMA AlteredIs ==
    ASSUME NEW ac, ActorsWhole(ac), NEW c \in DOMAIN ac.actor,
           NEW a \in AnActor, a.plane = ac.actor[c].plane, NEW w, w = WithActor(ac, c, a)
    PROVE  Altered(ac, w, c, a)
<1> DEFINE A == [d \in DOMAIN ac.actor |-> ac.actor[d]]
           F == [A EXCEPT ![c] = a]
           B == ac.prop
           C == ac.door
           E == ac.entered
           G == ac.freed
<1>1. /\ ac = [actor |-> A, prop |-> B, door |-> C, entered |-> E, freed |-> G]
      /\ E \in [Plane -> BOOLEAN] /\ G \in SUBSET Block
      /\ \A d \in DOMAIN ac.actor : ac.actor[d] \in AnActor
    BY DEF ActorsWhole
<1>2. /\ DOMAIN F = DOMAIN ac.actor /\ F = [d \in DOMAIN F |-> F[d]] /\ F[c] = a
      /\ \A d \in DOMAIN ac.actor : d # c => F[d] = ac.actor[d]
    OBVIOUS
<1>3. A = ac.actor
  <2> HIDE DEF A
  <2> QED
      BY <1>1
<1>4. w = [ac EXCEPT !.actor = F]
    BY <1>3 DEF WithActor
<1> HIDE DEF A, B, C, E, F, G
<1>5. w = [actor |-> F, prop |-> B, door |-> C, entered |-> E, freed |-> G]
    BY <1>1, <1>4
<1>6. \A d \in DOMAIN F : F[d] \in AnActor /\ F[d].plane = ac.actor[d].plane
    BY <1>1, <1>2
<1>7. /\ ActorsWhole(w) /\ w.actor = F /\ w.entered = E /\ w.freed = G
      /\ Planes(w) = Planes(ac) /\ Order(w) = Order(ac)
  <2>1. Composed(w, F, ac.prop, ac.door, E, G)
      BY <1>5, <1>1, <1>2 DEF B, C, Composed
  <2>2. Refits(ac, F)
      BY <1>1, <1>2, <1>6 DEF Refits
  <2> QED
      BY <2>1, <2>2, WithActors
<1> QED
    BY <1>2, <1>7 DEF Altered, E, G

LEMMA AlteredRest ==
    ASSUME NEW ac, NEW w, NEW c, NEW a, Altered(ac, w, c, a), NEW d
    PROVE  Rest(w, d) = Rest(ac, d)
BY DEF Altered, Rest

(* An actor of a room. *)
LEMMA AlteredActor ==
    ASSUME NEW ac, PlanesWhole(ac), NEW c \in DOMAIN ac.actor, ac.actor[c].plane = 0,
           NEW a, NEW w, Altered(ac, w, c, a), ~a.loading
    PROVE  PlanesWhole(w)
<1>1. /\ DOMAIN w.actor = DOMAIN ac.actor /\ Planes(w) = Planes(ac) /\ w.entered = ac.entered
      /\ w.actor[c] = a /\ \A d \in DOMAIN ac.actor : d # c => w.actor[d] = ac.actor[d]
    BY DEF Altered
<1>2. \A d \in Planes(ac) : d \in DOMAIN ac.actor /\ d # c
    BY DEF Planes
<1>3. \A d \in Planes(ac) : Alike(w.actor[d], ac.actor[d])
    BY <1>1, <1>2 DEF Alike
<1>4. \A d \in DOMAIN ac.actor \ Planes(ac) : ~w.actor[d].loading
    BY <1>1 DEF PlanesWhole
<1> QED
    BY <1>1, <1>3, <1>4, SamePlanes

(* A plane. *)
LEMMA AlteredPlane ==
    ASSUME NEW ac, PlanesWhole(ac), NEW c \in Planes(ac),
           NEW a, Alike(a, ac.actor[c]), NEW w, Altered(ac, w, c, a)
    PROVE  PlanesWhole(w)
<1>1. /\ DOMAIN w.actor = DOMAIN ac.actor /\ Planes(w) = Planes(ac) /\ w.entered = ac.entered
      /\ w.actor[c] = a /\ \A d \in DOMAIN ac.actor : d # c => w.actor[d] = ac.actor[d]
    BY DEF Altered
<1>2. \A d \in Planes(ac) : d \in DOMAIN ac.actor
    BY DEF Planes
<1>3. \A d \in Planes(ac) : Alike(w.actor[d], ac.actor[d])
    BY <1>1, <1>2 DEF Alike
<1>4. \A d \in DOMAIN ac.actor \ Planes(ac) : ~w.actor[d].loading
    BY <1>1 DEF PlanesWhole
<1> QED
    BY <1>1, <1>3, <1>4, SamePlanes

LEMMA KillAllIs ==
    ASSUME NEW ac, ActorsWhole(ac), NEW cs, NEW w, w = KillAll(ac, cs)
    PROVE  /\ ActorsWhole(w) /\ w.entered = ac.entered /\ w.freed = ac.freed
           /\ Planes(w) = Planes(ac) /\ Order(w) = Order(ac) /\ DOMAIN w.actor = DOMAIN ac.actor
           /\ \A c \in DOMAIN ac.actor :
                  w.actor[c] = IF c \in cs THEN Actor_Kill(ac.actor[c]) ELSE ac.actor[c]
<1> DEFINE A == [d \in DOMAIN ac.actor |-> ac.actor[d]]
           F == [c \in DOMAIN ac.actor |-> IF c \in cs THEN Actor_Kill(ac.actor[c]) ELSE ac.actor[c]]
           B == ac.prop
           C == ac.door
           E == ac.entered
           G == ac.freed
<1>1. /\ ac = [actor |-> A, prop |-> B, door |-> C, entered |-> E, freed |-> G]
      /\ E \in [Plane -> BOOLEAN] /\ G \in SUBSET Block
      /\ \A d \in DOMAIN ac.actor : ac.actor[d] \in AnActor
    BY DEF ActorsWhole
<1>2. w = [ac EXCEPT !.actor = F]
    BY DEF KillAll
<1>3. /\ DOMAIN F = DOMAIN ac.actor /\ F = [x \in DOMAIN F |-> F[x]]
      /\ \A c \in DOMAIN ac.actor :
             F[c] = IF c \in cs THEN Actor_Kill(ac.actor[c]) ELSE ac.actor[c]
    OBVIOUS
<1> HIDE DEF A, B, C, E, F, G
<1>4. w = [actor |-> F, prop |-> B, door |-> C, entered |-> E, freed |-> G]
    BY <1>1, <1>2
<1>5. \A a \in AnActor : /\ Actor_Kill(a) \in AnActor
                         /\ Actor_Kill(a).plane = a.plane
    BY DEF AnActor, Actor_Kill
<1>6. ASSUME NEW d \in DOMAIN F PROVE F[d] \in AnActor /\ F[d].plane = ac.actor[d].plane
  <2>1. ac.actor[d] \in AnActor
      BY <1>1, <1>3
  <2>2. F[d] = ac.actor[d] \/ F[d] = Actor_Kill(ac.actor[d])
      BY <1>3
  <2> QED
      BY <1>5, <2>1, <2>2
<1>7. /\ ActorsWhole(w) /\ w.actor = F /\ w.entered = E /\ w.freed = G
      /\ Planes(w) = Planes(ac) /\ Order(w) = Order(ac)
  <2>1. Composed(w, F, ac.prop, ac.door, E, G)
      BY <1>4, <1>1, <1>3 DEF B, C, Composed
  <2>2. Refits(ac, F)
      BY <1>1, <1>3, <1>6 DEF Refits
  <2> QED
      BY <2>1, <2>2, WithActors
<1> QED
    BY <1>3, <1>7 DEF E, G

(* Actors whose object is not loaded: never a plane. *)
LEMMA KilledWithoutObject ==
    ASSUME NEW ac, ActorsWhole(ac), PlanesWhole(ac), NEW bk, NEW w, w = func_80031A28(ac, bk)
    PROVE  /\ ActorsWhole(w) /\ PlanesWhole(w) /\ w.entered = ac.entered /\ w.freed = ac.freed
           /\ Planes(w) = Planes(ac) /\ Order(w) = Order(ac) /\ DOMAIN w.actor = DOMAIN ac.actor
           /\ \A c \in DOMAIN ac.actor :
                  w.actor[c] = IF Object_IsLoaded(bk, ac.actor[c].objBankIndex) THEN ac.actor[c]
                               ELSE Actor_Kill(ac.actor[c])
<1> DEFINE cs == {c \in DOMAIN ac.actor : ~Object_IsLoaded(bk, ac.actor[c].objBankIndex)}
<1>1. w = KillAll(ac, cs)
    BY DEF func_80031A28
<1>2. \A c \in DOMAIN ac.actor : c \in cs <=> ~Object_IsLoaded(bk, ac.actor[c].objBankIndex)
    OBVIOUS
<1> HIDE DEF cs
<1>3. /\ ActorsWhole(w) /\ w.entered = ac.entered /\ w.freed = ac.freed
      /\ Planes(w) = Planes(ac) /\ Order(w) = Order(ac) /\ DOMAIN w.actor = DOMAIN ac.actor
      /\ \A c \in DOMAIN ac.actor :
             w.actor[c] = IF c \in cs THEN Actor_Kill(ac.actor[c]) ELSE ac.actor[c]
    BY <1>1, KillAllIs
<1>4. \A c \in DOMAIN ac.actor : ac.actor[c] \in AnActor
    BY DEF ActorsWhole
<1>5. ASSUME NEW c \in Planes(ac) PROVE Alike(w.actor[c], ac.actor[c])
  <2>1. c \in DOMAIN ac.actor /\ ac.actor[c].objBankIndex = 0
      BY DEF PlanesWhole, Planes
  <2>2. w.actor[c] = ac.actor[c]
      BY <1>2, <1>3, <2>1 DEF Object_IsLoaded
  <2> QED
      BY <2>2 DEF Alike
<1>6. ASSUME NEW c \in DOMAIN ac.actor \ Planes(ac) PROVE ~w.actor[c].loading
  <2>1. ~ac.actor[c].loading /\ ac.actor[c] \in AnActor
      BY <1>4 DEF PlanesWhole
  <2>2. Actor_Kill(ac.actor[c]).loading = ac.actor[c].loading
      BY <2>1 DEF AnActor, Actor_Kill
  <2>3. w.actor[c] = ac.actor[c] \/ w.actor[c] = Actor_Kill(ac.actor[c])
      BY <1>3
  <2> QED
      BY <2>1, <2>2, <2>3
<1>7. PlanesWhole(w)
    BY <1>3, <1>5, <1>6, SamePlanes
<1> QED
    BY <1>2, <1>3, <1>7
-----------------------------------------------------------------------------
(* Removing actors.                                                         *)

(* EnHoll_Destroy is called for at most one actor of an entry. *)
OnePerPlane(ac) ==
    \A c, d \in Planes(ac) :
        ac.actor[c].plane = ac.actor[d].plane /\ ac.actor[c].destroy /\ ac.actor[d].destroy => c = d

Ends(ac, cs, p) == \E c \in cs : ac.actor[c].plane = p /\ ac.actor[c].destroy

LEMMA TurnedIs ==
    ASSUME NEW ac, OnePerPlane(ac), NEW cs \in SUBSET DOMAIN ac.actor
    PROVE  /\ Turned(ac, cs) \in [Plane -> BOOLEAN]
           /\ \A p \in Plane : Turned(ac, cs)[p] <=> ac.entered[p] # Ends(ac, cs, p)
<1> DEFINE T == Turned(ac, cs)
           S(p) == {c \in cs : ac.actor[c].plane = p /\ ac.actor[c].destroy}
<1>1. T = [p \in Plane |-> ac.entered[p] # (Cardinality(S(p)) % 2 = 1)]
    BY DEF Turned
<1>2. ASSUME NEW p \in Plane PROVE (Cardinality(S(p)) % 2 = 1) <=> Ends(ac, cs, p)
  <2>1. CASE ~Ends(ac, cs, p)
    <3>1. S(p) = {}
        BY <2>1 DEF Ends
    <3>2. Cardinality(S(p)) = 0
        BY <3>1, FS_EmptySet
    <3> QED
        BY <2>1, <3>2
  <2>2. CASE Ends(ac, cs, p)
    <3>1. PICK c \in cs : ac.actor[c].plane = p /\ ac.actor[c].destroy
        BY <2>2 DEF Ends
    <3>2. p # 0
        BY Numbers
    <3>3. \A d \in S(p) : d = c
        BY <3>1, <3>2 DEF OnePerPlane, Planes
    <3>4. S(p) = {c}
        BY <3>1, <3>3
    <3>5. Cardinality(S(p)) = 1
        BY <3>4, FS_Singleton
    <3> QED
        BY <2>2, <3>5
  <2> QED
      BY <2>1, <2>2
<1>3. T \in [Plane -> BOOLEAN]
    BY <1>1
<1>4. ASSUME NEW p \in Plane PROVE T[p] <=> ac.entered[p] # Ends(ac, cs, p)
  <2>1. T[p] = (ac.entered[p] # (Cardinality(S(p)) % 2 = 1))
      BY <1>1
  <2> DEFINE b == Cardinality(S(p)) % 2 = 1
             e == Ends(ac, cs, p)
  <2>2. b \in BOOLEAN /\ e \in BOOLEAN /\ (b <=> e)
      BY <1>2 DEF Ends
  <2>3. T[p] = (ac.entered[p] # b)
      BY <2>1
  <2> HIDE DEF b, e
  <2>4. b = e
      BY <2>2
  <2>5. T[p] <=> ac.entered[p] # e
      BY <2>3, <2>4
  <2> QED
      BY <2>5 DEF e
<1> QED
    BY <1>3, <1>4

LEMMA DestroyedIs ==
    ASSUME NEW ac, ActorsWhole(ac), OnePerPlane(ac), NEW cs \in SUBSET DOMAIN ac.actor,
           NEW w, w = Actor_Destroy(ac, cs)
    PROVE  /\ ActorsWhole(w) /\ w.freed = ac.freed /\ w.prop = ac.prop /\ w.door = ac.door
           /\ Planes(w) = Planes(ac) /\ Order(w) = Order(ac) /\ DOMAIN w.actor = DOMAIN ac.actor
           /\ \A c \in DOMAIN ac.actor :
                  w.actor[c] = IF c \in cs THEN Destroyed(ac.actor[c]) ELSE ac.actor[c]
           /\ \A p \in Plane : w.entered[p] <=> ac.entered[p] # Ends(ac, cs, p)
<1> DEFINE A == [d \in DOMAIN ac.actor |-> ac.actor[d]]
           F == [c \in DOMAIN ac.actor |-> IF c \in cs THEN Destroyed(ac.actor[c]) ELSE ac.actor[c]]
           B == ac.prop
           C == ac.door
           E == ac.entered
           G == ac.freed
           T == Turned(ac, cs)
<1>1. /\ ac = [actor |-> A, prop |-> B, door |-> C, entered |-> E, freed |-> G]
      /\ G \in SUBSET Block
      /\ \A d \in DOMAIN ac.actor : ac.actor[d] \in AnActor
    BY DEF ActorsWhole
<1>2. w = [ac EXCEPT !.entered = T, !.actor = F]
    BY DEF Actor_Destroy
<1>3. /\ DOMAIN F = DOMAIN ac.actor /\ F = [x \in DOMAIN F |-> F[x]]
      /\ \A c \in DOMAIN ac.actor :
             F[c] = IF c \in cs THEN Destroyed(ac.actor[c]) ELSE ac.actor[c]
    OBVIOUS
<1>4. T \in [Plane -> BOOLEAN] /\ \A p \in Plane : T[p] <=> ac.entered[p] # Ends(ac, cs, p)
    BY TurnedIs
<1> HIDE DEF A, B, C, E, F, G, T
<1>5. w = [actor |-> F, prop |-> B, door |-> C, entered |-> T, freed |-> G]
    BY <1>1, <1>2
<1>6. \A a \in AnActor : /\ Destroyed(a) \in AnActor
                         /\ Destroyed(a).plane = a.plane
    BY DEF AnActor, Destroyed
<1>7. ASSUME NEW d \in DOMAIN F PROVE F[d] \in AnActor /\ F[d].plane = ac.actor[d].plane
  <2>1. ac.actor[d] \in AnActor
      BY <1>1, <1>3
  <2>2. F[d] = ac.actor[d] \/ F[d] = Destroyed(ac.actor[d])
      BY <1>3
  <2> QED
      BY <1>6, <2>1, <2>2
<1>8. /\ ActorsWhole(w) /\ w.actor = F /\ w.entered = T /\ w.freed = G
      /\ w.prop = ac.prop /\ w.door = ac.door
      /\ Planes(w) = Planes(ac) /\ Order(w) = Order(ac)
  <2>1. Composed(w, F, ac.prop, ac.door, T, G)
      BY <1>5, <1>1, <1>3, <1>4 DEF B, C, Composed
  <2>2. Refits(ac, F)
      BY <1>1, <1>3, <1>4, <1>7 DEF Refits
  <2> QED
      BY <2>1, <2>2, WithActors
<1> QED
    BY <1>3, <1>4, <1>8 DEF G

LEMMA DeletedIs ==
    ASSUME NEW ac, ActorsWhole(ac), OnePerPlane(ac), NEW cs \in SUBSET DOMAIN ac.actor,
           NEW w, w = Actor_Delete(ac, cs)
    PROVE  /\ ActorsWhole(w) /\ w.freed = ac.freed \cup cs
           /\ DOMAIN w.actor = DOMAIN ac.actor \ cs
           /\ \A c \in DOMAIN w.actor : w.actor[c] = ac.actor[c]
           /\ \A p \in Plane : w.entered[p] <=> ac.entered[p] # Ends(ac, cs, p)
           /\ \A c, d : Before(Order(w), c, d) => Before(Order(ac), c, d)
           /\ \A c, d \in DOMAIN w.actor : Before(Order(ac), c, d) => Before(Order(w), c, d)
<1> DEFINE v == Actor_Destroy(ac, cs)
           stay == DOMAIN ac.actor \ cs
           A == [d \in DOMAIN v.actor |-> v.actor[d]]
           B == v.prop
           C == v.door
           E == v.entered
           G == v.freed
           F == [c \in stay |-> v.actor[c]]
           s == Only(B, stay)
           t == Only(C, stay)
<1>1. /\ ActorsWhole(v) /\ v.freed = ac.freed /\ v.prop = ac.prop /\ v.door = ac.door
      /\ Planes(v) = Planes(ac) /\ Order(v) = Order(ac) /\ DOMAIN v.actor = DOMAIN ac.actor
      /\ \A c \in DOMAIN ac.actor :
             v.actor[c] = IF c \in cs THEN Destroyed(ac.actor[c]) ELSE ac.actor[c]
      /\ \A p \in Plane : v.entered[p] <=> ac.entered[p] # Ends(ac, cs, p)
    BY DestroyedIs
<1>2. w = [v EXCEPT !.actor = F, !.prop = s, !.door = t, !.freed = G \cup cs]
    BY DEF Actor_Delete
<1> HIDE DEF v
<1>3. v = [actor |-> A, prop |-> B, door |-> C, entered |-> E, freed |-> G]
    BY <1>1 DEF ActorsWhole
<1>4. /\ stay \subseteq Block /\ cs \subseteq Block /\ \A c \in DOMAIN v.actor : v.actor[c] \in AnActor
      /\ B \in Seq(Block) /\ C \in Seq(Block)
      /\ E \in [Plane -> BOOLEAN] /\ G \subseteq Block
      /\ Injective(B) /\ Elements(B) = DOMAIN v.actor \ Planes(v)
      /\ Injective(C) /\ Elements(C) = Planes(v)
    BY <1>1 DEF ActorsWhole
<1>5. /\ DOMAIN F = stay /\ F = [x \in DOMAIN F |-> F[x]]
      /\ \A c \in stay : F[c] = ac.actor[c] /\ F[c] = v.actor[c]
    BY <1>1
<1>6. /\ s \in Seq(Block) /\ Elements(s) = Elements(B) \cap stay /\ Injective(s)
      /\ \A c, d : Before(s, c, d) => Before(B, c, d)
      /\ \A c, d \in stay : Before(B, c, d) => Before(s, c, d)
  <2>1. B \in Seq(Block) /\ Injective(B)
      BY <1>4
  <2> HIDE DEF B, C, stay
  <2>2. /\ s \in Seq(Block) /\ Elements(s) = Elements(B) \cap stay /\ Injective(s)
        /\ \A c, d : Before(s, c, d) => Before(B, c, d)
        /\ \A c, d \in stay : Before(B, c, d) => Before(s, c, d)
      BY <2>1, OnlyKeeps
  <2> QED
      BY <2>2
<1>7. /\ t \in Seq(Block) /\ Elements(t) = Elements(C) \cap stay /\ Injective(t)
      /\ \A c, d : Before(t, c, d) => Before(C, c, d)
      /\ \A c, d \in stay : Before(C, c, d) => Before(t, c, d)
  <2>1. C \in Seq(Block) /\ Injective(C)
      BY <1>4
  <2> HIDE DEF B, C, stay
  <2>2. /\ t \in Seq(Block) /\ Elements(t) = Elements(C) \cap stay /\ Injective(t)
        /\ \A c, d : Before(t, c, d) => Before(C, c, d)
        /\ \A c, d \in stay : Before(C, c, d) => Before(t, c, d)
      BY <2>1, OnlyKeeps
  <2> QED
      BY <2>2
<1>8. \A c : c \in stay <=> c \in DOMAIN ac.actor /\ c \notin cs
    OBVIOUS
<1> HIDE DEF A, B, C, E, F, G, s, t, stay
<1>9. w = [actor |-> F, prop |-> s, door |-> t, entered |-> E, freed |-> G \cup cs]
    BY <1>2, <1>3
<1>10. w.actor = F /\ w.prop = s /\ w.door = t /\ w.entered = E /\ w.freed = G \cup cs
    BY <1>9
<1>11. Planes(w) = Planes(v) \cap stay /\ Planes(v) \subseteq DOMAIN v.actor
    BY <1>1, <1>5, <1>8, <1>10 DEF Planes
<1>12. ActorsWhole(w)
  <2>1. w = [actor |-> [c \in DOMAIN w.actor |-> w.actor[c]], prop |-> w.prop, door |-> w.door,
             entered |-> w.entered, freed |-> w.freed]
    <3>1. w.actor = [c \in DOMAIN w.actor |-> w.actor[c]]
        BY <1>5, <1>10
    <3>2. w = [actor |-> w.actor, prop |-> w.prop, door |-> w.door, entered |-> w.entered, freed |-> w.freed]
        BY <1>9, <1>10
    <3> QED
        BY <3>1, <3>2
  <2>2. DOMAIN w.actor = stay /\ \A c \in DOMAIN w.actor : w.actor[c] \in AnActor
      BY <1>1, <1>4, <1>5, <1>8, <1>10
  <2>3. Elements(w.prop) = DOMAIN w.actor \ Planes(w) /\ Elements(w.door) = Planes(w)
      BY <1>1, <1>4, <1>6, <1>7, <1>8, <1>10, <1>11, <2>2
  <2>4. w.entered \in [Plane -> BOOLEAN] /\ w.freed \subseteq Block
      BY <1>4, <1>10
  <2>5. /\ w.prop \in Seq(Block) /\ w.door \in Seq(Block) /\ Injective(w.prop) /\ Injective(w.door)
        /\ DOMAIN w.actor \subseteq Block
      BY <1>4, <1>6, <1>7, <1>10, <2>2
  <2> QED
      BY <2>1, <2>2, <2>3, <2>4, <2>5 DEF ActorsWhole
<1>13. DOMAIN w.actor = DOMAIN ac.actor \ cs /\ \A c \in DOMAIN w.actor : w.actor[c] = ac.actor[c]
    BY <1>5, <1>8, <1>10
<1>14. w.freed = ac.freed \cup cs /\ \A p \in Plane : w.entered[p] <=> ac.entered[p] # Ends(ac, cs, p)
    BY <1>1, <1>10 DEF E, G
<1>15. /\ \A c, d : Before(Order(w), c, d) <=>
              Before(s, c, d) \/ Before(t, c, d) \/ (c \in Elements(s) /\ d \in Elements(t))
       /\ \A c, d : Before(Order(v), c, d) <=>
              Before(B, c, d) \/ Before(C, c, d) \/ (c \in Elements(B) /\ d \in Elements(C))
    BY <1>1, <1>10, <1>12, OrderWhole DEF B, C
<1>16. \A c, d : Before(Order(w), c, d) => Before(Order(ac), c, d)
    BY <1>1, <1>6, <1>7, <1>15
<1>17. ASSUME NEW c \in DOMAIN w.actor, NEW d \in DOMAIN w.actor, Before(Order(ac), c, d)
       PROVE  Before(Order(w), c, d)
  <2>1. c \in stay /\ d \in stay
      BY <1>5, <1>10
  <2> QED
      BY <1>1, <1>6, <1>7, <1>15, <1>17, <2>1
<1> QED
    BY <1>12, <1>13, <1>14, <1>16, <1>17

LEMMA PlanesAreOnce ==
    ASSUME NEW ac, PlanesWhole(ac)
    PROVE  OnePerPlane(ac)
BY DEF PlanesWhole, OnePerPlane

(* An actor that is not live any more. *)
LEMMA DeadEndsNothing ==
    ASSUME NEW ac, PlanesWhole(ac), NEW c \in DOMAIN ac.actor, ~ac.actor[c].live, NEW p \in Plane
    PROVE  ~Ends(ac, {c}, p)
<1>1. p # 0
    BY Numbers
<1>2. c \in Planes(ac) => ~ac.actor[c].destroy
    BY DEF PlanesWhole
<1>3. c \notin Planes(ac) => ac.actor[c].plane # p
    BY <1>1 DEF Planes
<1> QED
    BY <1>2, <1>3 DEF Ends

LEMMA DeadDestroyed ==
    ASSUME NEW ac, ActorsWhole(ac), PlanesWhole(ac), NEW c \in DOMAIN ac.actor, ~ac.actor[c].live,
           NEW w, w = Actor_Destroy(ac, {c})
    PROVE  PlanesWhole(w) /\ Altered(ac, w, c, Destroyed(ac.actor[c]))
<1>1. OnePerPlane(ac) /\ {c} \in SUBSET DOMAIN ac.actor
    BY PlanesAreOnce
<1>2. /\ ActorsWhole(w) /\ w.freed = ac.freed
      /\ Planes(w) = Planes(ac) /\ Order(w) = Order(ac) /\ DOMAIN w.actor = DOMAIN ac.actor
      /\ \A d \in DOMAIN ac.actor :
             w.actor[d] = IF d \in {c} THEN Destroyed(ac.actor[d]) ELSE ac.actor[d]
      /\ \A p \in Plane : w.entered[p] <=> ac.entered[p] # Ends(ac, {c}, p)
    BY <1>1, DestroyedIs
<1>3. w.entered = ac.entered
  <2>1. w.entered \in [Plane -> BOOLEAN] /\ ac.entered \in [Plane -> BOOLEAN]
      BY <1>2 DEF ActorsWhole
  <2>2. \A p \in Plane : w.entered[p] <=> ac.entered[p]
    <3>1. \A p \in Plane : Ends(ac, {c}, p) = FALSE
        BY DeadEndsNothing DEF Ends
    <3>2. ASSUME NEW p \in Plane PROVE w.entered[p] <=> ac.entered[p]
      <4>1. ac.entered[p] \in BOOLEAN
          BY <2>1
      <4> QED
          BY <1>2, <3>1, <4>1
    <3> QED
        BY <3>2
  <2>3. \A p \in Plane : w.entered[p] = ac.entered[p]
      BY <2>1, <2>2
  <2> QED
      BY <2>1, <2>3
<1> DEFINE a == Destroyed(ac.actor[c])
<1>4. /\ w.actor[c] = a /\ \A d \in DOMAIN ac.actor : d # c => w.actor[d] = ac.actor[d]
    BY <1>2
<1>5. Altered(ac, w, c, a)
  <2> HIDE DEF a
  <2> QED
      BY <1>2, <1>3, <1>4 DEF Altered
<1>6. ac.actor[c] \in AnActor
    BY DEF ActorsWhole
<1>7. a.loading = ac.actor[c].loading /\ (c \in Planes(ac) => Alike(a, ac.actor[c]))
  <2>1. c \in Planes(ac) => ac.actor[c].destroy = FALSE
      BY <1>6 DEF PlanesWhole, AnActor
  <2>2. a.loading = ac.actor[c].loading
      BY <1>6 DEF AnActor, Destroyed
  <2>3. ac.actor[c].destroy = FALSE => a = ac.actor[c]
      BY <1>6 DEF AnActor, Destroyed
  <2> QED
      BY <2>1, <2>2, <2>3 DEF Alike
<1> HIDE DEF a
<1>8. PlanesWhole(w)
  <2>1. CASE c \in Planes(ac)
      BY <1>5, <1>7, <2>1, AlteredPlane
  <2>2. CASE c \notin Planes(ac)
    <3>1. ac.actor[c].plane = 0 /\ ~a.loading
        BY <1>7, <2>2 DEF Planes, PlanesWhole
    <3> QED
        BY <1>5, <3>1, AlteredActor
  <2> QED
      BY <2>1, <2>2
<1> QED
    BY <1>5, <1>8 DEF a

(* The actor c is no longer there. *)
Deleted(ac, w, c) ==
    /\ ActorsWhole(w) /\ PlanesWhole(w) /\ w.entered = ac.entered /\ w.freed = ac.freed \cup {c}
    /\ DOMAIN w.actor = DOMAIN ac.actor \ {c}
    /\ \A d \in DOMAIN w.actor : w.actor[d] = ac.actor[d]
    /\ \A d \in DOMAIN ac.actor : d # c => Rest(w, d) = Rest(ac, d) \ {c}

LEMMA DeadDeleted ==
    ASSUME NEW ac, ActorsWhole(ac), PlanesWhole(ac), NEW c \in DOMAIN ac.actor, ~ac.actor[c].live,
           NEW w, w = Actor_Delete(ac, {c})
    PROVE  Deleted(ac, w, c)
<1>1. OnePerPlane(ac) /\ {c} \in SUBSET DOMAIN ac.actor
    BY PlanesAreOnce
<1>2. /\ ActorsWhole(w) /\ w.freed = ac.freed \cup {c}
      /\ DOMAIN w.actor = DOMAIN ac.actor \ {c}
      /\ \A d \in DOMAIN w.actor : w.actor[d] = ac.actor[d]
      /\ \A p \in Plane : w.entered[p] <=> ac.entered[p] # Ends(ac, {c}, p)
      /\ \A b, d : Before(Order(w), b, d) => Before(Order(ac), b, d)
      /\ \A b, d \in DOMAIN w.actor : Before(Order(ac), b, d) => Before(Order(w), b, d)
    BY <1>1, DeletedIs
<1>3. w.entered = ac.entered
  <2>1. w.entered \in [Plane -> BOOLEAN] /\ ac.entered \in [Plane -> BOOLEAN]
      BY <1>2 DEF ActorsWhole
  <2>2. \A p \in Plane : Ends(ac, {c}, p) = FALSE
      BY DeadEndsNothing DEF Ends
  <2>3. ASSUME NEW p \in Plane PROVE w.entered[p] = ac.entered[p]
    <3>1. ac.entered[p] \in BOOLEAN /\ w.entered[p] \in BOOLEAN
        BY <2>1
    <3> QED
        BY <1>2, <2>2, <3>1
  <2> QED
      BY <2>1, <2>3
<1>4. ASSUME NEW d \in DOMAIN ac.actor, d # c PROVE Rest(w, d) = Rest(ac, d) \ {c}
    BY <1>2, <1>4 DEF Rest
<1>5. Planes(w) = Planes(ac) \ {c}
    BY <1>2 DEF Planes
<1>6. PlanesWhole(w)
  <2>1. \A d \in Planes(w) : d \in Planes(ac) /\ w.actor[d] = ac.actor[d] /\ d # c
      BY <1>2, <1>5 DEF Planes
  <2>2. \A d \in DOMAIN w.actor \ Planes(w) : d \in DOMAIN ac.actor \ Planes(ac) /\ w.actor[d] = ac.actor[d]
      BY <1>2, <1>5
  <2>3. \A p \in Plane : w.entered[p] <=> \E d \in Planes(w) : w.actor[d].plane = p /\ w.actor[d].live
    <3>1. \A p \in Plane : ac.entered[p] <=> \E d \in Planes(ac) : ac.actor[d].plane = p /\ ac.actor[d].live
        BY DEF PlanesWhole
    <3>2. ASSUME NEW p \in Plane
          PROVE  (\E d \in Planes(ac) : ac.actor[d].plane = p /\ ac.actor[d].live)
                     <=> \E d \in Planes(w) : w.actor[d].plane = p /\ w.actor[d].live
      <4>1. \A d \in Planes(ac) : ac.actor[d].live => d \in Planes(w)
          BY <1>5
      <4> QED
          BY <2>1, <4>1
    <3> QED
        BY <1>3, <3>1, <3>2
  <2>4. PlanesWhole(ac)
      OBVIOUS
  <2>5. /\ \A d \in Planes(ac) :
               /\ ac.actor[d].objBankIndex = 0 /\ ~ac.actor[d].init
               /\ ac.actor[d].live = ac.actor[d].destroy /\ ac.actor[d].used = ac.actor[d].object
        /\ \A d \in DOMAIN ac.actor \ Planes(ac) : ~ac.actor[d].loading
        /\ \A b, d \in Planes(ac) :
               ac.actor[b].plane = ac.actor[d].plane /\ ac.actor[b].live /\ ac.actor[d].live => b = d
      BY DEF PlanesWhole
  <2>6. \A d \in Planes(w) :
            /\ w.actor[d].objBankIndex = 0 /\ ~w.actor[d].init
            /\ w.actor[d].live = w.actor[d].destroy /\ w.actor[d].used = w.actor[d].object
      BY <2>1, <2>5
  <2>7. \A d \in DOMAIN w.actor \ Planes(w) : ~w.actor[d].loading
      BY <2>2, <2>5
  <2>8. \A b, d \in Planes(w) :
            w.actor[b].plane = w.actor[d].plane /\ w.actor[b].live /\ w.actor[d].live => b = d
      BY <2>1, <2>5
  <2> QED
      BY <2>3, <2>6, <2>7, <2>8 DEF PlanesWhole
<1> QED
    BY <1>2, <1>3, <1>4, <1>6 DEF Deleted

(* The actors of rooms that are given up. *)
Gone(ac, rc) == {c \in DOMAIN ac.actor : ac.actor[c].room \notin {rc.cur.num, rc.prev.num}}

Dropped(ac, w, gone) ==
    /\ ActorsWhole(w) /\ PlanesWhole(w)
    /\ \A c : c \in DOMAIN w.actor <=> c \in DOMAIN ac.actor /\ (c \in gone => ac.actor[c].isDrawn)
    /\ \A c \in DOMAIN w.actor :
           w.actor[c] = IF c \in gone THEN Destroyed(Actor_Kill(ac.actor[c])) ELSE ac.actor[c]
    /\ w.freed = ac.freed \cup {c \in gone : ~ac.actor[c].isDrawn}
    /\ \A c, d : Before(Order(w), c, d) => Before(Order(ac), c, d)

LEMMA DroppedIs ==
    ASSUME NEW ac, ActorsWhole(ac), PlanesWhole(ac), NEW rc, NEW w, w = func_80031B14(ac, rc)
    PROVE  Dropped(ac, w, Gone(ac, rc))
<1> DEFINE gone == Gone(ac, rc)
           now == {c \in gone : ~ac.actor[c].isDrawn}
           later == gone \ now
           u == KillAll(ac, later)
           v == Actor_Destroy(u, later)
<1>1. w = Actor_Delete(v, now)
    BY DEF func_80031B14, Gone, Deletable
<1>2. /\ gone \subseteq DOMAIN ac.actor
      /\ \A c : c \in later <=> c \in gone /\ ac.actor[c].isDrawn
      /\ \A c : c \in now <=> c \in gone /\ ~ac.actor[c].isDrawn
    BY DEF Gone
<1> HIDE DEF gone, now, later, u, v
<1>3. /\ ActorsWhole(u) /\ u.entered = ac.entered /\ u.freed = ac.freed
      /\ Planes(u) = Planes(ac) /\ Order(u) = Order(ac) /\ DOMAIN u.actor = DOMAIN ac.actor
      /\ \A c \in DOMAIN ac.actor :
             u.actor[c] = IF c \in later THEN Actor_Kill(ac.actor[c]) ELSE ac.actor[c]
    BY KillAllIs DEF u
<1>4. \A c \in DOMAIN ac.actor : ac.actor[c] \in AnActor
    BY DEF ActorsWhole
<1>5. \A a \in AnActor : /\ Actor_Kill(a).plane = a.plane /\ Actor_Kill(a).destroy = a.destroy
                         /\ Destroyed(Actor_Kill(a)).plane = a.plane
                         /\ Destroyed(Actor_Kill(a)).loading = a.loading
                         /\ Destroyed(Actor_Kill(a)).objBankIndex = a.objBankIndex
                         /\ Destroyed(Actor_Kill(a)).init = a.init
                         /\ Destroyed(Actor_Kill(a)).used = a.used
                         /\ Destroyed(Actor_Kill(a)).object = a.object
                         /\ Destroyed(Actor_Kill(a)).live = FALSE /\ Destroyed(Actor_Kill(a)).destroy = FALSE
    BY DEF AnActor, Actor_Kill, Destroyed
<1>6. ASSUME NEW c \in DOMAIN ac.actor
      PROVE  u.actor[c].plane = ac.actor[c].plane /\ u.actor[c].destroy = ac.actor[c].destroy
  <2>1. ac.actor[c] \in AnActor /\ (u.actor[c] = Actor_Kill(ac.actor[c]) \/ u.actor[c] = ac.actor[c])
      BY <1>3, <1>4
  <2> QED
      BY <1>5, <2>1
<1>7. Planes(ac) \subseteq DOMAIN ac.actor
    BY DEF Planes
<1>8. OnePerPlane(u)
  <2>1. OnePerPlane(ac)
      BY PlanesAreOnce
  <2> QED
      BY <1>3, <1>6, <1>7, <2>1 DEF OnePerPlane
<1>9. /\ ActorsWhole(v) /\ v.freed = u.freed
      /\ Planes(v) = Planes(u) /\ Order(v) = Order(u) /\ DOMAIN v.actor = DOMAIN u.actor
      /\ \A c \in DOMAIN u.actor :
             v.actor[c] = IF c \in later THEN Destroyed(u.actor[c]) ELSE u.actor[c]
      /\ \A p \in Plane : v.entered[p] <=> u.entered[p] # Ends(u, later, p)
  <2>1. later \in SUBSET DOMAIN u.actor
      BY <1>2, <1>3
  <2> QED
      BY <1>3, <1>8, <2>1, DestroyedIs DEF v
<1>10. ASSUME NEW c \in DOMAIN ac.actor
       PROVE  v.actor[c] = IF c \in later THEN Destroyed(Actor_Kill(ac.actor[c])) ELSE ac.actor[c]
    BY <1>3, <1>9
<1>11. \A c \in DOMAIN ac.actor : v.actor[c].plane = ac.actor[c].plane
    BY <1>4, <1>5, <1>10
<1>12. \A c \in DOMAIN ac.actor : v.actor[c].destroy => c \notin later /\ ac.actor[c].destroy
    BY <1>4, <1>5, <1>10
<1>13. OnePerPlane(v)
  <2>1. OnePerPlane(ac)
      BY PlanesAreOnce
  <2> QED
      BY <1>3, <1>7, <1>9, <1>11, <1>12, <2>1 DEF OnePerPlane
<1>14. /\ ActorsWhole(w) /\ w.freed = v.freed \cup now
       /\ DOMAIN w.actor = DOMAIN v.actor \ now
       /\ \A c \in DOMAIN w.actor : w.actor[c] = v.actor[c]
       /\ \A p \in Plane : w.entered[p] <=> v.entered[p] # Ends(v, now, p)
       /\ \A c, d : Before(Order(w), c, d) => Before(Order(v), c, d)
  <2>1. now \in SUBSET DOMAIN v.actor
      BY <1>2, <1>3, <1>9
  <2> QED
      BY <1>1, <1>9, <1>13, <2>1, DeletedIs
<1>15. ASSUME NEW c \in DOMAIN w.actor
       PROVE  /\ c \in DOMAIN ac.actor
              /\ w.actor[c] = IF c \in gone THEN Destroyed(Actor_Kill(ac.actor[c])) ELSE ac.actor[c]
    BY <1>2, <1>3, <1>9, <1>10, <1>14
<1>16. \A c : c \in DOMAIN w.actor <=> c \in DOMAIN ac.actor /\ (c \in gone => ac.actor[c].isDrawn)
    BY <1>2, <1>3, <1>9, <1>14
<1>17. Planes(w) = Planes(ac) \cap DOMAIN w.actor
    BY <1>3, <1>9, <1>11, <1>14 DEF Planes
<1>18. PlanesWhole(w)
  <2>1. /\ \A d \in Planes(ac) :
               /\ ac.actor[d].objBankIndex = 0 /\ ~ac.actor[d].init
               /\ ac.actor[d].live = ac.actor[d].destroy /\ ac.actor[d].used = ac.actor[d].object
        /\ \A d \in DOMAIN ac.actor \ Planes(ac) : ~ac.actor[d].loading
        /\ \A b, d \in Planes(ac) :
               ac.actor[b].plane = ac.actor[d].plane /\ ac.actor[b].live /\ ac.actor[d].live => b = d
        /\ \A p \in Plane : ac.entered[p] <=> \E d \in Planes(ac) : ac.actor[d].plane = p /\ ac.actor[d].live
      BY DEF PlanesWhole
  <2>2. ASSUME NEW d \in DOMAIN w.actor
        PROVE  /\ w.actor[d].plane = ac.actor[d].plane /\ w.actor[d].loading = ac.actor[d].loading
               /\ w.actor[d].objBankIndex = ac.actor[d].objBankIndex /\ w.actor[d].init = ac.actor[d].init
               /\ w.actor[d].used = ac.actor[d].used /\ w.actor[d].object = ac.actor[d].object
               /\ d \in gone => w.actor[d].live = FALSE /\ w.actor[d].destroy = FALSE
               /\ d \notin gone => w.actor[d].live = ac.actor[d].live /\ w.actor[d].destroy = ac.actor[d].destroy
    <3>1. CASE d \in gone
        BY <1>4, <1>5, <1>15, <3>1
    <3>2. CASE d \notin gone
        BY <1>15, <3>2
    <3> QED
        BY <3>1, <3>2
  <2>3. ASSUME NEW d \in Planes(w)
        PROVE  /\ w.actor[d].objBankIndex = 0 /\ ~w.actor[d].init
               /\ w.actor[d].live = w.actor[d].destroy /\ w.actor[d].used = w.actor[d].object
    <3>1. d \in Planes(ac) /\ d \in DOMAIN w.actor
        BY <1>17
    <3>2. /\ ac.actor[d].objBankIndex = 0 /\ ~ac.actor[d].init
          /\ ac.actor[d].live = ac.actor[d].destroy /\ ac.actor[d].used = ac.actor[d].object
        BY <2>1, <3>1
    <3>3. /\ w.actor[d].objBankIndex = ac.actor[d].objBankIndex /\ w.actor[d].init = ac.actor[d].init
          /\ w.actor[d].used = ac.actor[d].used /\ w.actor[d].object = ac.actor[d].object
        BY <2>2, <3>1
    <3>4. w.actor[d].live = w.actor[d].destroy
        BY <2>2, <3>1, <3>2
    <3> QED
        BY <3>2, <3>3, <3>4
  <2>4. ASSUME NEW d \in DOMAIN w.actor \ Planes(w) PROVE ~w.actor[d].loading
      BY <1>15, <1>17, <2>1, <2>2
  <2>5. \A d \in Planes(w) : w.actor[d].live <=> d \notin gone /\ ac.actor[d].live
      BY <1>17, <2>2
  <2>6. \A b, d \in Planes(w) :
            w.actor[b].plane = w.actor[d].plane /\ w.actor[b].live /\ w.actor[d].live => b = d
      <3>1. \A b, d \in Planes(ac) :
              ac.actor[b].plane = ac.actor[d].plane /\ ac.actor[b].live /\ ac.actor[d].live => b = d
        BY <2>1
    <3>2. \A d \in Planes(w) : d \in Planes(ac) /\ w.actor[d].plane = ac.actor[d].plane
        BY <1>17, <2>2
    <3> QED
        BY <2>5, <3>1, <3>2
  <2>7. ASSUME NEW p \in Plane
        PROVE  w.entered[p] <=> \E d \in Planes(w) : w.actor[d].plane = p /\ w.actor[d].live
    <3>1. p # 0
        BY Numbers
    <3>2. \A d \in Planes(ac) : ac.actor[d].destroy <=> ac.actor[d].live
        BY <2>1
    <3>3. Ends(u, later, p) <=> \E c \in Planes(ac) : c \in later /\ ac.actor[c].plane = p /\ ac.actor[c].live
      <4>1. \A c \in later : c \in DOMAIN ac.actor
          BY <1>2
      <4>2. \A c \in later : u.actor[c].plane = p => c \in Planes(ac)
          BY <1>6, <3>1, <4>1 DEF Planes
      <4> QED
          BY <1>6, <1>7, <3>2, <4>1, <4>2 DEF Ends
    <3>4. Ends(v, now, p) <=> \E c \in Planes(ac) : c \in now /\ ac.actor[c].plane = p /\ ac.actor[c].live
      <4>1. \A c \in now : c \in DOMAIN ac.actor /\ c \notin later
          BY <1>2
      <4>2. \A c \in now : v.actor[c] = ac.actor[c]
          BY <1>10, <4>1
      <4>3. \A c \in now : ac.actor[c].plane = p => c \in Planes(ac)
          BY <3>1, <4>1 DEF Planes
      <4> QED
          BY <3>2, <4>2, <4>3 DEF Ends
    <3>5. (\E d \in Planes(w) : w.actor[d].plane = p /\ w.actor[d].live)
              <=> \E c \in Planes(ac) : c \notin gone /\ ac.actor[c].plane = p /\ ac.actor[c].live
      <4>1. \A d \in Planes(w) : d \in Planes(ac) /\ w.actor[d].plane = ac.actor[d].plane
          BY <1>17, <2>2
      <4>2. \A c \in Planes(ac) : c \notin gone => c \in Planes(w)
          BY <1>7, <1>16, <1>17
      <4> QED
          BY <2>5, <4>1, <4>2
    <3>6. ac.entered[p] <=> \E c \in Planes(ac) : ac.actor[c].plane = p /\ ac.actor[c].live
        BY <2>1
    <3>7. w.entered[p] <=> v.entered[p] # Ends(v, now, p)
        BY <1>14
    <3>8. v.entered[p] <=> ac.entered[p] # Ends(u, later, p)
        BY <1>3, <1>9
    <3> DEFINE P(c) == c \in Planes(ac) /\ ac.actor[c].plane = p /\ ac.actor[c].live
               L == \E c : P(c) /\ c \in later
               N == \E c : P(c) /\ c \in now
               S == \E c : P(c) /\ c \notin gone
    <3>9. /\ Ends(u, later, p) = L /\ Ends(v, now, p) = N
          /\ v.entered[p] \in BOOLEAN /\ w.entered[p] \in BOOLEAN /\ ac.entered[p] \in BOOLEAN
          /\ L \in BOOLEAN /\ N \in BOOLEAN
      <4>1. Ends(u, later, p) \in BOOLEAN /\ Ends(v, now, p) \in BOOLEAN
          BY DEF Ends
      <4>2. (Ends(u, later, p) <=> L) /\ (Ends(v, now, p) <=> N)
          BY <3>3, <3>4
      <4>3. /\ v.entered[p] \in BOOLEAN /\ w.entered[p] \in BOOLEAN /\ ac.entered[p] \in BOOLEAN
          BY <1>9, <1>14 DEF ActorsWhole
      <4> QED
          BY <4>1, <4>2, <4>3
    <3>10. ac.entered[p] <=> L \/ N \/ S
        BY <1>2, <3>6
    <3>11. \A c, d : P(c) /\ P(d) => c = d
        BY <2>1
    <3>12. ~(L /\ N) /\ ~(L /\ S) /\ ~(N /\ S)
        BY <1>2, <3>11
    <3>13. S <=> \E d \in Planes(w) : w.actor[d].plane = p /\ w.actor[d].live
        BY <3>5
    <3> HIDE DEF L, N, S
    <3>14. w.entered[p] <=> S
      <4>1. (w.entered[p] <=> ~(v.entered[p] <=> N)) /\ (v.entered[p] <=> ~(ac.entered[p] <=> L))
        <5>1. \A x, y \in BOOLEAN : x # y <=> ~(x <=> y)
            OBVIOUS
        <5>2. v.entered[p] # N <=> ~(v.entered[p] <=> N)
            BY <3>9, <5>1
        <5>3. ac.entered[p] # L <=> ~(ac.entered[p] <=> L)
            BY <3>9, <5>1
        <5>4. (w.entered[p] <=> v.entered[p] # N) /\ (v.entered[p] <=> ac.entered[p] # L)
            BY <3>7, <3>8, <3>9
        <5> QED
            BY <5>2, <5>3, <5>4
      <4> QED
          BY <3>10, <3>12, <4>1
    <3> QED
        BY <3>13, <3>14
  <2> QED
      BY <2>3, <2>4, <2>6, <2>7 DEF PlanesWhole
<1>19. \A c, d : Before(Order(w), c, d) => Before(Order(ac), c, d)
    BY <1>3, <1>9, <1>14
<1>20. w.freed = ac.freed \cup now
    BY <1>3, <1>9, <1>14
<1>21. Dropped(ac, w, gone)
    BY <1>14, <1>15, <1>16, <1>18, <1>19, <1>20 DEF Dropped, now
<1> QED
    BY <1>21 DEF gone
-----------------------------------------------------------------------------
(* What stays of the objects, and what is asked for.                        *)

LEMMA StayingIs ==
    ASSUME NEW bk \in Seq(Entry), NEW li \in Seq(Object)
    PROVE  /\ Staying(bk, li) \in Nat /\ Staying(bk, li) <= Len(bk) /\ Staying(bk, li) <= Len(li)
           /\ \A i \in Nat : 1 <= i /\ i <= Staying(bk, li) =>
                  bk[i] = [object |-> li[i], state |-> "loaded"]
<1> DEFINE same == {i \in DOMAIN bk \cap DOMAIN li : bk[i] = [object |-> li[i], state |-> "loaded"]}
           S == {i \in same : 1 .. i \subseteq same}
           n == Len(bk)
           m == Len(li)
<1>1. Staying(bk, li) = Cardinality(S)
    BY DEF Staying
<1>2. n \in Nat /\ m \in Nat /\ DOMAIN bk = 1 .. n /\ DOMAIN li = 1 .. m
    OBVIOUS
<1>3. \A i : i \in same => i \in 1 .. n /\ i \in 1 .. m /\ bk[i] = [object |-> li[i], state |-> "loaded"]
    BY <1>2
<1> HIDE DEF same, n, m
<1>4. S \in SUBSET (1 .. n)
    BY <1>3
<1>5. CASE S = {}
  <2>1. Cardinality(S) = 0
      BY <1>5, FS_EmptySet
  <2>2. Staying(bk, li) = 0 /\ Len(bk) \in Nat /\ Len(li) \in Nat
      BY <1>1, <1>2, <2>1 DEF n, m
  <2>3. \A i \in Nat : ~(1 <= i /\ i <= 0)
      OBVIOUS
  <2> HIDE DEF S
  <2> QED
      BY <2>2, <2>3
<1>6. CASE S # {}
  <2> DEFINE k == Max(S)
  <2>1. k \in S /\ \A x \in S : x <= k
      BY <1>2, <1>4, <1>6, MaxIn
  <2> HIDE DEF k
  <2>2. k \in 1 .. n /\ k \in 1 .. m /\ \A i \in 1 .. k : i \in same
      BY <1>3, <2>1
  <2>3. ASSUME NEW i \in 1 .. k PROVE i \in S
    <3>1. \A j \in 1 .. i : j \in 1 .. k
        BY <1>2, <2>2
    <3> QED
        BY <2>2, <3>1
  <2>4. S = 1 .. k
      BY <1>2, <1>4, <2>1, <2>2, <2>3
  <2>5. Cardinality(1 .. k) = k
    <3>1. k \in Int /\ 1 <= k /\ 1 \in Int
        BY <1>2, <2>2
    <3>2. Cardinality(1 .. k) = IF 1 > k THEN 0 ELSE k - 1 + 1
        BY <3>1, FS_Interval
    <3> QED
        BY <3>1, <3>2
  <2>6. k \in Nat /\ k <= n /\ k <= m
      BY <1>2, <2>2
  <2>7. \A i \in Nat : 1 <= i /\ i <= k => bk[i] = [object |-> li[i], state |-> "loaded"]
      BY <1>3, <2>2, <2>6
  <2> QED
      BY <1>1, <2>4, <2>5, <2>6, <2>7 DEF n, m
<1> QED
    BY <1>5, <1>6

(* The bank made for a room: entries that are loaded stay, the others are   *)
(* asked for.                                                               *)
LEMMA BankIs ==
    ASSUME NEW bk \in Seq(Entry), NEW li \in Seq(Object), NEW b, b = func_8009899C(bk, li)
    PROVE  /\ b \in Seq(Entry) /\ \A i \in DOMAIN b : b[i].state \in {"loaded", "asked"}
           /\ ~(Staying(bk, li) < Len(bk)) => \A i \in DOMAIN bk : i \in DOMAIN b /\ b[i] = bk[i]
<1> DEFINE k == Staying(bk, li)
           n == Len(bk)
           m == Len(li)
<1>1. /\ k \in Nat /\ k <= n /\ k <= m
      /\ \A i \in Nat : 1 <= i /\ i <= k => bk[i] = [object |-> li[i], state |-> "loaded"]
    BY StayingIs
<1>2. /\ n \in Nat /\ m \in Nat /\ DOMAIN bk = 1 .. n /\ DOMAIN li = 1 .. m
      /\ \A i \in 1 .. m : li[i] \in Object
    OBVIOUS
<1>3. b = [i \in 1 .. m |-> IF i <= k THEN bk[i] ELSE [object |-> li[i], state |-> "asked"]]
    BY <1>2 DEF func_8009899C, func_800982FC
<1> HIDE DEF k, n, m
<1>4. ASSUME NEW i \in 1 .. m PROVE b[i] \in Entry /\ b[i].state \in {"loaded", "asked"}
  <2>1. li[i] \in Object /\ i \in Nat /\ 1 <= i
      BY <1>2
  <2>2. CASE i <= k
    <3>1. b[i] = [object |-> li[i], state |-> "loaded"]
        BY <1>1, <1>3, <2>1, <2>2
    <3> QED
        BY <2>1, <3>1 DEF Entry
  <2>3. CASE ~(i <= k)
    <3>1. b[i] = [object |-> li[i], state |-> "asked"]
        BY <1>3, <2>3
    <3> QED
        BY <2>1, <3>1 DEF Entry
  <2> QED
      BY <2>2, <2>3
<1>5. b \in [1 .. m -> Entry]
    BY <1>3, <1>4
<1>6. b \in Seq(Entry) /\ DOMAIN b = 1 .. m
    BY <1>2, <1>5
<1>7. ASSUME ~(k < n), NEW i \in 1 .. n PROVE i \in 1 .. m /\ b[i] = bk[i]
  <2>1. i \in 1 .. m /\ i <= k
      BY <1>1, <1>2, <1>7
  <2> QED
      BY <1>3, <2>1
<1> QED
    BY <1>2, <1>4, <1>6, <1>7 DEF k, n

LEMMA AskedIs ==
    ASSUME NEW bk \in Seq(Entry)
    PROVE  /\ Asked(bk) \in Seq(DOMAIN bk) /\ Injective(Asked(bk))
           /\ Elements(Asked(bk)) = {i \in DOMAIN bk : bk[i].state = "asked"}
<1> DEFINE s == [i \in DOMAIN bk |-> i]
           S == {i \in DOMAIN bk : bk[i].state = "asked"}
<1>1. s \in Seq(DOMAIN bk) /\ DOMAIN s = DOMAIN bk /\ \A i \in DOMAIN bk : s[i] = i
    OBVIOUS
<1>2. S \subseteq DOMAIN bk
    OBVIOUS
<1>3. Asked(bk) = Only(s, S)
    BY DEF Asked
<1> HIDE DEF s
<1>4. Injective(s) /\ Elements(s) = DOMAIN bk
    BY <1>1 DEF Injective, Elements
<1> HIDE DEF S
<1>5. Only(s, S) \in Seq(DOMAIN bk) /\ Elements(Only(s, S)) = Elements(s) \cap S /\ Injective(Only(s, S))
    BY <1>1, <1>4, OnlyKeeps
<1>6. Elements(Asked(bk)) = S
    BY <1>2, <1>3, <1>4, <1>5
<1> QED
    BY <1>3, <1>5, <1>6 DEF S
-----------------------------------------------------------------------------
(* The player's way.                                                        *)

LEMMA Ways ==
    ASSUME NEW p \in Plane
    PROVE  /\ Sides[p][0] \in Room /\ Sides[p][1] \in Room /\ Sides[p][0] # Sides[p][1]
           /\ Sides[p][0] # NoRoom /\ Sides[p][1] # NoRoom
           /\ p + 1 \in Plane => Sides[p][1] = Sides[p + 1][0]
BY ActorsAssumption, GameAssumption, LoadingAssumption

LEMMA Zones ==
    ASSUME player \in Int
    PROVE  /\ \A p, q \in Plane : InZone(p) /\ InZone(q) => p = q
           /\ \A p \in Plane : /\ InZone(p) <=> InOuter(p) \/ InInner(p)
                               /\ ~(InOuter(p) /\ InInner(p))
                               /\ Side(p) \in {0, 1}
                               /\ Place(p) \in Int
<1>1. ASSUME NEW p \in Plane, NEW q \in Plane, InZone(p), InZone(q) PROVE p = q
  <2>1. p \in Int /\ q \in Int
      BY Numbers
  <2>2. /\ 1 <= player - 5 * (p - 1) /\ player - 5 * (p - 1) <= 4
        /\ 1 <= player - 5 * (q - 1) /\ player - 5 * (q - 1) <= 4
      BY <1>1, <2>1 DEF InZone, Place
  <2> QED
      BY <2>1, <2>2
<1>2. ASSUME NEW p \in Plane
      PROVE  /\ InZone(p) <=> InOuter(p) \/ InInner(p)
             /\ ~(InOuter(p) /\ InInner(p))
             /\ Side(p) \in {0, 1}
             /\ Place(p) \in Int
  <2>1. p \in Int
      BY Numbers
  <2>2. Place(p) \in Int
      BY <2>1 DEF Place
  <2> QED
      BY <2>2 DEF InZone, InOuter, InInner, Side
<1> QED
    BY <1>1, <1>2

LEMMA SidesAre ==
    ASSUME player \in Int, NEW p \in Plane
    PROVE  /\ Own(p) \in Room /\ Other(p) \in Room /\ Own(p) # Other(p)
           /\ Own(p) # NoRoom /\ Other(p) # NoRoom
           /\ \E s \in {0, 1} : Own(p) = Sides[p][s]
           /\ \E s \in {0, 1} : Other(p) = Sides[p][s]
<1>1. Side(p) \in {0, 1}
    BY Zones
<1>2. Side(p) = 0 \/ Side(p) = 1
    BY <1>1
<1>3. CASE Side(p) = 0
    BY <1>3, Ways DEF Own, Other
<1>4. CASE Side(p) = 1
    BY <1>4, Ways DEF Own, Other
<1> QED
    BY <1>2, <1>3, <1>4
-----------------------------------------------------------------------------
(* What the invariant says of the properties.                               *)

LEMMA ReadsWhole ==
    ASSUME GameInv
    PROVE  RcpReadsWhole
<1>1. RoomsWhole /\ RequestsWhole /\ ListWhole
    BY DEF GameInv
<1>2. ASSUME NEW k \in DOMAIN dma, dma[k].what = "room" PROVE dma[k].at \notin list.rooms
  <2>1. roomCtx.status = 1 /\ dma[k].at = roomCtx.unk_34
      BY <1>1, <1>2 DEF RequestsWhole
  <2> QED
      BY <1>1, <2>1 DEF ListWhole
<1>3. ASSUME NEW k \in DOMAIN dma, dma[k].what = "object" PROVE dma[k].at \notin list.objects
  <2>1. /\ dma[k].at \in DOMAIN bank /\ bank[dma[k].at].state = "sent"
    <3>1. \A l \in DOMAIN dma : dma[l].what = "object" =>
              dma[l].at \in DOMAIN bank /\ bank[dma[l].at] = [object |-> dma[l].file, state |-> "sent"]
        BY <1>1 DEF RequestsWhole
    <3>2. dma[k].at \in DOMAIN bank /\ bank[dma[k].at] = [object |-> dma[k].file, state |-> "sent"]
        BY <1>3, <3>1
    <3> QED
        BY <3>2
  <2>2. dma[k].at # 0
    <3>1. bank \in Seq(Entry)
        BY <1>1 DEF RequestsWhole
    <3> QED
        BY <2>1, <3>1
  <2>3. ~Object_IsLoaded(bank, dma[k].at) /\ bank[dma[k].at].state # "asked"
      BY <2>1, <2>2 DEF Object_IsLoaded
  <2> QED
      BY <1>1, <2>1, <2>3 DEF ListWhole
<1>4. list.actors \cap actorCtx.freed = {}
    BY <1>1 DEF ListWhole
<1> QED
    BY <1>2, <1>3, <1>4 DEF RcpReadsWhole, Written

LEMMA Matches ==
    ASSUME GameInv
    PROVE  RoomMatches
<1>1. RoomsWhole
    BY DEF GameInv
<1> QED
    BY <1>1 DEF RoomsWhole, RoomMatches, ARoom, NULL

LEMMA KeepsPlanes ==
    ASSUME GameInv
    PROVE  PlanesKept
<1>1. PlanesWhole(actorCtx) /\ EnteredWhole
    BY DEF GameInv
<1>2. /\ \A c \in Planes(actorCtx) : actorCtx.actor[c].live = actorCtx.actor[c].destroy
      /\ \A c, d \in Planes(actorCtx) :
             actorCtx.actor[c].plane = actorCtx.actor[d].plane /\ actorCtx.actor[c].live
                 /\ actorCtx.actor[d].live => c = d
      /\ \A p \in Plane : actorCtx.entered[p] <=>
             \E c \in Planes(actorCtx) : actorCtx.actor[c].plane = p /\ actorCtx.actor[c].live
    BY <1>1 DEF PlanesWhole
<1>3. ASSUME NEW p \in Plane
      PROVE  Cardinality({c \in DOMAIN actorCtx.actor :
                              actorCtx.actor[c].plane = p /\ actorCtx.actor[c].destroy})
                 = IF actorCtx.entered[p] THEN 1 ELSE 0
  <2> DEFINE S == {c \in DOMAIN actorCtx.actor : actorCtx.actor[c].plane = p /\ actorCtx.actor[c].destroy}
  <2>1. p # 0
      BY Numbers
  <2>2. \A c : c \in S <=> c \in Planes(actorCtx) /\ actorCtx.actor[c].plane = p /\ actorCtx.actor[c].live
      BY <1>2, <2>1 DEF Planes
  <2> HIDE DEF S
  <2>3. CASE actorCtx.entered[p]
    <3>1. PICK c \in Planes(actorCtx) : actorCtx.actor[c].plane = p /\ actorCtx.actor[c].live
        BY <1>2, <2>3
    <3>2. \A d : d \in S => d = c
        BY <1>2, <2>2, <3>1
    <3>3. S = {c}
        BY <2>2, <3>1, <3>2
    <3>4. Cardinality(S) = 1
        BY <3>3, FS_Singleton
    <3> QED
        BY <2>3, <3>4 DEF S
  <2>4. CASE ~actorCtx.entered[p]
    <3>1. S = {}
        BY <1>2, <2>2, <2>4
    <3>2. Cardinality(S) = 0
        BY <3>1, FS_EmptySet
    <3> QED
        BY <2>4, <3>2 DEF S
  <2> QED
      BY <2>3, <2>4
<1>4. ASSUME roomCtx.status = 0, NEW p \in Plane, Adjoins(p, [roomCtx EXCEPT !.prev = roomCtx.cur])
      PROVE  actorCtx.entered[p]
  <2>1. RoomsWhole
      BY DEF GameInv
  <2>2. PICK s \in {0, 1} : Sides[p][s] = roomCtx.cur.num
      BY <1>4, <2>1 DEF Adjoins, RoomsWhole
  <2> QED
      BY <1>1, <1>4, <2>2 DEF EnteredWhole
<1> QED
    BY <1>3, <1>4 DEF PlanesKept

LEMMA KeepsObjects ==
    ASSUME GameInv
    PROVE  ObjectsKept
<1>1. RequestsWhole /\ InitsWhole
    BY DEF GameInv
<1>2. \A k \in DOMAIN dma : dma[k].what = "object" =>
          /\ dma[k].at \in DOMAIN bank
          /\ bank[dma[k].at] = [object |-> dma[k].file, state |-> "sent"]
    BY <1>1 DEF RequestsWhole
<1>3. ASSUME NEW c \in DOMAIN actorCtx.actor
      PROVE  actorCtx.actor[c].init \/ actorCtx.actor[c].used = actorCtx.actor[c].object
    BY <1>1 DEF InitsWhole
<1> QED
    BY <1>2, <1>3 DEF ObjectsKept
-----------------------------------------------------------------------------
(* The RCP and the DMA manager.                                             *)

(* A part of the invariant stays true while the variables it is about do.   *)
LEMMA PartsStay ==
    ASSUME GameInv
    PROVE  /\ UNCHANGED actorCtx => (ActorsWhole(actorCtx) /\ PlanesWhole(actorCtx))'
           /\ UNCHANGED <<roomCtx, buffer, arrived>> => RoomsWhole'
           /\ UNCHANGED <<bank, roomCtx, arrived, dma>> => RequestsWhole'
           /\ UNCHANGED <<roomCtx, actorCtx, pc, at, player>> => PlayerWhole'
           /\ UNCHANGED <<roomCtx, actorCtx, player>> => LoadingWhole'
           /\ UNCHANGED <<roomCtx, actorCtx>> => EnteredWhole'
           /\ UNCHANGED <<bank, roomCtx, pc, player>> => AskedWhole'
           /\ UNCHANGED <<actorCtx, nbSetupActors, pc, at>> => PassWhole'
           /\ UNCHANGED <<bank, roomCtx, actorCtx, nbSetupActors, pc, at, player>> => InitsWhole'
           /\ UNCHANGED <<bank, roomCtx, actorCtx, pc, player, list>> => ListWhole'
<1>1. UNCHANGED actorCtx => ActorsWhole(actorCtx)'
    BY DEF GameInv
<1>2. UNCHANGED actorCtx => PlanesWhole(actorCtx)'
    BY DEF GameInv
<1>3. UNCHANGED <<roomCtx, buffer, arrived>> => RoomsWhole'
    BY DEF GameInv, RoomsWhole
<1>4. UNCHANGED <<bank, roomCtx, arrived, dma>> => RequestsWhole'
    BY DEF GameInv, RequestsWhole
<1>5. ASSUME UNCHANGED <<roomCtx, player>>
      PROVE  /\ NoneAsks' = NoneAsks
             /\ \A p : /\ InZone(p)' = InZone(p) /\ Place(p)' = Place(p)
                       /\ Possible(p)' = Possible(p) /\ Settled(p)' = Settled(p)
             /\ \A r : Alone(r)' = Alone(r) /\ Waiting(r)' = Waiting(r)
  <2>1. /\ UNCHANGED roomCtx /\ UNCHANGED player
      BY <1>5
  <2> QED
      BY <2>1 DEF NoneAsks, InZone, Place, Possible, Settled, Alone, Waiting, InOuter, InInner, Side, Own,
                  Other, Both
<1>6. UNCHANGED <<actorCtx, at>> => ToCome' = ToCome
    BY DEF ToCome, Rest, Order
<1>7. UNCHANGED <<roomCtx, actorCtx, pc, at, player>> => PlayerWhole'
    BY <1>5, <1>6 DEF GameInv, PlayerWhole
<1>8. UNCHANGED <<roomCtx, actorCtx, player>> => LoadingWhole'
  <2>1. UNCHANGED actorCtx => Planes(actorCtx)' = Planes(actorCtx)
      OBVIOUS
  <2> QED
      BY <1>5, <2>1 DEF GameInv, LoadingWhole
<1>9. UNCHANGED <<roomCtx, actorCtx>> => EnteredWhole'
    BY DEF GameInv, EnteredWhole
<1>10. UNCHANGED <<bank, roomCtx, pc, player>> => AskedWhole'
    BY <1>5 DEF GameInv, AskedWhole
<1>11. UNCHANGED <<actorCtx, nbSetupActors, pc, at>> => PassWhole'
    BY <1>6 DEF GameInv, PassWhole
<1>12. UNCHANGED <<bank, roomCtx, actorCtx, nbSetupActors, pc, at, player>> => InitsWhole'
    BY <1>5, <1>6 DEF GameInv, InitsWhole
<1>13. UNCHANGED <<bank, roomCtx, actorCtx, pc, player, list>> => ListWhole'
    BY <1>5 DEF GameInv, ListWhole
<1> QED
    BY <1>1, <1>2, <1>3, <1>4, <1>7, <1>8, <1>9, <1>10, <1>11, <1>12, <1>13

(* Where the player may be, in a part of the frame where nobody settles.     *)
LEMMA PlayerStays ==
    ASSUME GameInv, UNCHANGED <<roomCtx, player>>,
           \/ pc' \notin {"start", "picture", "draw", "update"}
           \/ pc' \in {"start", "picture", "draw"} /\ pc \in {"start", "picture", "draw"}
    PROVE  PlayerWhole'
<1>1. PlayerWhole
    BY DEF GameInv
<1>2. \A p : /\ InZone(p)' = InZone(p) /\ Place(p)' = Place(p)
            /\ Possible(p)' = Possible(p) /\ Settled(p)' = Settled(p)
  <2>1. roomCtx' = roomCtx /\ player' = player
      OBVIOUS
  <2> QED
      BY <2>1 DEF InZone, Place, Possible, Settled, InOuter, InInner, Side, Own, Other, Both, Alone
<1>3. \A r : Alone(r)' = Alone(r)
    BY DEF Alone, Both
<1> QED
    BY <1>1, <1>2, <1>3 DEF PlayerWhole

LEMMA StutterStep ==
    ASSUME GameInv, UNCHANGED vars
    PROVE  GameInv'
<1>1. UNCHANGED <<bank, roomCtx, buffer, arrived, dma, actorCtx, nbSetupActors, pc, at, player, list>>
    BY DEF vars, loadVars
<1> QED
    BY <1>1, PartsStay DEF GameInv

LEMMA RcpStep ==
    ASSUME GameInv, RcpDone
    PROVE  GameInv'
<1>1. /\ UNCHANGED <<bank, roomCtx, buffer, arrived, dma, actorCtx, nbSetupActors, pc, at, player>>
      /\ list' = NoList
    BY DEF RcpDone, loadVars
<1>2. ListWhole'
    BY <1>1 DEF ListWhole, NoList
<1> QED
    BY <1>1, <1>2, PartsStay DEF GameInv

LEMMA AnswerStep ==
    ASSUME GameInv, Answer
    PROVE  GameInv'
<1> DEFINE req == Head(dma)
<1>1. /\ UNCHANGED <<roomCtx, actorCtx, nbSetupActors, pc, at, player, list>>
      /\ dma # <<>> /\ dma' = Tail(dma)
      /\ \/ /\ req.what = "room"
            /\ buffer' = [buffer EXCEPT ![req.at] = req.file] /\ arrived' = TRUE /\ bank' = bank
         \/ /\ req.what = "object"
            /\ bank' = IF req.at \in DOMAIN bank /\ bank[req.at].state = "sent"
                       THEN [bank EXCEPT ![req.at].state = "answered"] ELSE bank
            /\ buffer' = buffer /\ arrived' = arrived
    BY DEF Answer, DmaMgr_Answer
<1>2. /\ dma \in Seq(Request) /\ bank \in Seq(Entry)
      /\ \A k \in DOMAIN dma : dma[k].what = "room" =>
             /\ roomCtx.status = 1 /\ ~arrived
             /\ dma[k].at = roomCtx.unk_34 /\ dma[k].file = roomCtx.cur.num
      /\ \A k \in DOMAIN dma : dma[k].what = "object" =>
             /\ dma[k].at \in DOMAIN bank
             /\ bank[dma[k].at] = [object |-> dma[k].file, state |-> "sent"]
    BY DEF GameInv, RequestsWhole
<1>3. \A k, l \in DOMAIN dma :
          /\ dma[k].what = "room" /\ dma[l].what = "room" => k = l
          /\ dma[k].what = "object" /\ dma[l].what = "object" /\ dma[k].at = dma[l].at => k = l
          /\ dma[k].what = "room" /\ dma[l].what = "object" => l < k
    BY DEF GameInv, RequestsWhole
<1>4. /\ roomCtx.status = 1 /\ arrived => \A k \in DOMAIN dma : dma[k].what # "object"
      /\ roomCtx.status = 1 => \A i \in DOMAIN bank : bank[i].state # "asked"
    BY DEF GameInv, RequestsWhole
<1>5. /\ 1 \in DOMAIN dma /\ req = dma[1] /\ dma' \in Seq(Request)
      /\ \A k \in DOMAIN dma' : k + 1 \in DOMAIN dma /\ dma'[k] = dma[k + 1] /\ k + 1 # 1 /\ k \in Int /\ ~(k + 1 < 1)
    BY <1>1, <1>2
<1> HIDE DEF req
(* Only how far the entry of an object is loaded may have changed. *)
<1>6. /\ DOMAIN bank' = DOMAIN bank /\ bank' \in Seq(Entry)
      /\ \A i \in DOMAIN bank : /\ bank'[i].object = bank[i].object
                                /\ bank'[i].state = "asked" <=> bank[i].state = "asked"
                                /\ bank'[i].state = "loaded" <=> bank[i].state = "loaded"
      /\ \A i \in DOMAIN bank : ~(req.what = "object" /\ i = req.at) => bank'[i] = bank[i]
  <2>1. CASE bank' = bank
      BY <1>2, <2>1
  <2>2. CASE /\ req.what = "object" /\ req.at \in DOMAIN bank /\ bank[req.at].state = "sent"
             /\ bank' = [bank EXCEPT ![req.at].state = "answered"]
    <3> DEFINE i0 == req.at
               e == [bank[i0] EXCEPT !.state = "answered"]
    <3>1. bank' = [bank EXCEPT ![i0] = e]
        BY <2>2
    <3>2. bank[i0] \in Entry /\ i0 \in DOMAIN bank /\ bank[i0].state = "sent"
        BY <1>2, <2>2
    <3>3. e \in Entry /\ e.object = bank[i0].object /\ e.state = "answered"
        BY <3>2 DEF Entry
    <3> HIDE DEF e
    <3>4. DOMAIN bank' = DOMAIN bank /\ bank' \in Seq(Entry)
        BY <1>2, <3>1, <3>2, <3>3
    <3>5. bank'[i0] = e /\ \A i \in DOMAIN bank : i # i0 => bank'[i] = bank[i]
        BY <3>1, <3>2
    <3> HIDE DEF i0
    <3>6. \A i \in DOMAIN bank : /\ bank'[i].object = bank[i].object
                                 /\ bank'[i].state = "asked" <=> bank[i].state = "asked"
                                 /\ bank'[i].state = "loaded" <=> bank[i].state = "loaded"
        BY <3>2, <3>3, <3>5
    <3> QED
        BY <2>2, <3>4, <3>5, <3>6 DEF i0
  <2> QED
      BY <1>1, <2>1, <2>2
<1>7. \A i : Object_IsLoaded(bank', i) <=> Object_IsLoaded(bank, i)
    BY <1>6 DEF Object_IsLoaded
<1>8. (ActorsWhole(actorCtx) /\ PlanesWhole(actorCtx))'
    BY <1>1 DEF GameInv, ActorsWhole, PlanesWhole, Planes
<1>9. (PlayerWhole /\ LoadingWhole /\ EnteredWhole /\ PassWhole)'
    BY <1>1, PartsStay
<1>10. AskedWhole'
  <2>1. AskedWhole /\ NoneAsks' = NoneAsks /\ pc' = pc
      BY <1>1 DEF GameInv, NoneAsks, InOuter, InInner, Place, Own, Side
  <2>2. (\E i \in DOMAIN bank' : bank'[i].state = "asked") => \E i \in DOMAIN bank : bank[i].state = "asked"
      BY <1>6
  <2> QED
      BY <2>1, <2>2 DEF AskedWhole
<1>11. ListWhole'
  <2>1. ListWhole /\ NoneAsks' = NoneAsks
      BY <1>1 DEF GameInv, NoneAsks, InOuter, InInner, Place, Own, Side
  <2> QED
      BY <1>1, <1>6, <1>7, <2>1 DEF ListWhole
<1>12. InitsWhole'
  <2>1. /\ InitsWhole /\ ToCome' = ToCome /\ \A r : Waiting(r)' <=> Waiting(r)
      BY <1>1 DEF GameInv, ToCome, Rest, Order, Waiting, InZone, Place, Own, Other, Side, Both
  <2> QED
      BY <1>1, <1>6, <1>7, <2>1 DEF InitsWhole
<1>13. RoomsWhole'
  <2>1. RoomsWhole
      BY DEF GameInv
  <2>2. CASE req.what = "object"
      BY <1>1, <2>1, <2>2 DEF RoomsWhole
  <2>3. CASE req.what = "room"
    <3>1. /\ roomCtx.status = 1 /\ req.at = roomCtx.unk_34 /\ req.file = roomCtx.cur.num
          /\ buffer' = [buffer EXCEPT ![req.at] = req.file] /\ arrived' = TRUE
        BY <1>1, <1>2, <1>5, <2>3
    <3>2. /\ roomCtx.unk_34 = 1 - roomCtx.unk_30 /\ roomCtx.cur.segment = NULL
          /\ roomCtx.unk_30 \in {0, 1} /\ roomCtx.prev.segment \in {NULL, roomCtx.unk_30}
        BY <2>1, <3>1 DEF RoomsWhole
    <3>3. /\ buffer'[1 - roomCtx.unk_30] = roomCtx.cur.num /\ DOMAIN buffer' = {0, 1}
          /\ roomCtx.prev.segment # NULL => buffer'[roomCtx.prev.segment] = buffer[roomCtx.prev.segment]
        BY <2>1, <3>1, <3>2 DEF RoomsWhole
    <3> QED
        BY <1>1, <2>1, <3>1, <3>2, <3>3 DEF RoomsWhole
  <2> QED
      BY <1>1, <2>2, <2>3
<1>14. RequestsWhole'
  <2>1. ASSUME NEW k \in DOMAIN dma', dma'[k].what = "room"
        PROVE  /\ roomCtx.status = 1 /\ ~arrived'
               /\ dma'[k].at = roomCtx.unk_34 /\ dma'[k].file = roomCtx.cur.num
    <3>1. /\ k + 1 \in DOMAIN dma /\ dma[k + 1].what = "room" /\ k + 1 # 1
          /\ dma'[k] = dma[k + 1]
        BY <1>5, <2>1
    <3>2. req.what # "room"
        BY <1>3, <1>5, <3>1
    <3> QED
        BY <1>1, <1>2, <3>1, <3>2
  <2>2. ASSUME NEW k \in DOMAIN dma', dma'[k].what = "object"
        PROVE  /\ dma'[k].at \in DOMAIN bank'
               /\ bank'[dma'[k].at] = [object |-> dma'[k].file, state |-> "sent"]
    <3>1. /\ k + 1 \in DOMAIN dma /\ dma[k + 1].what = "object" /\ k + 1 # 1
          /\ dma'[k] = dma[k + 1]
        BY <1>5, <2>2
    <3>2. dma[k + 1].at \in DOMAIN bank
          /\ bank[dma[k + 1].at] = [object |-> dma[k + 1].file, state |-> "sent"]
        BY <1>2, <3>1
    <3>3. ~(req.what = "object" /\ dma[k + 1].at = req.at)
        BY <1>3, <1>5, <3>1
    <3>4. bank'[dma[k + 1].at] = bank[dma[k + 1].at]
        BY <1>6, <3>2, <3>3
    <3> QED
        BY <1>6, <3>1, <3>2, <3>4
  <2>3. ASSUME NEW k \in DOMAIN dma', NEW l \in DOMAIN dma'
        PROVE  /\ dma'[k].what = "room" /\ dma'[l].what = "room" => k = l
               /\ dma'[k].what = "object" /\ dma'[l].what = "object" /\ dma'[k].at = dma'[l].at => k = l
               /\ dma'[k].what = "room" /\ dma'[l].what = "object" => l < k
    <3>1. /\ k + 1 \in DOMAIN dma /\ dma'[k] = dma[k + 1] /\ k \in Int
          /\ l + 1 \in DOMAIN dma /\ dma'[l] = dma[l + 1] /\ l \in Int
        BY <1>5
    <3>2. (k + 1 = l + 1 => k = l) /\ (l + 1 < k + 1 => l < k)
        BY <3>1
    <3> QED
        BY <1>3, <3>1, <3>2
  <2>4. ASSUME roomCtx.status = 1, arrived', NEW k \in DOMAIN dma' PROVE dma'[k].what # "object"
    <3>1. k + 1 \in DOMAIN dma /\ dma'[k] = dma[k + 1] /\ ~(k + 1 < 1)
        BY <1>5
    <3>2. CASE arrived
        BY <1>4, <2>4, <3>1, <3>2
    <3>3. CASE ~arrived
      <4>1. req.what = "room"
          BY <1>1, <2>4, <3>3
      <4> QED
          BY <1>3, <1>5, <3>1, <4>1
    <3> QED
        BY <3>2, <3>3
  <2>5. roomCtx.status = 1 => \A i \in DOMAIN bank' : bank'[i].state # "asked"
      BY <1>4, <1>6
  <2> QED
      BY <1>1, <1>5, <1>6, <2>1, <2>2, <2>3, <2>4, <2>5 DEF RequestsWhole
<1> QED
    BY <1>8, <1>9, <1>10, <1>11, <1>12, <1>13, <1>14 DEF GameInv
-----------------------------------------------------------------------------
(* The frame.                                                               *)

LEMMA PictureStep ==
    ASSUME GameInv, DrawPicture
    PROVE  GameInv'
<1>1. /\ UNCHANGED <<bank, roomCtx, buffer, arrived, dma, actorCtx, nbSetupActors, at, player, list>>
      /\ pc = "picture" /\ pc' = "start"
    BY DEF DrawPicture, loadVars
<1>2. (/\ ActorsWhole(actorCtx) /\ PlanesWhole(actorCtx) /\ RoomsWhole /\ RequestsWhole
        /\ LoadingWhole /\ EnteredWhole)'
    BY <1>1, PartsStay
<1>3. (PlayerWhole /\ PassWhole)'
  <2>1. PlayerWhole'
      BY <1>1, PlayerStays
  <2>2. PassWhole'
      BY <1>1 DEF GameInv, PassWhole
  <2> QED
      BY <2>1, <2>2
<1>4. \A r : (NoneAsks' <=> NoneAsks) /\ (Waiting(r)' <=> Waiting(r))
    BY <1>1 DEF InZone, InOuter, InInner, Place, Side, Own, Other, Both, NoneAsks, Waiting
<1>5. (AskedWhole /\ ListWhole)'
    BY <1>1, <1>4 DEF GameInv, AskedWhole, ListWhole
<1>6. InitsWhole'
    BY <1>1, <1>4 DEF GameInv, InitsWhole
<1> QED
    BY <1>2, <1>3, <1>5, <1>6 DEF GameInv

LEMMA DrawStep ==
    ASSUME GameInv, Draw
    PROVE  GameInv'
<1>1. PICK seen \in SUBSET Drawable :
          /\ pc = "draw" /\ pc' = "start"
          /\ UNCHANGED <<bank, roomCtx, buffer, arrived, dma, nbSetupActors, at, player>>
          /\ list' = [rooms |-> DrawnRooms, actors |-> seen,
                      objects |-> {actorCtx.actor[c].objBankIndex : c \in seen}]
          /\ actorCtx' = [actorCtx EXCEPT !.freed = {},
                             !.actor = [c \in DOMAIN @ |-> [@[c] EXCEPT !.isDrawn = c \in seen]]]
    BY DEF Draw, loadVars
<1> DEFINE A == [d \in DOMAIN actorCtx.actor |-> actorCtx.actor[d]]
           F == [c \in DOMAIN actorCtx.actor |-> [actorCtx.actor[c] EXCEPT !.isDrawn = c \in seen]]
           B == actorCtx.prop
           C == actorCtx.door
           E == actorCtx.entered
           G == actorCtx.freed
<1>2. ActorsWhole(actorCtx) /\ PlanesWhole(actorCtx)
    BY DEF GameInv
<1>3. /\ actorCtx = [actor |-> A, prop |-> B, door |-> C, entered |-> E, freed |-> G]
      /\ E \in [Plane -> BOOLEAN]
      /\ \A d \in DOMAIN actorCtx.actor : actorCtx.actor[d] \in AnActor
    BY <1>2 DEF ActorsWhole
<1>4. actorCtx' = [actorCtx EXCEPT !.freed = {}, !.actor = F]
    BY <1>1
<1>5. /\ DOMAIN F = DOMAIN actorCtx.actor /\ F = [c \in DOMAIN actorCtx.actor |-> F[c]]
      /\ \A c \in DOMAIN actorCtx.actor : F[c] = [actorCtx.actor[c] EXCEPT !.isDrawn = c \in seen]
    OBVIOUS
<1>7. ASSUME NEW c \in DOMAIN actorCtx.actor
      PROVE  /\ F[c] \in AnActor /\ Alike(F[c], actorCtx.actor[c])
             /\ F[c].loading = actorCtx.actor[c].loading /\ F[c].room = actorCtx.actor[c].room
             /\ F[c].isDrawn = (c \in seen)
  <2> DEFINE a == actorCtx.actor[c]
             b == c \in seen
             x == F[c]
  <2>1. a \in AnActor /\ b \in BOOLEAN /\ x = [a EXCEPT !.isDrawn = b]
      BY <1>3, <1>5
  <2> HIDE DEF a, b, x
  <2>2. x \in AnActor /\ Alike(x, a) /\ x.loading = a.loading /\ x.room = a.room /\ x.isDrawn = b
      BY <2>1 DEF AnActor, Alike
  <2> QED
      BY <2>2 DEF a, b, x
<1> HIDE DEF A, B, C, E, F, G
<1>8. actorCtx' = [actor |-> F, prop |-> B, door |-> C, entered |-> E, freed |-> {}]
    BY <1>3, <1>4
<1>9. /\ ActorsWhole(actorCtx') /\ actorCtx'.actor = F /\ actorCtx'.entered = E /\ actorCtx'.freed = {}
      /\ Planes(actorCtx') = Planes(actorCtx) /\ Order(actorCtx') = Order(actorCtx)
  <2>1. Composed(actorCtx', F, actorCtx.prop, actorCtx.door, E, {})
      BY <1>3, <1>8 DEF B, C, Composed
  <2>2. Refits(actorCtx, F)
      BY <1>5, <1>7 DEF Refits, Alike
  <2> QED
      BY <1>2, <2>1, <2>2, WithActors
<1>10. Planes(actorCtx) \subseteq DOMAIN actorCtx.actor
    BY DEF Planes
<1>11. PlanesWhole(actorCtx')
  <2>1. \A c \in DOMAIN actorCtx.actor \ Planes(actorCtx) : ~actorCtx.actor[c].loading
      BY <1>2 DEF PlanesWhole
  <2>2. \A c \in DOMAIN actorCtx.actor \ Planes(actorCtx) : ~F[c].loading
      BY <1>7, <2>1
  <2>3. \A c \in Planes(actorCtx) : Alike(F[c], actorCtx.actor[c])
      BY <1>7, <1>10
  <2>4. actorCtx'.entered = actorCtx.entered
      BY <1>9 DEF E
  <2> QED
      BY <1>2, <1>5, <1>9, <2>2, <2>3, <2>4, SamePlanes
<1>12. (ActorsWhole(actorCtx) /\ PlanesWhole(actorCtx))'
    BY <1>9, <1>11
<1>13. (RoomsWhole /\ RequestsWhole /\ PlayerWhole)'
    BY <1>1, PartsStay, PlayerStays
<1>14. LoadingWhole'
  <2>1. ASSUME NEW c \in Planes(actorCtx)
        PROVE  /\ F[c].live = actorCtx.actor[c].live /\ F[c].plane = actorCtx.actor[c].plane
               /\ F[c].loading = actorCtx.actor[c].loading /\ F[c].room = actorCtx.actor[c].room
      BY <1>7, <1>10 DEF Alike
  <2>2. LoadingWhole /\ \A p : InZone(p)' <=> InZone(p)
      BY <1>1 DEF GameInv, InZone, Place
  <2> QED
      BY <1>1, <1>9, <2>1, <2>2 DEF LoadingWhole
<1>15. (EnteredWhole /\ PassWhole)'
    BY <1>1, <1>9 DEF GameInv, EnteredWhole, PassWhole, E
<1>16. \A r : (NoneAsks' <=> NoneAsks) /\ (Waiting(r)' <=> Waiting(r))
    BY <1>1 DEF InZone, InOuter, InInner, Place, Side, Own, Other, Both, NoneAsks, Waiting
<1>17. AskedWhole'
    BY <1>1, <1>16 DEF GameInv, AskedWhole
<1>18. InitsWhole
    BY DEF GameInv
<1>19. \A c \in seen : c \in DOMAIN actorCtx.actor /\ ~actorCtx.actor[c].init /\ actorCtx.actor[c].live
    BY DEF Drawable
<1>20. InitsWhole'
  <2>1. nbSetupActors # <<>> => roomCtx.status = 0 /\ Waiting(roomCtx.cur.num)
      BY <1>1, <1>18 DEF InitsWhole
  <2>2. ASSUME NEW c \in DOMAIN actorCtx.actor, F[c].init
        PROVE  /\ roomCtx.status = 0 /\ ~F[c].isDrawn
               /\ F[c].objBankIndex \in DOMAIN bank /\ bank[F[c].objBankIndex].object = F[c].object
               /\ Waiting(F[c].room)
    <3>1. /\ actorCtx.actor[c].init /\ F[c].objBankIndex = actorCtx.actor[c].objBankIndex
          /\ F[c].object = actorCtx.actor[c].object /\ F[c].room = actorCtx.actor[c].room
        BY <1>7, <2>2 DEF Alike
    <3>2. ~F[c].isDrawn
        BY <1>7, <1>19, <3>1
    <3>3. /\ roomCtx.status = 0
          /\ actorCtx.actor[c].objBankIndex \in DOMAIN bank
          /\ bank[actorCtx.actor[c].objBankIndex].object = actorCtx.actor[c].object
          /\ Waiting(actorCtx.actor[c].room)
        BY <1>1, <1>18, <3>1 DEF InitsWhole
    <3> QED
        BY <3>1, <3>2, <3>3
  <2>3. ASSUME NEW c \in DOMAIN actorCtx.actor, ~F[c].init
        PROVE  F[c].used = F[c].object /\ (F[c].live => Object_IsLoaded(bank, F[c].objBankIndex))
    <3>1. /\ ~actorCtx.actor[c].init /\ F[c].objBankIndex = actorCtx.actor[c].objBankIndex
          /\ F[c].object = actorCtx.actor[c].object /\ F[c].used = actorCtx.actor[c].used
          /\ F[c].live = actorCtx.actor[c].live
        BY <1>7, <2>3 DEF Alike
    <3>2. /\ actorCtx.actor[c].used = actorCtx.actor[c].object
          /\ actorCtx.actor[c].live => Object_IsLoaded(bank, actorCtx.actor[c].objBankIndex)
        BY <1>18, <3>1 DEF InitsWhole
    <3> QED
        BY <3>1, <3>2
  <2>4. DOMAIN actorCtx'.actor = DOMAIN actorCtx.actor /\ actorCtx'.actor = F
      BY <1>5, <1>9
  <2> QED
      BY <1>1, <1>16, <2>1, <2>2, <2>3, <2>4, ZenonT(60) DEF InitsWhole
<1>21. ListWhole'
  <2>1. /\ list'.rooms = DrawnRooms /\ list'.actors = seen
        /\ list'.objects = {actorCtx.actor[c].objBankIndex : c \in seen}
        /\ list' = [rooms |-> list'.rooms, objects |-> list'.objects, actors |-> list'.actors]
      BY <1>1
  <2>2. RoomsWhole
      BY DEF GameInv
  <2>3. /\ DrawnRooms \subseteq {0, 1}
        /\ roomCtx.status = 1 => roomCtx.unk_34 \notin DrawnRooms
        /\ roomCtx.prev.num = NoRoom => roomCtx.unk_30 \notin DrawnRooms
      BY <2>2 DEF RoomsWhole, DrawnRooms, NULL
  <2>4. \A c \in seen : c \in DOMAIN F /\ F[c].isDrawn
      BY <1>5, <1>7, <1>19
  <2>5. \A c \in seen : Object_IsLoaded(bank, actorCtx.actor[c].objBankIndex)
      BY <1>18, <1>19 DEF InitsWhole
  <2> QED
      BY <1>1, <1>9, <2>1, <2>3, <2>4, <2>5, ZenonT(60) DEF ListWhole
<1> QED
    BY <1>12, <1>13, <1>14, <1>15, <1>17, <1>20, <1>21 DEF GameInv

(* The plane in whose zone the player is has its actor. *)
LEMMA ZoneEntered ==
    ASSUME GameInv, NEW p \in Plane, InZone(p)
    PROVE  /\ actorCtx.entered[p]
           /\ \E c \in Planes(actorCtx) : actorCtx.actor[c].plane = p /\ actorCtx.actor[c].live
<1>1. Possible(p) /\ player \in Int
    BY DEF GameInv, PlayerWhole
<1>2. \A s \in {0, 1} : \/ Sides[p][s] = roomCtx.prev.num
                        \/ roomCtx.status = 0 /\ Sides[p][s] = roomCtx.cur.num
          => actorCtx.entered[p]
    BY DEF GameInv, EnteredWhole
<1>3. PICK s \in {0, 1}, t \in {0, 1} : Own(p) = Sides[p][s] /\ Other(p) = Sides[p][t]
    BY <1>1, SidesAre
<1>4. actorCtx.entered[p]
    BY <1>1, <1>2, <1>3 DEF Possible, Alone, Both
<1>5. PlanesWhole(actorCtx)
    BY DEF GameInv
<1> QED
    BY <1>4, <1>5 DEF PlanesWhole

LEMMA StartActorsStep ==
    ASSUME GameInv, StartActors, HasRoom'
    PROVE  GameInv'
<1> DEFINE dom == DOMAIN actorCtx.actor
<1>1. /\ pc = "actors" /\ nbSetupActors' = <<>>
      /\ UNCHANGED <<bank, roomCtx, buffer, arrived, dma, player, list>>
      /\ actorCtx' = SpawnSetupActors(actorCtx, bank, roomCtx, nbSetupActors)
      /\ at' = FirstActor(actorCtx') /\ pc' = (IF at' = NULL THEN "draw" ELSE "update")
    BY DEF StartActors, loadVars, At
<1>2. /\ ActorsWhole(actorCtx) /\ PlanesWhole(actorCtx) /\ bank \in Seq(Entry)
      /\ nbSetupActors \in Seq(Object) /\ actorCtx.freed = {}
    BY <1>1 DEF GameInv, RequestsWhole, PassWhole
<1>3. roomCtx.cur.num \in Room
    BY DEF GameInv, RoomsWhole, ARoom
<1>4. ActorsMade(actorCtx, actorCtx', bank, roomCtx)
  <2>1. FreeBlocks(SpawnSetupActors(actorCtx, bank, roomCtx, nbSetupActors)) # {}
      BY <1>1 DEF HasRoom
  <2>2. ActorsMade(actorCtx, SpawnSetupActors(actorCtx, bank, roomCtx, nbSetupActors), bank, roomCtx)
      BY <1>2, <1>3, <2>1, SpawnedActors
  <2> QED
      BY <1>1, <2>2
<1>5. nbSetupActors = <<>> => actorCtx' = actorCtx
  <2>1. PICK V : /\ Runs(V, "setup", <<bank, roomCtx>>, actorCtx, nbSetupActors, Len(nbSetupActors))
                 /\ SpawnSetupActors(actorCtx, bank, roomCtx, nbSetupActors) = V[Len(nbSetupActors)]
      BY <1>2, SetupRuns
  <2>2. V[0] = actorCtx
      BY <2>1 DEF Runs
  <2> QED
      BY <1>1, <2>1, <2>2
<1>6. /\ ActorsWhole(actorCtx') /\ PlanesWhole(actorCtx') /\ actorCtx'.entered = actorCtx.entered
      /\ dom \subseteq DOMAIN actorCtx'.actor /\ \A c \in dom : actorCtx'.actor[c] = actorCtx.actor[c]
      /\ actorCtx'.freed = {}
      /\ \A c \in DOMAIN actorCtx'.actor \ dom :
             Fresh(actorCtx'.actor[c], actorCtx'.actor[c].object, 0, bank, roomCtx)
    BY <1>2, <1>4 DEF ActorsMade, Kept
<1>7. Planes(actorCtx') = Planes(actorCtx) /\ Planes(actorCtx) \subseteq dom
    BY <1>6 DEF Planes, Fresh
<1>8. /\ ToCome' = DOMAIN actorCtx'.actor
      /\ pc' = "update" => at' \in DOMAIN actorCtx'.actor
      /\ DOMAIN actorCtx'.actor # {} => pc' = "update"
      /\ pc' = "draw" => DOMAIN actorCtx'.actor = {}
  <2>1. DOMAIN actorCtx'.actor \subseteq Block /\ NULL \notin Block
      BY <1>6, ActorsAssumption DEF ActorsWhole, NULL
  <2>2. \/ FirstActor(actorCtx') = NULL /\ DOMAIN actorCtx'.actor = {}
        \/ /\ FirstActor(actorCtx') \in DOMAIN actorCtx'.actor
           /\ Rest(actorCtx', FirstActor(actorCtx')) = DOMAIN actorCtx'.actor
      BY <1>6, FirstComes
  <2> QED
      BY <1>1, <2>1, <2>2 DEF ToCome
<1> HIDE DEF dom
<1>9. (ActorsWhole(actorCtx) /\ PlanesWhole(actorCtx))'
    BY <1>6
<1>10. (RoomsWhole /\ RequestsWhole)'
    BY <1>1 DEF GameInv, RoomsWhole, RequestsWhole
<1>11. /\ \A p : /\ Possible(p)' <=> Possible(p)
                 /\ Settled(p)' <=> Settled(p)
                 /\ InZone(p)' <=> InZone(p)
                 /\ Place(p)' = Place(p)
       /\ \A r : (Alone(r)' <=> Alone(r)) /\ (Waiting(r)' <=> Waiting(r))
       /\ NoneAsks' <=> NoneAsks
    BY <1>1 DEF Possible, Settled, InZone, InOuter, InInner, Place, Side, Own, Other, Both, Alone,
                NoneAsks, Waiting
<1>12. PlayerWhole'
  <2>1. PlayerWhole
      BY DEF GameInv
  <2>2. ASSUME NEW p \in Plane, InZone(p)
        PROVE  \E c \in ToCome' : actorCtx'.actor[c].plane = p /\ actorCtx'.actor[c].live
    <3>1. PICK c \in Planes(actorCtx) : actorCtx.actor[c].plane = p /\ actorCtx.actor[c].live
        BY <2>2, ZoneEntered
    <3> QED
        BY <1>6, <1>7, <1>8, <3>1
  <2>3. pc' = "draw" => \A p \in Plane : ~InZone(p)
      BY <1>8, <2>2
  <2>4. pc' \in {"draw", "update"}
      BY <1>1
  <2> QED
      BY <1>1, <1>11, <2>1, <2>2, <2>3, <2>4 DEF PlayerWhole
<1>13. LoadingWhole'
  <2>1. LoadingWhole
      BY DEF GameInv
  <2> QED
      BY <1>1, <1>6, <1>7, <1>11, <2>1 DEF LoadingWhole
<1>14. EnteredWhole'
    BY <1>1, <1>6 DEF GameInv, EnteredWhole
<1>15. AskedWhole'
    BY <1>1, <1>11 DEF GameInv, AskedWhole
<1>16. PassWhole'
    BY <1>1, <1>6, <1>8 DEF PassWhole
<1>17. InitsWhole'
  <2>1. InitsWhole
      BY DEF GameInv
  <2>2. ASSUME NEW c \in dom
        PROVE  LET a == actorCtx.actor[c]
               IN  IF a.init
                   THEN /\ roomCtx.status = 0 /\ ~a.isDrawn
                        /\ a.objBankIndex \in DOMAIN bank /\ bank[a.objBankIndex].object = a.object
                        /\ Waiting(a.room) \/ bank[a.objBankIndex].state = "loaded"
                   ELSE a.used = a.object /\ (a.live => Object_IsLoaded(bank, a.objBankIndex))
      BY <2>1, <2>2 DEF InitsWhole, dom
  <2>3. ASSUME NEW c \in DOMAIN actorCtx'.actor, c \notin dom
        PROVE  LET a == actorCtx'.actor[c]
               IN  IF a.init
                   THEN /\ roomCtx.status = 0 /\ ~a.isDrawn
                        /\ a.objBankIndex \in DOMAIN bank /\ bank[a.objBankIndex].object = a.object
                        /\ Waiting(a.room)
                   ELSE a.used = a.object /\ (a.live => Object_IsLoaded(bank, a.objBankIndex))
    <3>1. nbSetupActors # <<>>
        BY <1>5, <2>3 DEF dom
    <3>2. /\ roomCtx.status = 0
          /\ Waiting(roomCtx.cur.num) \/ \A i \in DOMAIN bank : bank[i].state = "loaded"
        BY <2>1, <3>1 DEF InitsWhole
    <3>3. Fresh(actorCtx'.actor[c], actorCtx'.actor[c].object, 0, bank, roomCtx)
        BY <1>6, <2>3
    <3> QED
        BY <3>2, <3>3 DEF Fresh, Object_IsLoaded
  <2>4. \A c \in DOMAIN actorCtx'.actor : pc' = "update" /\ c \in ToCome'
      BY <1>8
  <2>5. ASSUME NEW c \in DOMAIN actorCtx'.actor
        PROVE  LET a == actorCtx'.actor[c]
               IN  IF a.init
                   THEN /\ roomCtx.status = 0 /\ ~a.isDrawn
                        /\ a.objBankIndex \in DOMAIN bank /\ bank[a.objBankIndex].object = a.object
                        /\ Waiting(a.room) \/ bank[a.objBankIndex].state = "loaded"
                   ELSE a.used = a.object /\ (a.live => Object_IsLoaded(bank, a.objBankIndex))
      BY <1>6, <2>2, <2>3
  <2> QED
      BY <1>1, <1>11, <2>4, <2>5 DEF InitsWhole
<1>18. ListWhole'
  <2>1. ListWhole
      BY DEF GameInv
  <2>2. pc' \in {"actors", "update", "draw"} /\ pc # "update" /\ pc # "draw"
      BY <1>1
  <2> QED
      BY <1>1, <1>6, <2>1, <2>2 DEF ListWhole, dom
<1> QED
    BY <1>9, <1>10, <1>12, <1>13, <1>14, <1>15, <1>16, <1>17, <1>18 DEF GameInv

LEMMA NoRoomStep ==
    ASSUME GameInv, HandleRoom, ~RoomArrives
    PROVE  GameInv'
<1>1. /\ UNCHANGED <<bank, roomCtx, buffer, arrived, dma, actorCtx, nbSetupActors, at, player, list>>
      /\ pc = "room" /\ pc' = "actors"
    BY DEF HandleRoom, func_800973FC, loadVars
<1>2. (/\ ActorsWhole(actorCtx) /\ PlanesWhole(actorCtx) /\ RoomsWhole /\ RequestsWhole
        /\ LoadingWhole /\ EnteredWhole)'
    BY <1>1, PartsStay
<1>3. (PlayerWhole /\ PassWhole)'
  <2>1. PlayerWhole'
      BY <1>1, PlayerStays
  <2>2. PassWhole'
      BY <1>1 DEF GameInv, PassWhole
  <2> QED
      BY <2>1, <2>2
<1>4. \A r : (NoneAsks' <=> NoneAsks) /\ (Waiting(r)' <=> Waiting(r))
    BY <1>1 DEF InZone, InOuter, InInner, Place, Side, Own, Other, Both, NoneAsks, Waiting
<1>5. (AskedWhole /\ ListWhole)'
    BY <1>1, <1>4 DEF GameInv, AskedWhole, ListWhole
<1>6. InitsWhole'
    BY <1>1, <1>4 DEF GameInv, InitsWhole
<1> QED
    BY <1>2, <1>3, <1>5, <1>6 DEF GameInv

(* The room that arrives brings its object list: the actors of objects that *)
(* go are killed first.                                                     *)
LEMMA RoomActors ==
    ASSUME GameInv, roomCtx.status = 1, NEW li \in Seq(Object),
           NEW b, b = func_8009899C(bank, li),
           NEW ac, ac = IF Staying(bank, li) < Len(bank) THEN func_80031A28(actorCtx, b) ELSE actorCtx
    PROVE  /\ ActorsWhole(ac) /\ PlanesWhole(ac) /\ ac.entered = actorCtx.entered /\ ac.freed = actorCtx.freed
           /\ DOMAIN ac.actor = DOMAIN actorCtx.actor /\ Planes(ac) = Planes(actorCtx)
           /\ \A c \in Planes(ac) : ac.actor[c] = actorCtx.actor[c]
           /\ \A c \in DOMAIN ac.actor :
                  /\ ~ac.actor[c].init /\ ac.actor[c].used = ac.actor[c].object
                  /\ ac.actor[c].live => Object_IsLoaded(b, ac.actor[c].objBankIndex)
                  /\ ac.actor[c].isDrawn = actorCtx.actor[c].isDrawn
<1>1. /\ ActorsWhole(actorCtx) /\ PlanesWhole(actorCtx) /\ bank \in Seq(Entry)
      /\ \A c \in DOMAIN actorCtx.actor :
             /\ ~actorCtx.actor[c].init /\ actorCtx.actor[c].used = actorCtx.actor[c].object
             /\ actorCtx.actor[c].live => Object_IsLoaded(bank, actorCtx.actor[c].objBankIndex)
    BY DEF GameInv, RequestsWhole, InitsWhole
<1>2. ~(Staying(bank, li) < Len(bank)) => \A i \in DOMAIN bank : i \in DOMAIN b /\ b[i] = bank[i]
    BY <1>1, BankIs
<1>3. CASE Staying(bank, li) < Len(bank)
  <2>1. ac = func_80031A28(actorCtx, b)
      BY <1>3
  <2>2. /\ ActorsWhole(ac) /\ PlanesWhole(ac) /\ ac.entered = actorCtx.entered /\ ac.freed = actorCtx.freed
        /\ Planes(ac) = Planes(actorCtx) /\ DOMAIN ac.actor = DOMAIN actorCtx.actor
        /\ \A c \in DOMAIN actorCtx.actor :
               ac.actor[c] = IF Object_IsLoaded(b, actorCtx.actor[c].objBankIndex) THEN actorCtx.actor[c]
                             ELSE Actor_Kill(actorCtx.actor[c])
      BY <1>1, <2>1, KilledWithoutObject
  <2>3. ASSUME NEW c \in Planes(ac) PROVE ac.actor[c] = actorCtx.actor[c]
    <3>1. actorCtx.actor[c].objBankIndex = 0 /\ c \in DOMAIN actorCtx.actor
        BY <1>1, <2>2, <2>3 DEF PlanesWhole, Planes
    <3> QED
        BY <2>2, <3>1 DEF Object_IsLoaded
  <2>4. ASSUME NEW c \in DOMAIN ac.actor
        PROVE  /\ ~ac.actor[c].init /\ ac.actor[c].used = ac.actor[c].object
               /\ ac.actor[c].live => Object_IsLoaded(b, ac.actor[c].objBankIndex)
               /\ ac.actor[c].isDrawn = actorCtx.actor[c].isDrawn
    <3>1. /\ ~actorCtx.actor[c].init /\ actorCtx.actor[c].used = actorCtx.actor[c].object
          /\ actorCtx.actor[c] \in AnActor
        BY <1>1, <2>2, <2>4 DEF ActorsWhole
    <3>2. ac.actor[c] = IF Object_IsLoaded(b, actorCtx.actor[c].objBankIndex) THEN actorCtx.actor[c]
                        ELSE Actor_Kill(actorCtx.actor[c])
        BY <2>2, <2>4
    <3> DEFINE x == actorCtx.actor[c]
    <3> HIDE DEF x
    <3>3. x \in AnActor /\ ~x.init /\ x.used = x.object
        BY <3>1, <3>2 DEF x
    <3>4. x \in AnActor => /\ Actor_Kill(x).init = x.init /\ Actor_Kill(x).used = x.used
                           /\ Actor_Kill(x).object = x.object /\ Actor_Kill(x).isDrawn = x.isDrawn
                           /\ ~Actor_Kill(x).live
        BY DEF Actor_Kill, AnActor
    <3> QED
        BY <3>1, <3>2, <3>4 DEF x
  <2> QED
      BY <2>2, <2>3, <2>4
<1>4. CASE ~(Staying(bank, li) < Len(bank))
  <2>1. ac = actorCtx
      BY <1>4
  <2>2. \A i : Object_IsLoaded(bank, i) => Object_IsLoaded(b, i)
      BY <1>2, <1>4 DEF Object_IsLoaded
  <2> QED
      BY <1>1, <2>1, <2>2
<1> QED
    BY <1>3, <1>4

LEMMA RoomStep ==
    ASSUME GameInv, HandleRoom, RoomArrives, HasRoom'
    PROVE  GameInv'
<1> DEFINE r == buffer[roomCtx.unk_34]
           li == ObjectList[r]
           ac == IF Staying(bank, li) < Len(bank) THEN func_80031A28(actorCtx, bank') ELSE actorCtx
<1>1. /\ pc = "room" /\ pc' = "actors" /\ UNCHANGED <<at, player, list, buffer, dma>>
      /\ roomCtx.status = 1 /\ arrived /\ arrived' = FALSE
      /\ roomCtx' = RoomArrived(roomCtx) /\ bank' = func_8009899C(bank, li)
      /\ nbSetupActors' = SetupActorList[r]
      /\ actorCtx' = Actor_SpawnTransitionActors(ac, bank', roomCtx')
    BY DEF HandleRoom, func_800973FC, RoomArrives
<1>2. /\ ActorsWhole(actorCtx) /\ PlanesWhole(actorCtx) /\ RoomsWhole /\ RequestsWhole /\ PlayerWhole
      /\ LoadingWhole /\ PassWhole /\ ListWhole
    BY DEF GameInv
<1>3. /\ r = roomCtx.cur.num /\ r \in Room /\ roomCtx.prev.num # NoRoom
      /\ roomCtx.unk_34 = 1 - roomCtx.unk_30
    BY <1>1, <1>2 DEF RoomsWhole, ARoom
<1>4. li \in Seq(Object) /\ SetupActorList[r] \in Seq(Object)
    BY <1>3, LoadingAssumption, ActorsAssumption
<1>5. /\ roomCtx'.cur.num = roomCtx.cur.num /\ roomCtx'.cur.segment = roomCtx.unk_34
      /\ roomCtx'.prev = roomCtx.prev /\ roomCtx'.status = 0 /\ roomCtx'.unk_30 = roomCtx.unk_30
      /\ roomCtx'.cur = [num |-> roomCtx'.cur.num, segment |-> roomCtx'.cur.segment]
      /\ roomCtx' = [cur |-> roomCtx'.cur, prev |-> roomCtx'.prev, status |-> roomCtx'.status,
                     unk_30 |-> roomCtx'.unk_30, unk_34 |-> roomCtx'.unk_34]
  <2> DEFINE A == roomCtx.cur
             B == roomCtx.prev
             C == roomCtx.status
             D == roomCtx.unk_30
             E == roomCtx.unk_34
  <2>1. roomCtx = [cur |-> A, prev |-> B, status |-> C, unk_30 |-> D, unk_34 |-> E] /\ A \in ARoom
      BY <1>2 DEF RoomsWhole
  <2>2. roomCtx' = [roomCtx EXCEPT !.status = 0, !.cur.segment = E]
      BY <1>1 DEF RoomArrived
  <2> HIDE DEF A, B, C, D, E
  <2>3. roomCtx' = [cur |-> [A EXCEPT !.segment = E], prev |-> B, status |-> 0, unk_30 |-> D, unk_34 |-> E]
      BY <2>1, <2>2
  <2>4. /\ roomCtx'.cur.num = A.num /\ roomCtx'.cur.segment = E
        /\ roomCtx'.prev = B /\ roomCtx'.status = 0 /\ roomCtx'.unk_30 = D
        /\ roomCtx'.cur = [num |-> roomCtx'.cur.num, segment |-> roomCtx'.cur.segment]
        /\ roomCtx' = [cur |-> roomCtx'.cur, prev |-> roomCtx'.prev, status |-> roomCtx'.status,
                       unk_30 |-> roomCtx'.unk_30, unk_34 |-> roomCtx'.unk_34]
      BY <2>1, <2>3 DEF ARoom
  <2> QED
      BY <2>4 DEF A, B, D, E
<1>6. /\ bank' \in Seq(Entry) /\ \A i \in DOMAIN bank' : bank'[i].state \in {"loaded", "asked"}
  <2>1. bank \in Seq(Entry)
      BY <1>2 DEF RequestsWhole
  <2> HIDE DEF li
  <2> QED
      BY <1>1, <1>4, <2>1, BankIs
<1>7. /\ ActorsWhole(ac) /\ PlanesWhole(ac) /\ ac.entered = actorCtx.entered /\ ac.freed = actorCtx.freed
      /\ DOMAIN ac.actor = DOMAIN actorCtx.actor /\ Planes(ac) = Planes(actorCtx)
      /\ \A c \in Planes(ac) : ac.actor[c] = actorCtx.actor[c]
      /\ \A c \in DOMAIN ac.actor :
             /\ ~ac.actor[c].init /\ ac.actor[c].used = ac.actor[c].object
             /\ ac.actor[c].live => Object_IsLoaded(bank', ac.actor[c].objBankIndex)
             /\ ac.actor[c].isDrawn = actorCtx.actor[c].isDrawn
  <2>1. ac = IF Staying(bank, li) < Len(bank) THEN func_80031A28(actorCtx, bank') ELSE actorCtx
      OBVIOUS
  <2> HIDE DEF li, ac
  <2> QED
      BY <1>1, <1>4, <2>1, RoomActors
<1> HIDE DEF r, li, ac
<1>8. PlanesMade(ac, actorCtx', roomCtx', Cardinality(Plane))
  <2>1. roomCtx'.cur.num \in Room
      BY <1>3, <1>5
  <2>2. FreeBlocks(Actor_SpawnTransitionActors(ac, bank', roomCtx')) # {}
      BY <1>1 DEF HasRoom
  <2>3. PlanesMade(ac, Actor_SpawnTransitionActors(ac, bank', roomCtx'), roomCtx', Cardinality(Plane))
      BY <1>6, <1>7, <2>1, <2>2, SpawnedPlanes
  <2> QED
      BY <1>1, <2>3
<1>9. /\ ActorsWhole(actorCtx') /\ PlanesWhole(actorCtx') /\ actorCtx'.freed = actorCtx.freed
      /\ DOMAIN ac.actor \subseteq DOMAIN actorCtx'.actor
      /\ \A c \in DOMAIN ac.actor : actorCtx'.actor[c] = ac.actor[c]
      /\ \A c \in DOMAIN actorCtx'.actor \ DOMAIN ac.actor :
             NewPlane(actorCtx'.actor[c], roomCtx') /\ ~actorCtx.entered[actorCtx'.actor[c].plane]
    BY <1>7, <1>8 DEF PlanesMade, Kept
<1>10. \A p \in Plane : Adjoins(p, roomCtx') => actorCtx'.entered[p]
    BY <1>8, Numbers DEF PlanesMade
<1>11. (ActorsWhole(actorCtx) /\ PlanesWhole(actorCtx))'
    BY <1>9
<1>12. RoomsWhole'
  <2>1. /\ roomCtx.cur \in ARoom /\ roomCtx.prev \in ARoom /\ roomCtx.cur.num # NoRoom
        /\ roomCtx.unk_30 \in {0, 1} /\ roomCtx.prev.segment \in {NULL, roomCtx.unk_30}
        /\ roomCtx.prev.num = NoRoom => roomCtx.prev.segment = NULL
        /\ DOMAIN buffer = {0, 1} /\ buffer[1 - roomCtx.unk_30] = roomCtx.cur.num
        /\ roomCtx.prev.segment # NULL => buffer[roomCtx.prev.segment] = roomCtx.prev.num
      BY <1>1, <1>2 DEF RoomsWhole
  <2>2. roomCtx'.cur \in ARoom /\ roomCtx'.cur.segment \in {NULL, 1 - roomCtx.unk_30}
      BY <1>3, <1>5, <2>1 DEF ARoom
  <2>3. buffer'[roomCtx'.cur.segment] = roomCtx'.cur.num
      BY <1>1, <1>3, <1>5, <2>1
  <2>4. /\ roomCtx'.prev \in ARoom /\ roomCtx'.cur.num # NoRoom
        /\ roomCtx'.unk_30 \in {0, 1} /\ roomCtx'.status = 0
        /\ roomCtx'.cur.segment \in {NULL, 1 - roomCtx'.unk_30}
        /\ roomCtx'.prev.segment \in {NULL, roomCtx'.unk_30}
        /\ roomCtx'.prev.num = NoRoom => roomCtx'.prev.segment = NULL
        /\ DOMAIN buffer' = {0, 1}
        /\ roomCtx'.prev.segment # NULL => buffer'[roomCtx'.prev.segment] = roomCtx'.prev.num
      BY <1>1, <1>5, <2>1, <2>2
  <2>5. roomCtx' = [cur |-> roomCtx'.cur, prev |-> roomCtx'.prev, status |-> roomCtx'.status,
                    unk_30 |-> roomCtx'.unk_30, unk_34 |-> roomCtx'.unk_34]
      BY <1>5
  <2>6. arrived' \in BOOLEAN
      BY <1>1
  <2> QED
      BY <2>2, <2>3, <2>4, <2>5, <2>6 DEF RoomsWhole
<1>13. RequestsWhole'
  <2>1. \A k \in DOMAIN dma : dma[k] \in Request
      BY <1>2 DEF RequestsWhole
  <2>2. DOMAIN dma = {}
      BY <1>1, <1>2, <2>1 DEF RequestsWhole, Request
  <2> QED
      BY <1>1, <1>2, <1>5, <1>6, <2>2 DEF RequestsWhole
<1>14. /\ player \in Int
       /\ \A p : /\ InZone(p)' <=> InZone(p)
                 /\ Place(p)' = Place(p) /\ Own(p)' = Own(p) /\ Other(p)' = Other(p)
                 /\ (InInner(p)' <=> InInner(p)) /\ (InOuter(p)' <=> InOuter(p))
       /\ \A x, y : Both(x, y)' <=> Both(x, y)
    BY <1>1, <1>2, <1>5 DEF InZone, InOuter, InInner, Place, Side, Own, Other, Both, PlayerWhole
<1>15. \A p \in Plane : /\ Place(p) # 0 /\ Place(p) # 5
                        /\ InZone(p) => IF p \in Stepped THEN Both(Own(p), Other(p)) ELSE Both(Other(p), Own(p))
    BY <1>1, <1>2 DEF PlayerWhole, Possible, Alone
<1>16. PlayerWhole'
    BY <1>1, <1>2, <1>14, <1>15 DEF PlayerWhole, Possible
<1>17. LoadingWhole'
  <2>1. ASSUME NEW c \in Planes(actorCtx'), c \in DOMAIN ac.actor
        PROVE  c \in Planes(actorCtx) /\ actorCtx'.actor[c] = actorCtx.actor[c]
      BY <1>7, <1>9, <2>1 DEF Planes
  <2>2. ASSUME NEW c \in Planes(actorCtx'), c \notin DOMAIN ac.actor
        PROVE  ~actorCtx'.actor[c].loading /\ ~InZone(actorCtx'.actor[c].plane)
    <3>1. /\ actorCtx'.actor[c].plane \in Plane /\ ~actorCtx'.actor[c].loading
          /\ ~actorCtx.entered[actorCtx'.actor[c].plane]
        BY <1>9, <2>2 DEF NewPlane, Planes
    <3> QED
        BY <3>1, ZoneEntered
  <2>3. ASSUME NEW c \in Planes(actorCtx'), actorCtx'.actor[c].live
        PROVE  LET a == actorCtx'.actor[c]
               IN  /\ a.loading = (/\ a.plane \in Stepped /\ InZone(a.plane)
                                   /\ roomCtx.prev.num # NoRoom)
                   /\ (a.loading => a.room = roomCtx.cur.num)
    <3>1. CASE c \in DOMAIN ac.actor
        BY <1>2, <2>1, <2>3, <3>1 DEF LoadingWhole
    <3>2. CASE c \notin DOMAIN ac.actor
      <4>1. actorCtx'.actor[c].loading \in BOOLEAN
          BY <1>9 DEF ActorsWhole, AnActor, Planes
      <4> QED
          BY <2>2, <3>2, <4>1
    <3> QED
        BY <3>1, <3>2
  <2> QED
      BY <1>5, <1>14, <2>3 DEF LoadingWhole
<1>18. EnteredWhole'
    BY <1>10 DEF EnteredWhole, Adjoins
<1>19. NoneAsks'
  <2>1. \A p \in Plane : InZone(p) <=> InOuter(p) \/ InInner(p)
      BY <1>14, Zones
  <2>2. \A p \in Plane : Own(p) # NoRoom
      BY <1>14, SidesAre
  <2> QED
      BY <1>5, <1>14, <1>15, <2>1, <2>2 DEF NoneAsks, Both
<1>20. AskedWhole'
    BY <1>1, <1>19 DEF AskedWhole
<1>21. PassWhole'
    BY <1>1, <1>2, <1>4, <1>9 DEF PassWhole
<1>22. InitsWhole'
  <2>1. Waiting(roomCtx.cur.num)'
      BY <1>5, <1>14, <1>15 DEF Waiting, Both
  <2>2. \A c \in DOMAIN actorCtx'.actor :
            /\ ~actorCtx'.actor[c].init /\ actorCtx'.actor[c].used = actorCtx'.actor[c].object
            /\ actorCtx'.actor[c].live => Object_IsLoaded(bank', actorCtx'.actor[c].objBankIndex)
      BY <1>7, <1>9 DEF NewPlane, Object_IsLoaded
  <2> QED
      BY <1>1, <1>5, <2>1, <2>2 DEF InitsWhole
<1>23. ListWhole'
  <2>1. \A c \in list.actors : c \in DOMAIN actorCtx'.actor /\ actorCtx'.actor[c].isDrawn
                               /\ c \notin actorCtx'.freed
      BY <1>2, <1>7, <1>9 DEF ListWhole
  <2>2. \A i : \/ Object_IsLoaded(bank', i)
               \/ i \in DOMAIN bank' => bank'[i].state = "asked"
      BY <1>6 DEF Object_IsLoaded
  <2> QED
      BY <1>1, <1>2, <1>3, <1>5, <2>1, <2>2 DEF ListWhole
<1> QED
    BY <1>11, <1>12, <1>13, <1>16, <1>17, <1>18, <1>20, <1>21, <1>22, <1>23 DEF GameInv

LEMMA HandleStep ==
    ASSUME GameInv, HandleRoom, HasRoom'
    PROVE  GameInv'
BY NoRoomStep, RoomStep

(* The objects that were asked for are sent, those that have come taken.    *)
LEMMA BankStep ==
    ASSUME RequestsWhole, Object_UpdateBank, UNCHANGED <<roomCtx, arrived>>
    PROVE  /\ RequestsWhole'
           /\ DOMAIN bank' = DOMAIN bank
           /\ \A i \in DOMAIN bank : /\ bank'[i].object = bank[i].object /\ bank'[i].state # "asked"
                                     /\ bank[i].state = "loaded" => bank'[i].state = "loaded"
<1> DEFINE s == Asked(bank)
           n == Len(dma)
           t == [k \in DOMAIN s |-> ObjectRequest(bank, s[k])]
<1>1. /\ dma' = dma \o t
      /\ bank' = [i \in DOMAIN bank |-> Checked(bank[i])]
    BY DEF Object_UpdateBank
<1>2. dma \in Seq(Request) /\ bank \in Seq(Entry)
    BY DEF RequestsWhole
<1>3. /\ s \in Seq(DOMAIN bank) /\ Injective(s)
      /\ Elements(s) = {i \in DOMAIN bank : bank[i].state = "asked"}
    BY <1>2, AskedIs
<1> HIDE DEF s
<1>4. /\ \A i \in DOMAIN bank : i \in Nat /\ bank[i] \in Entry
      /\ \A k \in DOMAIN dma : k \in Nat /\ dma[k] \in Request
      /\ n \in Nat /\ DOMAIN dma = 1 .. n
    BY <1>2
<1>5. ASSUME NEW i \in DOMAIN bank
      PROVE  /\ bank'[i] \in Entry /\ bank'[i].object = bank[i].object /\ bank'[i].state # "asked"
             /\ bank[i].state = "loaded" => bank'[i].state = "loaded"
             /\ bank[i].state = "sent" => bank'[i] = bank[i]
             /\ bank[i].state = "asked" => bank'[i] = [object |-> bank[i].object, state |-> "sent"]
  <2> DEFINE e == bank[i]
             f == bank'[i]
  <2>1. f = Checked(e) /\ e \in Entry
      BY <1>1, <1>4
  <2> HIDE DEF e, f
  <2>2. /\ f \in Entry /\ f.object = e.object /\ f.state # "asked"
        /\ e.state = "loaded" => f.state = "loaded"
        /\ e.state = "sent" => f = e
        /\ e.state = "asked" => f = [object |-> e.object, state |-> "sent"]
      BY <2>1 DEF Checked, Entry
  <2> QED
      BY <2>2 DEF e, f
<1>6. DOMAIN bank' = DOMAIN bank /\ bank' \in Seq(Entry)
  <2>1. /\ bank' = [i \in 1 .. Len(bank) |-> bank'[i]] /\ Len(bank) \in Nat
        /\ DOMAIN bank = 1 .. Len(bank)
      BY <1>1, <1>2
  <2>2. \A i \in DOMAIN bank : bank'[i] \in Entry
      BY <1>5
  <2> QED
      BY <1>1, <2>1, <2>2
<1>7. /\ DOMAIN s = 1 .. Len(s) /\ Len(s) \in Nat
      /\ \A k \in DOMAIN s : /\ s[k] \in DOMAIN bank /\ bank[s[k]].state = "asked"
                             /\ ObjectRequest(bank, s[k]) \in Request
  <2>1. DOMAIN s = 1 .. Len(s) /\ Len(s) \in Nat
      BY <1>3
  <2>2. ASSUME NEW k \in DOMAIN s
        PROVE  /\ s[k] \in DOMAIN bank /\ bank[s[k]].state = "asked"
               /\ ObjectRequest(bank, s[k]) \in Request
    <3>1. s[k] \in DOMAIN bank /\ bank[s[k]].state = "asked"
        BY <1>3, <2>2 DEF Elements
    <3>2. bank[s[k]].object \in Object
        BY <1>4, <3>1 DEF Entry
    <3> QED
        BY <1>4, <3>1, <3>2 DEF ObjectRequest, Request
  <2> QED
      BY <2>1, <2>2
<1>8. /\ dma' \in Seq(Request) /\ Len(dma') = n + Len(s)
      /\ \A k \in 1 .. n : dma'[k] = dma[k]
      /\ \A k \in 1 .. n + Len(s) : k > n => k - n \in DOMAIN s /\ dma'[k] = ObjectRequest(bank, s[k - n])
  <2>1. t = [k \in 1 .. Len(s) |-> t[k]] /\ \A k \in 1 .. Len(s) : t[k] \in Request /\ t[k] = ObjectRequest(bank, s[k])
      BY <1>7
  <2> HIDE DEF t
  <2>2. t \in Seq(Request) /\ Len(t) = Len(s)
      BY <1>7, <2>1
  <2>3. dma \o t \in Seq(Request) /\ Len(dma \o t) = n + Len(t)
        /\ \A k \in 1 .. n + Len(t) : (dma \o t)[k] = IF k <= n THEN dma[k] ELSE t[k - n]
      BY <1>2, <2>2
  <2>4. \A k \in 1 .. n : k \in 1 .. n + Len(t) /\ k <= n
      BY <1>4, <1>7, <2>2
  <2>5. \A k \in 1 .. n + Len(s) : k > n => k - n \in 1 .. Len(s) /\ ~(k <= n)
      BY <1>4, <1>7
  <2> QED
      BY <1>1, <1>7, <2>1, <2>2, <2>3, <2>4, <2>5
<1> HIDE DEF t
(* The requests are those from before, and one for each object asked for.  *)
<1>9. ASSUME NEW k \in DOMAIN dma'
      PROVE  \/ k \in DOMAIN dma /\ dma'[k] = dma[k] /\ k <= n
             \/ /\ k - n \in DOMAIN s /\ dma'[k].what = "object" /\ dma'[k].at = s[k - n]
                /\ dma'[k].file = bank[s[k - n]].object /\ k > n
  <2>1. k \in 1 .. n + Len(s)
      BY <1>8
  <2>2. k <= n \/ k > n
      BY <1>4, <2>1
  <2> QED
      BY <1>4, <1>8, <2>1, <2>2 DEF ObjectRequest
<1>10. roomCtx.status = 1 => DOMAIN s = {}
    BY <1>7 DEF RequestsWhole
<1> HIDE DEF n
<1>11. ASSUME NEW k \in DOMAIN dma', dma'[k].what = "room"
       PROVE  k \in DOMAIN dma /\ dma'[k] = dma[k] /\ roomCtx.status = 1
    BY <1>9, <1>11 DEF RequestsWhole
<1>12. ASSUME NEW k \in DOMAIN dma', dma'[k].what = "object"
       PROVE  /\ dma'[k].at \in DOMAIN bank'
              /\ bank'[dma'[k].at] = [object |-> dma'[k].file, state |-> "sent"]
  <2>1. CASE k \in DOMAIN dma /\ dma'[k] = dma[k]
    <3>1. dma[k].at \in DOMAIN bank /\ bank[dma[k].at] = [object |-> dma[k].file, state |-> "sent"]
        BY <1>12, <2>1 DEF RequestsWhole
    <3>2. bank'[dma[k].at] = bank[dma[k].at]
        BY <1>5, <3>1
    <3> QED
        BY <1>6, <2>1, <3>1, <3>2
  <2>2. CASE k - n \in DOMAIN s /\ dma'[k].at = s[k - n] /\ dma'[k].file = bank[s[k - n]].object
      BY <1>5, <1>6, <1>7, <2>2
  <2> QED
      BY <1>9, <2>1, <2>2
<1>13. ASSUME NEW k \in DOMAIN dma', NEW l \in DOMAIN dma',
              dma'[k].what = "object", dma'[l].what = "object", dma'[k].at = dma'[l].at
       PROVE  k = l
  <2>1. CASE k \in DOMAIN dma /\ dma'[k] = dma[k] /\ l \in DOMAIN dma /\ dma'[l] = dma[l]
      BY <1>13, <2>1 DEF RequestsWhole
  <2>2. ASSUME NEW x \in DOMAIN dma, dma[x].what = "object", NEW y \in DOMAIN s, dma[x].at = s[y]
        PROVE  FALSE
    <3>1. bank[dma[x].at] = [object |-> dma[x].file, state |-> "sent"]
        BY <2>2 DEF RequestsWhole
    <3>2. bank[dma[x].at].state = "sent"
        BY <3>1
    <3> QED
        BY <1>7, <2>2, <3>2
  <2>3. CASE k - n \in DOMAIN s /\ l - n \in DOMAIN s /\ s[k - n] = s[l - n]
    <3>1. k - n = l - n
        BY <1>3, <2>3 DEF Injective
    <3>2. k \in Int /\ l \in Int /\ n \in Int
        BY <1>4, <1>8
    <3> QED
        BY <3>1, <3>2
  <2>4. \/ k \in DOMAIN dma /\ dma'[k] = dma[k]
        \/ k - n \in DOMAIN s /\ dma'[k].at = s[k - n]
      BY <1>9
  <2>5. \/ l \in DOMAIN dma /\ dma'[l] = dma[l]
        \/ l - n \in DOMAIN s /\ dma'[l].at = s[l - n]
      BY <1>9
  <2> QED
      BY <1>13, <2>1, <2>2, <2>3, <2>4, <2>5
<1>14. ASSUME NEW k \in DOMAIN dma', NEW l \in DOMAIN dma', dma'[k].what = "room"
       PROVE  /\ dma'[l].what = "room" => k = l
              /\ dma'[l].what = "object" => l < k
  <2>1. k \in DOMAIN dma /\ dma'[k] = dma[k] /\ roomCtx.status = 1
      BY <1>11, <1>14
  <2>2. l \in DOMAIN dma /\ dma'[l] = dma[l]
      BY <1>9, <1>10, <2>1
  <2> QED
      BY <1>14, <2>1, <2>2 DEF RequestsWhole
<1>15. ASSUME roomCtx.status = 1, arrived, NEW k \in DOMAIN dma' PROVE dma'[k].what # "object"
    BY <1>9, <1>10, <1>15 DEF RequestsWhole
<1>16. ASSUME NEW k \in DOMAIN dma', dma'[k].what = "room"
       PROVE  /\ roomCtx'.status = 1 /\ ~arrived'
              /\ dma'[k].at = roomCtx'.unk_34 /\ dma'[k].file = roomCtx'.cur.num
    BY <1>11, <1>16 DEF RequestsWhole
<1>17. \A i \in DOMAIN bank' : bank'[i].state # "asked"
    BY <1>5, <1>6
<1>18. RequestsWhole'
    BY <1>6, <1>8, <1>12, <1>13, <1>14, <1>15, <1>16, <1>17 DEF RequestsWhole
<1> QED
    BY <1>5, <1>6, <1>18

LEMMA Remainder ==
    ASSUME NEW n \in Int, NEW q \in Int, NEW r \in 0 .. 5, n = 5 * q + r
    PROVE  n % 5 = IF r = 5 THEN 0 ELSE r
OBVIOUS

LEMMA Pairs ==
    ASSUME NEW x \in Int, NEW y \in Int
    PROVE  {x, y} \in {{1, 2}, {3, 4}} <=>
               (x = 1 /\ y = 2) \/ (x = 2 /\ y = 1) \/ (x = 3 /\ y = 4) \/ (x = 4 /\ y = 3)
<1>1. ASSUME NEW i \in Int, NEW j \in Int
      PROVE  {x, y} = {i, j} <=> (x = i /\ y = j) \/ (x = j /\ y = i)
    OBVIOUS
<1> QED
    BY <1>1

(* The player moves by a step, and while something is loading only within  *)
(* a side of a plane.                                                       *)
Moves ==
    /\ player' \in 0 .. 5 * Cardinality(Plane) /\ player' \in {player - 1, player, player + 1}
    /\ player' = player \/ ~Busy \/ OneSide(player, player')

(* Within a side nothing changes for any plane.                            *)
LEMMA MovesWithin ==
    ASSUME player \in Int, player' \in Int, player' \in {player - 1, player, player + 1},
           player' = player \/ OneSide(player, player')
    PROVE  \A p \in Plane : /\ InZone(p)' <=> InZone(p)
                            /\ InZone(p) => Own(p)' = Own(p) /\ Other(p)' = Other(p)
<1>1. SUFFICES ASSUME NEW p \in Plane
               PROVE  /\ InZone(p)' <=> InZone(p)
                      /\ InZone(p) => Own(p)' = Own(p) /\ Other(p)' = Other(p)
    OBVIOUS
<1> DEFINE a == Place(p)
           b == Place(p)'
           q == p - 1
<1>2. /\ q \in Int /\ a \in Int /\ b \in Int /\ player = 5 * q + a /\ player' = 5 * q + b
      /\ b \in {a - 1, a, a + 1}
    BY Numbers DEF Place
<1>3. /\ InZone(p) <=> a \in 1 .. 4
      /\ InZone(p)' <=> b \in 1 .. 4
      /\ (a <= 2 <=> b <= 2) => Own(p)' = Own(p) /\ Other(p)' = Other(p)
    BY DEF InZone, Own, Other, Side
<1> HIDE DEF a, b, q
<1>4. CASE player' = player
    BY <1>2, <1>3, <1>4
<1>5. CASE a \in 0 .. 5 /\ b \in 0 .. 5 /\ OneSide(player, player')
  <2> DEFINE x == player % 5
             y == player' % 5
  <2>1. x = (IF a = 5 THEN 0 ELSE a) /\ y = (IF b = 5 THEN 0 ELSE b)
      BY <1>2, <1>5, Remainder
  <2>2. {x, y} \in {{1, 2}, {3, 4}}
      BY <1>5 DEF OneSide
  <2> HIDE DEF x, y
  <2>3. x \in Int /\ y \in Int
      BY <1>5, <2>1
  <2>4. (x = 1 /\ y = 2) \/ (x = 2 /\ y = 1) \/ (x = 3 /\ y = 4) \/ (x = 4 /\ y = 3)
      BY <2>2, <2>3, Pairs
  <2>5. a \in 1 .. 4 /\ b \in 1 .. 4 /\ (a <= 2 <=> b <= 2)
      BY <1>5, <2>1, <2>4
  <2> QED
      BY <1>3, <2>5
<1>6. CASE ~(a \in 0 .. 5 /\ b \in 0 .. 5)
  <2>1. a \notin 1 .. 4 /\ b \notin 1 .. 4
      BY <1>2, <1>6
  <2> QED
      BY <1>3, <2>1
<1> QED
    BY <1>4, <1>5, <1>6

(* A step leads where the rooms are there for it.                           *)
LEMMA MovesPossibly ==
    ASSUME GameInv, pc = "start", Moves, UNCHANGED roomCtx, NEW p \in Plane
    PROVE  /\ Place(p)' = 0 => Alone(Sides[p][0])
           /\ Place(p)' = 5 => Alone(Sides[p][1])
           /\ InZone(p)' => Possible(p)'
<1>1. /\ player \in Int /\ player' \in Int /\ player >= 0 /\ player' >= 0
      /\ player <= 5 * Cardinality(Plane) /\ player' <= 5 * Cardinality(Plane)
      /\ player' = player \/ player' = player - 1 \/ player' = player + 1
      /\ Cardinality(Plane) \in Nat
    BY Numbers DEF GameInv, PlayerWhole, Moves
<1>2. /\ \A q \in Plane : /\ Place(q) = 0 => Alone(Sides[q][0])
                          /\ Place(q) = 5 => Alone(Sides[q][1])
                          /\ InZone(q) => Settled(q)
    BY DEF GameInv, PlayerWhole
<1>3. InZone(p) => Possible(p)
    BY DEF GameInv, PlayerWhole
<1>4. \A q \in Plane : /\ q \in Int /\ 1 <= q /\ q <= Cardinality(Plane)
                       /\ Place(q) = player - 5 * (q - 1) /\ Place(q)' = player' - 5 * (q - 1)
    BY Numbers DEF Place
<1>5. \A q : (InZone(q) <=> Place(q) \in 1 .. 4) /\ (InZone(q)' <=> Place(q)' \in 1 .. 4)
    BY DEF InZone
<1>6. /\ Own(p) = Sides[p][Side(p)] /\ Other(p) = Sides[p][1 - Side(p)]
      /\ Own(p)' = Sides[p][Side(p)'] /\ Other(p)' = Sides[p][1 - Side(p)']
      /\ Side(p) = (IF Place(p) <= 2 THEN 0 ELSE 1) /\ Side(p)' = (IF Place(p)' <= 2 THEN 0 ELSE 1)
      /\ InInner(p) <=> Place(p) \in {2, 3}
      /\ InInner(p)' <=> Place(p)' \in {2, 3}
    BY DEF Own, Other, Side, InInner
<1>7. \A r, t : (Alone(r)' <=> Alone(r)) /\ (Both(r, t)' <=> Both(r, t))
    BY DEF Alone, Both
<1>8. CASE player' = player
    BY <1>2, <1>3, <1>4, <1>5, <1>6, <1>7, <1>8 DEF Possible
<1>9. CASE player' # player
  <2>1. /\ Place(p) \in Int /\ Place(p)' \in Int
        /\ Place(p)' = Place(p) - 1 \/ Place(p)' = Place(p) + 1
        /\ player = 5 * (p - 1) + Place(p) /\ player' = 5 * (p - 1) + Place(p)'
      BY <1>1, <1>4, <1>9
  (* Over the edge of a zone, or the plane itself, only when all is there.  *)
  <2>2. ASSUME Place(p) \in 0 .. 5, Place(p)' \in 0 .. 5, roomCtx.status = 1
        PROVE  {Place(p), Place(p)'} \in {{1, 2}, {3, 4}}
    <3> DEFINE a == Place(p)
               b == Place(p)'
    <3>1. OneSide(player, player')
        BY <1>9, <2>2 DEF Moves, Busy
    <3>2. player % 5 = (IF a = 5 THEN 0 ELSE a) /\ player' % 5 = (IF b = 5 THEN 0 ELSE b)
      <4>1. p - 1 \in Int /\ a \in 0 .. 5 /\ b \in 0 .. 5
          BY <1>4, <2>2
      <4>2. player = 5 * (p - 1) + a /\ player' = 5 * (p - 1) + b
          BY <2>1
      <4> HIDE DEF a, b
      <4> QED
          BY <1>1, <4>1, <4>2, Remainder
    <3>3. {player % 5, player' % 5} \in {{1, 2}, {3, 4}}
        BY <3>1 DEF OneSide
    <3>4. a \in 0 .. 5 /\ b \in 0 .. 5
        BY <2>2
    <3> HIDE DEF a, b
    <3>5. {a, b} \in {{1, 2}, {3, 4}}
        BY <3>2, <3>3, <3>4
    <3> QED
        BY <3>5 DEF a, b
  <2>3. roomCtx.status \in {0, 1}
      BY DEF GameInv, RoomsWhole
  <2>4. CASE Place(p)' = 0
    <3>1. CASE Place(p) = 1
      <4>1. roomCtx.status # 1
          BY <2>2, <2>4, <3>1
      <4>2. Settled(p) /\ ~InInner(p) /\ Own(p) = Sides[p][0]
          BY <1>2, <1>5, <1>6, <3>1
      <4> QED
          BY <2>4, <1>5, <4>1, <4>2 DEF Settled
    <3>2. CASE Place(p) = -1
      <4>1. p - 1 \in Plane /\ Place(p - 1) = 4
        <5>1. p \in Int /\ p <= Cardinality(Plane)
            BY <1>4
        <5>2. player = 5 * (p - 1) - 1 /\ player >= 0
            BY <1>1, <2>1, <3>2
        <5>3. p - 1 \in Nat /\ 1 <= p - 1 /\ p - 1 <= Cardinality(Plane)
            BY <1>1, <5>1, <5>2
        <5>4. p - 1 \in Plane
            BY <5>3, Numbers
        <5>5. Place(p - 1) = player - 5 * ((p - 1) - 1)
            BY <1>4, <5>4
        <5> QED
            BY <5>1, <5>2, <5>4, <5>5
      <4>2. roomCtx.status # 1 \/ Alone(Sides[p - 1][1])
        <5>1. ASSUME roomCtx.status = 1 PROVE FALSE
          <6> DEFINE q == p - 1
                     b == player'
          <6>1. OneSide(player, b)
              BY <1>9, <5>1 DEF Moves, Busy
          <6>2. b % 5 = 0
            <7>1. p - 1 \in Int /\ b = 5 * (p - 1) + 0 /\ 0 \in 0 .. 5 /\ b \in Int
                BY <1>1, <1>4, <2>1, <2>4
            <7> HIDE DEF b
            <7> QED
                BY <7>1, Remainder
          <6> QED
              BY <6>1, <6>2 DEF OneSide
        <5> QED
            BY <5>1
      <4>3. Settled(p - 1) /\ ~InInner(p - 1) /\ Own(p - 1) = Sides[p - 1][1]
          BY <1>2, <1>5, <4>1 DEF InInner, Own, Side
      <4>4. Alone(Sides[p - 1][1])
          BY <4>2, <4>3 DEF Settled
      <4>5. Sides[p - 1][1] = Sides[p][0]
        <5>1. (p - 1) + 1 = p
            BY <1>4
        <5> QED
            BY <4>1, <5>1, Ways
      <4> QED
          BY <2>4, <1>5, <4>4, <4>5
    <3> QED
        BY <2>1, <2>4, <3>1, <3>2
  <2>5. CASE Place(p)' = 5
    <3>1. CASE Place(p) = 4
      <4>1. roomCtx.status # 1
          BY <2>2, <2>5, <3>1
      <4>2. Settled(p) /\ ~InInner(p) /\ Own(p) = Sides[p][1]
          BY <1>2, <1>5, <1>6, <3>1
      <4> QED
          BY <2>5, <1>5, <4>1, <4>2 DEF Settled
    <3>2. CASE Place(p) = 6
      <4>1. p + 1 \in Plane /\ Place(p + 1) = 1
        <5>1. p \in Int /\ 1 <= p
            BY <1>4
        <5>2. player = 5 * (p - 1) + 6 /\ player <= 5 * Cardinality(Plane)
            BY <1>1, <2>1, <3>2
        <5>3. p + 1 \in Nat /\ 1 <= p + 1 /\ p + 1 <= Cardinality(Plane)
            BY <1>1, <5>1, <5>2
        <5>4. p + 1 \in Plane
            BY <5>3, Numbers
        <5>5. Place(p + 1) = player - 5 * ((p + 1) - 1)
            BY <1>4, <5>4
        <5> QED
            BY <5>1, <5>2, <5>4, <5>5
      <4>2. roomCtx.status # 1
        <5>1. ASSUME roomCtx.status = 1 PROVE FALSE
          <6> DEFINE b == player'
          <6>1. OneSide(player, b)
              BY <1>9, <5>1 DEF Moves, Busy
          <6>2. b % 5 = 0
            <7>1. p \in Int /\ b = 5 * p + 0 /\ 0 \in 0 .. 5 /\ b \in Int
                BY <1>1, <1>4, <2>1, <2>5
            <7> HIDE DEF b
            <7> QED
                BY <7>1, Remainder
          <6> QED
              BY <6>1, <6>2 DEF OneSide
        <5> QED
            BY <5>1
      <4>3. Settled(p + 1) /\ ~InInner(p + 1) /\ Own(p + 1) = Sides[p + 1][0]
          BY <1>2, <1>5, <4>1 DEF InInner, Own, Side
      <4>4. Alone(Sides[p + 1][0])
          BY <4>2, <4>3 DEF Settled
      <4>5. Sides[p][1] = Sides[p + 1][0]
          BY <4>1, Ways
      <4> QED
          BY <2>5, <1>5, <4>4, <4>5
    <3> QED
        BY <2>1, <2>5, <3>1, <3>2
  <2>6. CASE Place(p)' \in {1, 4}
    <3>1. CASE Place(p) \in {0, 5}
      <4>1. Alone(Own(p)')
          BY <1>2, <1>6, <2>1, <2>6, <3>1
      <4>2. Alone(Own(p))'
          BY <4>1 DEF Alone, Both
      <4> QED
          BY <2>6, <4>2 DEF Possible
    <3>2. CASE Place(p) \in {2, 3}
      <4>1. Settled(p) /\ InInner(p) /\ Own(p)' = Own(p) /\ Other(p)' = Other(p)
          BY <1>2, <1>5, <1>6, <2>1, <2>6, <3>2
      <4> QED
          BY <1>7, <2>6, <4>1 DEF Possible, Settled
    <3> QED
        BY <2>1, <2>6, <3>1, <3>2
  <2>7. CASE Place(p)' \in {2, 3}
    <3>1. CASE Place(p) \in {1, 4}
      <4>1. Settled(p) /\ ~InInner(p) /\ Own(p)' = Own(p) /\ Other(p)' = Other(p)
          BY <1>2, <1>5, <1>6, <2>1, <2>7, <3>1
      <4> QED
          BY <1>7, <2>7, <4>1 DEF Possible, Settled
    <3>2. CASE Place(p) \in {2, 3}
      <4>1. roomCtx.status = 0
        <5>1. {Place(p), Place(p)'} = {2, 3}
            BY <2>1, <2>7, <3>2
        <5>2. {2, 3} \notin {{1, 2}, {3, 4}}
            OBVIOUS
        <5> QED
            BY <2>2, <2>3, <2>7, <3>2, <5>1, <5>2
      <4>2. Settled(p) /\ InInner(p) /\ Own(p)' = Other(p) /\ Other(p)' = Own(p) /\ InInner(p)'
          BY <1>2, <1>5, <1>6, <2>1, <2>7, <3>2
      <4> QED
          BY <1>7, <2>7, <4>1, <4>2 DEF Possible, Settled
    <3> QED
        BY <2>1, <2>7, <3>1, <3>2
  <2>8. CASE Place(p)' \notin 0 .. 5
      BY <1>5, <2>8
  <2>9. Place(p)' \in 0 .. 5 => Place(p)' \in {0, 5} \/ Place(p)' \in {1, 4} \/ Place(p)' \in {2, 3}
      BY <2>1
  <2> QED
      BY <2>4, <2>5, <2>6, <2>7, <2>8, <2>9
<1> QED
    BY <1>8, <1>9

LEMMA StartStep ==
    ASSUME GameInv, StartFrame, ~MayOutrun, ~round, ~round'
    PROVE  GameInv'
<1>1. /\ pc = "start" /\ Object_UpdateBank
      /\ UNCHANGED <<roomCtx, buffer, arrived, actorCtx, nbSetupActors, at, list>>
      /\ pc' \in {"room", "draw", "picture"}
      /\ pc' # "room" => player' = player
      /\ pc' = "room" => player' \in Steps
    BY DEF StartFrame
<1>2. /\ RequestsWhole'
      /\ DOMAIN bank' = DOMAIN bank
      /\ \A i \in DOMAIN bank : /\ bank'[i].object = bank[i].object /\ bank'[i].state # "asked"
                                /\ bank[i].state = "loaded" => bank'[i].state = "loaded"
    BY <1>1, BankStep DEF GameInv
<1>3. Moves /\ player \in Int /\ player' \in Int
  <2>1. player \in 0 .. 5 * Cardinality(Plane) /\ Cardinality(Plane) \in Nat
      BY Numbers DEF GameInv, PlayerWhole
  <2>2. CASE pc' # "room"
      BY <1>1, <2>1, <2>2 DEF Moves
  <2>3. CASE pc' = "room"
      BY <1>1, <2>1, <2>3 DEF Moves, Steps
  <2> QED
      BY <2>2, <2>3
<1>4. \A p \in Plane : /\ Place(p)' = 0 => Alone(Sides[p][0])
                       /\ Place(p)' = 5 => Alone(Sides[p][1])
                       /\ InZone(p)' => Possible(p)'
    BY <1>1, <1>3, MovesPossibly
<1>5. (ActorsWhole(actorCtx) /\ PlanesWhole(actorCtx))'
    BY <1>1 DEF GameInv, ActorsWhole, PlanesWhole, Planes
<1>6. (RoomsWhole /\ EnteredWhole)'
    BY <1>1 DEF GameInv, RoomsWhole, EnteredWhole
<1>7. PlayerWhole'
  <2>1. ASSUME pc' \in {"picture", "draw"}, NEW p \in Plane, InZone(p)' PROVE Settled(p)'
    <3>1. player' = player /\ roomCtx' = roomCtx
        BY <1>1, <2>1
    <3>2. InZone(p)
        BY <2>1, <3>1 DEF InZone, Place
    <3>3. Settled(p)
        BY <1>1, <3>2 DEF GameInv, PlayerWhole
    <3> QED
        BY <3>1, <3>3 DEF Settled, InZone, InOuter, InInner, Place, Side, Own, Other, Both, Alone
  <2>2. \A r : Alone(r)' <=> Alone(r)
      BY <1>1 DEF Alone, Both
  <2>3. player' \in 0 .. 5 * Cardinality(Plane)
      BY <1>3 DEF Moves
  <2> QED
      BY <1>1, <1>4, <2>1, <2>2, <2>3 DEF PlayerWhole
<1>8. \A p \in Plane : (InZone(p)' <=> InZone(p)) \/ roomCtx.prev.num = NoRoom
  <2>1. SUFFICES ASSUME NEW p \in Plane, ~(InZone(p)' <=> InZone(p)) PROVE roomCtx.prev.num = NoRoom
      OBVIOUS
  <2>2. \/ Place(p) \in {0, 5} \/ Place(p)' \in {0, 5}
    <3> DEFINE a == Place(p)
               b == Place(p)'
    <3>1. a \in Int /\ b \in Int /\ b \in {a - 1, a, a + 1}
        BY <1>3, Numbers DEF Moves, Place
    <3>2. ~(a \in 1 .. 4 <=> b \in 1 .. 4)
        BY <2>1 DEF InZone
    <3> HIDE DEF a, b
    <3>3. a \in {0, 5} \/ b \in {0, 5}
        BY <3>1, <3>2
    <3> QED
        BY <3>3 DEF a, b
  <2>3. /\ Place(p) = 0 => Alone(Sides[p][0])
        /\ Place(p) = 5 => Alone(Sides[p][1])
      BY DEF GameInv, PlayerWhole
  <2> QED
      BY <1>4, <2>2, <2>3 DEF Alone, Both
<1>9. LoadingWhole'
  <2>1. LoadingWhole
      BY DEF GameInv
  <2>2. Planes(actorCtx') = Planes(actorCtx) /\ \A c \in Planes(actorCtx) : actorCtx.actor[c].plane \in Plane
      BY <1>1 DEF GameInv, ActorsWhole, Planes, AnActor
  <2> QED
      BY <1>1, <1>8, <2>1, <2>2 DEF LoadingWhole
<1>10. AskedWhole'
    BY <1>2 DEF AskedWhole
<1>11. PassWhole'
    BY <1>1 DEF GameInv, PassWhole
<1>12. \A i : Object_IsLoaded(bank, i) => Object_IsLoaded(bank', i)
    BY <1>2 DEF Object_IsLoaded
(* Who waits does so until all is loaded. *)
<1>13. \/ \A r : Waiting(r)' <=> Waiting(r)
       \/ pc' = "room" /\ \A i \in DOMAIN bank' : bank'[i].state = "loaded"
  <2>1. CASE player' = player \/ OneSide(player, player')
    <3>1. \A p \in Plane : /\ InZone(p)' <=> InZone(p)
                           /\ InZone(p) => Own(p)' = Own(p) /\ Other(p)' = Other(p)
        BY <1>3, <2>1, MovesWithin DEF Moves
    <3>2. roomCtx' = roomCtx
        BY <1>1
    <3> QED
        BY <3>1, <3>2 DEF Waiting, Both
  <2>2. CASE ~(player' = player \/ OneSide(player, player'))
    <3>1. pc' = "room" /\ ~Busy
        BY <1>1, <1>3, <2>2 DEF Moves
    <3>2. \A i \in DOMAIN bank : bank[i].state = "loaded"
        BY <3>1 DEF Busy
    <3> QED
        BY <1>2, <3>1, <3>2
  <2> QED
      BY <2>1, <2>2
<1>14. InitsWhole'
  <2>1. InitsWhole /\ pc = "start"
      BY <1>1 DEF GameInv
  <2>2. nbSetupActors # <<>> => roomCtx.status = 0 /\ Waiting(roomCtx.cur.num)
      BY <2>1 DEF InitsWhole
  <2>3. ASSUME NEW c \in DOMAIN actorCtx.actor
        PROVE  LET a == actorCtx.actor[c]
               IN  IF a.init
                   THEN /\ roomCtx.status = 0 /\ ~a.isDrawn
                        /\ a.objBankIndex \in DOMAIN bank' /\ bank'[a.objBankIndex].object = a.object
                        /\ Waiting(a.room)
                   ELSE a.used = a.object /\ (a.live => Object_IsLoaded(bank', a.objBankIndex))
      BY <1>2, <1>12, <2>1 DEF InitsWhole
  <2> QED
      BY <1>1, <1>13, <2>2, <2>3 DEF InitsWhole
<1>15. ListWhole'
  <2>1. ListWhole
      BY DEF GameInv
  <2>2. \A i \in list.objects : Object_IsLoaded(bank', i)
      BY <1>1, <1>12, <2>1 DEF ListWhole
  <2> QED
      BY <1>1, <2>1, <2>2 DEF ListWhole
<1> QED
    BY <1>2, <1>5, <1>6, <1>7, <1>9, <1>10, <1>11, <1>14, <1>15 DEF GameInv
-----------------------------------------------------------------------------
(* Gameplay_Init.                                                           *)

NoActors == [actor |-> <<>>, prop |-> <<>>, door |-> <<>>,
             entered |-> [p \in Plane |-> FALSE], freed |-> {}]

LEMMA NoActorsWhole ==
    ActorsWhole(NoActors) /\ PlanesWhole(NoActors)
<1>1. /\ NoActors.actor = <<>> /\ NoActors.prop = <<>> /\ NoActors.door = <<>>
      /\ NoActors.entered = [p \in Plane |-> FALSE] /\ NoActors.freed = {}
      /\ NoActors = [actor |-> <<>>, prop |-> <<>>, door |-> <<>>,
                     entered |-> NoActors.entered, freed |-> {}]
    BY DEF NoActors
<1>2. <<>> = [c \in DOMAIN <<>> |-> <<>>[c]] /\ DOMAIN <<>> = {}
    OBVIOUS
<1>3. <<>> \in Seq(Block) /\ Injective(<<>>) /\ Elements(<<>>) = {} /\ Planes(NoActors) = {}
    BY <1>1, <1>2 DEF Injective, Elements, Planes
<1>4. ActorsWhole(NoActors)
    BY <1>1, <1>2, <1>3 DEF ActorsWhole
<1>5. PlanesWhole(NoActors)
    BY <1>1, <1>2, <1>3 DEF PlanesWhole
<1> QED
    BY <1>4, <1>5

LEMMA InitStep ==
    ASSUME Init, HasRoom
    PROVE  GameInv
<1>1. /\ roomCtx = [cur |-> [num |-> FirstRoom, segment |-> 0], prev |-> NoRoomLoaded,
                    status |-> 0, unk_30 |-> 1, unk_34 |-> 0]
      /\ buffer = [b \in {0, 1} |-> IF b = 0 THEN FirstRoom ELSE NoRoom]
      /\ arrived = FALSE /\ dma = <<>>
      /\ bank = func_8009899C(<<>>, ObjectList[FirstRoom])
      /\ actorCtx = Actor_SpawnTransitionActors(NoActors, bank, roomCtx)
      /\ nbSetupActors = SetupActorList[FirstRoom]
      /\ pc = "start" /\ at = NULL /\ player = 0 /\ list = NoList
    BY DEF Init, NoActors
<1>2. /\ FirstRoom \in Room /\ FirstRoom # NoRoom /\ FirstRoom = Sides[1][0]
      /\ ObjectList[FirstRoom] \in Seq(Object) /\ SetupActorList[FirstRoom] \in Seq(Object)
    BY Numbers, Ways, LoadingAssumption, ActorsAssumption DEF FirstRoom
<1> HIDE DEF FirstRoom
<1>3. bank \in Seq(Entry)
  <2> DEFINE b0 == <<>>
  <2>1. b0 \in Seq(Entry)
      OBVIOUS
  <2>2. bank = func_8009899C(b0, ObjectList[FirstRoom])
      BY <1>1
  <2> HIDE DEF b0
  <2> QED
      BY <1>2, <2>1, <2>2, BankIs
<1>4. /\ roomCtx.cur.num = FirstRoom /\ roomCtx.cur.segment = 0
      /\ roomCtx.prev.num = NoRoom /\ roomCtx.prev.segment = NULL /\ roomCtx.status = 0
      /\ roomCtx.unk_30 = 1 /\ roomCtx.unk_34 = 0
    BY <1>1 DEF NoRoomLoaded
<1>5. PlanesMade(NoActors, actorCtx, roomCtx, Cardinality(Plane))
  <2>1. roomCtx.cur.num \in Room
      BY <1>2, <1>4
  <2>2. FreeBlocks(Actor_SpawnTransitionActors(NoActors, bank, roomCtx)) # {}
      BY <1>1 DEF HasRoom
  <2>3. PlanesMade(NoActors, Actor_SpawnTransitionActors(NoActors, bank, roomCtx), roomCtx, Cardinality(Plane))
      BY <1>3, <2>1, <2>2, NoActorsWhole, SpawnedPlanes
  <2> QED
      BY <1>1, <2>3
<1>6. /\ ActorsWhole(actorCtx) /\ PlanesWhole(actorCtx) /\ actorCtx.freed = {}
      /\ \A c \in DOMAIN actorCtx.actor : NewPlane(actorCtx.actor[c], roomCtx)
      /\ \A p \in Plane : Adjoins(p, roomCtx) => actorCtx.entered[p]
  <2>1. DOMAIN NoActors.actor = {} /\ NoActors.freed = {}
      BY DEF NoActors
  <2> QED
      BY <1>5, <2>1, Numbers DEF PlanesMade, Kept
<1>7. \A p \in Plane : /\ Place(p) # 5 /\ (Place(p) = 0 => p = 1)
                       /\ ~InZone(p) /\ ~InOuter(p) /\ ~InInner(p)
  <2>1. SUFFICES ASSUME NEW p \in Plane
                 PROVE  /\ Place(p) # 5 /\ (Place(p) = 0 => p = 1)
                        /\ ~InZone(p) /\ ~InOuter(p) /\ ~InInner(p)
      OBVIOUS
  <2>2. p \in Nat /\ 1 <= p /\ Place(p) = 0 - 5 * (p - 1)
      BY <1>1, Numbers DEF Place
  <2>3. Place(p) \in Int /\ Place(p) <= 0 /\ (Place(p) = 0 => p = 1)
      BY <2>2
  <2> QED
      BY <2>3 DEF InZone, InOuter, InInner
<1>8. RoomsWhole
  <2>1. roomCtx.cur \in ARoom /\ roomCtx.prev \in ARoom
      BY <1>1, <1>2 DEF ARoom, NoRoomLoaded
  <2>2. DOMAIN buffer = {0, 1} /\ buffer[0] = FirstRoom
      BY <1>1
  <2>3. roomCtx = [cur |-> roomCtx.cur, prev |-> roomCtx.prev, status |-> roomCtx.status,
                   unk_30 |-> roomCtx.unk_30, unk_34 |-> roomCtx.unk_34]
      BY <1>1
  <2>4. arrived \in BOOLEAN
      BY <1>1
  <2> QED
      BY <1>2, <1>4, <2>1, <2>2, <2>3, <2>4 DEF RoomsWhole
<1>9. RequestsWhole
    BY <1>1, <1>3, <1>4 DEF RequestsWhole
<1>10. PlayerWhole
  <2>1. 0 \in 0 .. 5 * Cardinality(Plane)
      BY Numbers
  <2>2. Alone(Sides[1][0])
      BY <1>2, <1>4 DEF Alone, Both
  <2> QED
      BY <1>1, <1>7, <2>1, <2>2 DEF PlayerWhole
<1>11. LoadingWhole
  <2>1. ASSUME NEW c \in Planes(actorCtx)
        PROVE  /\ actorCtx.actor[c].loading = FALSE
               /\ ~InZone(actorCtx.actor[c].plane)
    <3>1. NewPlane(actorCtx.actor[c], roomCtx) /\ actorCtx.actor[c] \in AnActor
        BY <1>6, <2>1 DEF Planes, ActorsWhole
    <3> QED
        BY <1>7, <3>1 DEF NewPlane, AnActor
  <2> QED
      BY <2>1 DEF LoadingWhole
<1>12. EnteredWhole
    BY <1>6 DEF EnteredWhole, Adjoins
<1>13. AskedWhole
    BY <1>1, <1>7 DEF AskedWhole, NoneAsks
<1>14. PassWhole
    BY <1>1, <1>2, <1>6 DEF PassWhole
<1>15. InitsWhole
  <2>1. \A r : Waiting(r)
      BY <1>7 DEF Waiting
  <2>2. \A c \in DOMAIN actorCtx.actor :
            /\ ~actorCtx.actor[c].init /\ actorCtx.actor[c].used = actorCtx.actor[c].object
            /\ Object_IsLoaded(bank, actorCtx.actor[c].objBankIndex)
      BY <1>6 DEF NewPlane, Object_IsLoaded
  <2> QED
      BY <1>1, <1>4, <2>1, <2>2 DEF InitsWhole
<1>16. ListWhole
    BY <1>1 DEF ListWhole, NoList
<1> QED
    BY <1>6, <1>8, <1>9, <1>10, <1>11, <1>12, <1>13, <1>14, <1>15, <1>16 DEF GameInv
-----------------------------------------------------------------------------
(* Actor_UpdateAll.                                                         *)

(* To the next actor, in the lists as they are after the update.            *)
GoesOn ==
    /\ at' = IF at \in DOMAIN actorCtx'.actor THEN NextActor(actorCtx', at)
             ELSE IF actorCtx.actor[at].live THEN NULL
             ELSE NextActor(actorCtx, at)
    /\ pc' = IF at' = NULL THEN "draw" ELSE "update"

LEMMA NullIsNone ==
    ASSUME NEW ac, ActorsWhole(ac)
    PROVE  NULL \notin DOMAIN ac.actor
BY ActorsAssumption DEF ActorsWhole, NULL

LEMMA ToComeStays ==
    ASSUME ActorsWhole(actorCtx'), at \in DOMAIN actorCtx.actor, at \in DOMAIN actorCtx'.actor, GoesOn
    PROVE  /\ ToCome' = Rest(actorCtx', at) \ {at}
           /\ pc' \in {"update", "draw"} /\ (pc' = "draw" => ToCome' = {})
           /\ pc' = "update" => at' \in DOMAIN actorCtx'.actor
<1>1. /\ at' = NextActor(actorCtx', at)
      /\ pc' = IF at' = NULL THEN "draw" ELSE "update"
    BY DEF GoesOn
<1>2. \/ at' = NULL /\ Rest(actorCtx', at) = {at}
      \/ /\ at' \in DOMAIN actorCtx'.actor /\ at' # NULL
         /\ Rest(actorCtx', at') = Rest(actorCtx', at) \ {at}
    BY <1>1, NextComes, NullIsNone
<1> QED
    BY <1>1, <1>2 DEF ToCome

LEMMA ToComeWithout ==
    ASSUME ActorsWhole(actorCtx), at \in DOMAIN actorCtx.actor, ~actorCtx.actor[at].live, GoesOn,
           DOMAIN actorCtx'.actor = DOMAIN actorCtx.actor \ {at},
           \A d \in DOMAIN actorCtx.actor : d # at => Rest(actorCtx', d) = Rest(actorCtx, d) \ {at}
    PROVE  /\ ToCome' = Rest(actorCtx, at) \ {at}
           /\ pc' \in {"update", "draw"} /\ (pc' = "draw" => ToCome' = {})
           /\ pc' = "update" => at' \in DOMAIN actorCtx'.actor
<1>1. /\ at' = NextActor(actorCtx, at)
      /\ pc' = IF at' = NULL THEN "draw" ELSE "update"
    BY DEF GoesOn
<1>2. \/ at' = NULL /\ Rest(actorCtx, at) = {at}
      \/ /\ at' \in DOMAIN actorCtx.actor /\ at' # NULL /\ at' # at
         /\ Rest(actorCtx, at') = Rest(actorCtx, at) \ {at}
    BY <1>1, NextComes, NullIsNone
<1> QED
    BY <1>1, <1>2 DEF ToCome

(* The planes come last. *)
LEMMA PlanesLast ==
    ASSUME NEW ac, ActorsWhole(ac), NEW c \in Planes(ac)
    PROVE  \A d \in Rest(ac, c) : d \in Planes(ac)
<1>1. /\ Elements(ac.prop) = DOMAIN ac.actor \ Planes(ac) /\ Elements(ac.door) = Planes(ac)
      /\ \A e, f : Before(Order(ac), e, f) <=>
             \/ Before(ac.prop, e, f) \/ Before(ac.door, e, f)
             \/ (e \in Elements(ac.prop) /\ f \in Elements(ac.door))
    BY OrderWhole DEF ActorsWhole
<1>2. \A s, e, f : Before(s, e, f) => e \in Elements(s) /\ f \in Elements(s)
    BY DEF Before, Elements
<1> QED
    BY <1>1, <1>2 DEF Rest

LEMMA SettledPossibly ==
    ASSUME NEW p
    PROVE  Settled(p) => Possible(p)
BY DEF Settled, Possible

(* In the zone of a plane the player is in no other one, and between none.  *)
LEMMA OneZone ==
    ASSUME player \in Int, NEW p \in Plane, InZone(p)
    PROVE  \A q \in Plane : Place(q) # 0 /\ Place(q) # 5 /\ (InZone(q) => q = p)
<1>1. SUFFICES ASSUME NEW q \in Plane PROVE Place(q) # 0 /\ Place(q) # 5
    BY Zones
<1>2. p \in Int /\ q \in Int
    BY Numbers
<1>3. Place(p) \in 1 .. 4 /\ Place(p) = player - 5 * (p - 1) /\ Place(q) = player - 5 * (q - 1)
    BY DEF InZone, Place
<1>4. Place(q) = Place(p) + 5 * (p - q) /\ p - q \in Int
    BY <1>2, <1>3
<1> QED
    BY <1>3, <1>4

(* An actor's update that is not a live plane's changes only the actor.     *)
LEMMA ActorStays ==
    ASSUME GameInv, pc = "update", GoesOn,
           UNCHANGED <<bank, roomCtx, buffer, arrived, dma, nbSetupActors, player, list>>,
           ~(at \in Planes(actorCtx) /\ actorCtx.actor[at].live),
           NEW x, Altered(actorCtx, actorCtx', at, x), PlanesWhole(actorCtx'),
           x.live => actorCtx.actor[at].live, x.isDrawn = actorCtx.actor[at].isDrawn,
           IF x.init
           THEN /\ roomCtx.status = 0 /\ ~x.isDrawn
                /\ x.objBankIndex \in DOMAIN bank /\ bank[x.objBankIndex].object = x.object
                /\ Waiting(x.room)
           ELSE x.used = x.object /\ (x.live => Object_IsLoaded(bank, x.objBankIndex))
    PROVE  GameInv'
<1>1. /\ ActorsWhole(actorCtx') /\ DOMAIN actorCtx'.actor = DOMAIN actorCtx.actor
      /\ actorCtx'.actor[at] = x
      /\ \A d \in DOMAIN actorCtx.actor : d # at => actorCtx'.actor[d] = actorCtx.actor[d]
      /\ actorCtx'.entered = actorCtx.entered /\ actorCtx'.freed = actorCtx.freed
      /\ Planes(actorCtx') = Planes(actorCtx)
    BY DEF Altered
<1>2. /\ at \in DOMAIN actorCtx.actor /\ ToCome \cap actorCtx.freed = {} /\ nbSetupActors \in Seq(Object)
      /\ at # NULL /\ ToCome = Rest(actorCtx, at) /\ ToCome \subseteq DOMAIN actorCtx.actor
  <2>1. /\ at \in DOMAIN actorCtx.actor /\ ToCome \cap actorCtx.freed = {}
        /\ nbSetupActors \in Seq(Object) /\ ActorsWhole(actorCtx)
      BY DEF GameInv, PassWhole
  <2>2. at # NULL
      BY <2>1, NullIsNone
  <2> QED
      BY <2>1, <2>2 DEF ToCome, Rest
<1>3. /\ ToCome' = ToCome \ {at}
      /\ pc' \in {"update", "draw"} /\ (pc' = "draw" => ToCome' = {})
      /\ pc' = "update" => at' \in DOMAIN actorCtx'.actor
  <2>1. Rest(actorCtx', at) = Rest(actorCtx, at)
      BY AlteredRest
  <2> QED
      BY <1>1, <1>2, <2>1, ToComeStays
<1>4. /\ \A p : /\ Possible(p)' <=> Possible(p)
                /\ Settled(p)' <=> Settled(p)
                /\ InZone(p)' <=> InZone(p)
                /\ Place(p)' = Place(p)
      /\ \A r : (Alone(r)' <=> Alone(r)) /\ (Waiting(r)' <=> Waiting(r))
      /\ NoneAsks' <=> NoneAsks
    BY DEF Possible, Settled, InZone, InOuter, InInner, Place, Side, Own, Other, Both, Alone,
           NoneAsks, Waiting
<1>5. (ActorsWhole(actorCtx) /\ PlanesWhole(actorCtx))'
    BY <1>1
<1>6. (RoomsWhole /\ RequestsWhole)'
    BY DEF GameInv, RoomsWhole, RequestsWhole
<1>7. PlayerWhole'
  <2>1. ASSUME NEW p \in Plane, InZone(p), ~Settled(p)
        PROVE  \E c \in ToCome' : actorCtx'.actor[c].plane = p /\ actorCtx'.actor[c].live
    <3>1. PICK c \in ToCome : actorCtx.actor[c].plane = p /\ actorCtx.actor[c].live
        BY <2>1 DEF GameInv, PlayerWhole
    <3>2. c \in DOMAIN actorCtx.actor /\ p # 0
        BY <1>2, <3>1, Numbers
    <3>3. c # at
        BY <3>1, <3>2 DEF Planes
    <3> QED
        BY <1>1, <1>3, <3>1, <3>2, <3>3
  <2>2. PlayerWhole
      BY DEF GameInv
  <2> QED
      BY <1>3, <1>4, <2>1, <2>2 DEF PlayerWhole
<1>8. LoadingWhole'
  <2>1. LoadingWhole
      BY DEF GameInv
  <2>2. \A c \in Planes(actorCtx') : actorCtx'.actor[c].live =>
            c \in Planes(actorCtx) /\ actorCtx'.actor[c] = actorCtx.actor[c]
      BY <1>1 DEF Planes
  <2> QED
      BY <1>4, <2>1, <2>2 DEF LoadingWhole
<1>9. EnteredWhole'
    BY <1>1 DEF GameInv, EnteredWhole
<1>10. AskedWhole'
    BY <1>3, <1>4 DEF GameInv, AskedWhole
<1>11. PassWhole'
    BY <1>1, <1>2, <1>3 DEF PassWhole
<1>12. InitsWhole'
  <2>1. InitsWhole
      BY DEF GameInv
  <2>2. nbSetupActors = <<>>
      BY <2>1 DEF InitsWhole
  <2>3. \A c \in DOMAIN actorCtx.actor : c \in ToCome /\ c # at => pc' = "update" /\ c \in ToCome'
      BY <1>3
  <2>4. ASSUME NEW c \in DOMAIN actorCtx.actor
        PROVE  LET a == actorCtx'.actor[c]
               IN  IF a.init
                   THEN /\ roomCtx.status = 0 /\ ~a.isDrawn
                        /\ a.objBankIndex \in DOMAIN bank /\ bank[a.objBankIndex].object = a.object
                        /\ \/ Waiting(a.room)
                           \/ bank[a.objBankIndex].state = "loaded" /\ pc' = "update" /\ c \in ToCome'
                   ELSE a.used = a.object /\ (a.live => Object_IsLoaded(bank, a.objBankIndex))
    <3>1. CASE c = at
        BY <1>1, <3>1
    <3>2. CASE c # at
        BY <1>1, <2>1, <2>3, <3>2 DEF InitsWhole
    <3> QED
        BY <3>1, <3>2
  <2> QED
      BY <1>1, <1>4, <2>2, <2>4 DEF InitsWhole
<1>13. ListWhole'
  <2>1. ListWhole
      BY DEF GameInv
  <2>2. \A c \in list.actors : /\ c \in DOMAIN actorCtx'.actor /\ actorCtx'.actor[c].isDrawn
                               /\ c \notin actorCtx'.freed
      BY <1>1, <2>1 DEF ListWhole
  <2> QED
      BY <1>3, <1>4, <2>1, <2>2 DEF ListWhole
<1> QED
    BY <1>5, <1>6, <1>7, <1>8, <1>9, <1>10, <1>11, <1>12, <1>13 DEF GameInv

(* A dead actor is deleted when it is no longer drawn.                      *)
LEMMA ActorGoes ==
    ASSUME GameInv, pc = "update", GoesOn,
           UNCHANGED <<bank, roomCtx, buffer, arrived, dma, nbSetupActors, player, list>>,
           ~actorCtx.actor[at].live, ~actorCtx.actor[at].isDrawn,
           actorCtx' = Actor_Delete(actorCtx, {at})
    PROVE  GameInv'
<1>1. /\ at \in DOMAIN actorCtx.actor /\ ToCome \cap actorCtx.freed = {} /\ nbSetupActors \in Seq(Object)
      /\ at # NULL /\ ToCome = Rest(actorCtx, at) /\ ToCome \subseteq DOMAIN actorCtx.actor
      /\ ActorsWhole(actorCtx) /\ PlanesWhole(actorCtx)
  <2>1. /\ at \in DOMAIN actorCtx.actor /\ ToCome \cap actorCtx.freed = {}
        /\ nbSetupActors \in Seq(Object) /\ ActorsWhole(actorCtx) /\ PlanesWhole(actorCtx)
      BY DEF GameInv, PassWhole
  <2>2. at # NULL
      BY <2>1, NullIsNone
  <2> QED
      BY <2>1, <2>2 DEF ToCome, Rest
<1>2. /\ ActorsWhole(actorCtx') /\ PlanesWhole(actorCtx') /\ actorCtx'.entered = actorCtx.entered
      /\ actorCtx'.freed = actorCtx.freed \cup {at}
      /\ DOMAIN actorCtx'.actor = DOMAIN actorCtx.actor \ {at}
      /\ \A d \in DOMAIN actorCtx'.actor : actorCtx'.actor[d] = actorCtx.actor[d]
      /\ \A d \in DOMAIN actorCtx.actor : d # at => Rest(actorCtx', d) = Rest(actorCtx, d) \ {at}
  <2>1. Deleted(actorCtx, actorCtx', at)
      BY <1>1, DeadDeleted
  <2> QED
      BY <2>1 DEF Deleted
<1>3. /\ ToCome' = ToCome \ {at}
      /\ pc' \in {"update", "draw"} /\ (pc' = "draw" => ToCome' = {})
      /\ pc' = "update" => at' \in DOMAIN actorCtx'.actor
    BY <1>1, <1>2, ToComeWithout
<1>4. /\ \A p : /\ Possible(p)' <=> Possible(p)
                /\ Settled(p)' <=> Settled(p)
                /\ InZone(p)' <=> InZone(p)
                /\ Place(p)' = Place(p)
      /\ \A r : (Alone(r)' <=> Alone(r)) /\ (Waiting(r)' <=> Waiting(r))
      /\ NoneAsks' <=> NoneAsks
    BY DEF Possible, Settled, InZone, InOuter, InInner, Place, Side, Own, Other, Both, Alone,
           NoneAsks, Waiting
<1>5. (ActorsWhole(actorCtx) /\ PlanesWhole(actorCtx))'
    BY <1>2
<1>6. (RoomsWhole /\ RequestsWhole)'
    BY DEF GameInv, RoomsWhole, RequestsWhole
<1>7. PlayerWhole'
  <2>1. ASSUME NEW p \in Plane, InZone(p), ~Settled(p)
        PROVE  \E c \in ToCome' : actorCtx'.actor[c].plane = p /\ actorCtx'.actor[c].live
    <3>1. PICK c \in ToCome : actorCtx.actor[c].plane = p /\ actorCtx.actor[c].live
        BY <2>1 DEF GameInv, PlayerWhole
    <3>2. c \in DOMAIN actorCtx.actor /\ c # at
        BY <1>1, <3>1
    <3> QED
        BY <1>2, <1>3, <3>1, <3>2
  <2>2. PlayerWhole
      BY DEF GameInv
  <2> QED
      BY <1>3, <1>4, <2>1, <2>2 DEF PlayerWhole
<1>8. LoadingWhole'
  <2>1. LoadingWhole
      BY DEF GameInv
  <2>2. \A c \in Planes(actorCtx') : c \in Planes(actorCtx) /\ actorCtx'.actor[c] = actorCtx.actor[c]
      BY <1>2 DEF Planes
  <2> QED
      BY <1>4, <2>1, <2>2 DEF LoadingWhole
<1>9. EnteredWhole'
    BY <1>2 DEF GameInv, EnteredWhole
<1>10. AskedWhole'
    BY <1>3, <1>4 DEF GameInv, AskedWhole
<1>11. PassWhole'
    BY <1>1, <1>2, <1>3 DEF PassWhole
<1>12. InitsWhole'
  <2>1. InitsWhole
      BY DEF GameInv
  <2>2. nbSetupActors = <<>>
      BY <2>1 DEF InitsWhole
  <2>3. \A c \in DOMAIN actorCtx.actor : c \in ToCome /\ c # at => pc' = "update" /\ c \in ToCome'
      BY <1>3
  <2>4. ASSUME NEW c \in DOMAIN actorCtx'.actor
        PROVE  LET a == actorCtx'.actor[c]
               IN  IF a.init
                   THEN /\ roomCtx.status = 0 /\ ~a.isDrawn
                        /\ a.objBankIndex \in DOMAIN bank /\ bank[a.objBankIndex].object = a.object
                        /\ \/ Waiting(a.room)
                           \/ bank[a.objBankIndex].state = "loaded" /\ pc' = "update" /\ c \in ToCome'
                   ELSE a.used = a.object /\ (a.live => Object_IsLoaded(bank, a.objBankIndex))
      BY <1>2, <2>1, <2>3 DEF InitsWhole
  <2> QED
      BY <1>4, <2>2, <2>4 DEF InitsWhole
<1>13. ListWhole'
  <2>1. ListWhole
      BY DEF GameInv
  <2>2. \A c \in list.actors : /\ c \in DOMAIN actorCtx'.actor /\ actorCtx'.actor[c].isDrawn
                               /\ c \notin actorCtx'.freed
      BY <1>2, <2>1 DEF ListWhole
  <2> QED
      BY <1>3, <1>4, <2>1, <2>2 DEF ListWhole
<1> QED
    BY <1>5, <1>6, <1>7, <1>8, <1>9, <1>10, <1>11, <1>12, <1>13 DEF GameInv

(* What Actor_UpdateAll does with all but the live planes.                  *)
LEMMA ActorStep ==
    ASSUME GameInv, UpdateActor, ~(at \in Planes(actorCtx) /\ actorCtx.actor[at].live)
    PROVE  GameInv'
<1> DEFINE a == actorCtx.actor[at]
           loaded == Object_IsLoaded(bank, a.objBankIndex)
<1>1. /\ pc = "update" /\ GoesOn
      /\ UNCHANGED <<nbSetupActors, player, list>>
    BY DEF UpdateActor, At, GoesOn
<1>2. /\ at \in DOMAIN actorCtx.actor /\ a \in AnActor /\ ActorsWhole(actorCtx) /\ PlanesWhole(actorCtx)
      /\ at \in Planes(actorCtx) <=> a.plane # 0
    BY <1>1 DEF GameInv, PassWhole, ActorsWhole, Planes
<1>3. /\ a.plane # 0 => ~a.init /\ loaded
      /\ a.plane = 0 => ~a.loading
    BY <1>2 DEF PlanesWhole, Object_IsLoaded
<1>4. IF a.init
      THEN /\ roomCtx.status = 0 /\ ~a.isDrawn
           /\ a.objBankIndex \in DOMAIN bank /\ bank[a.objBankIndex].object = a.object
           /\ Waiting(a.room) \/ bank[a.objBankIndex].state = "loaded"
      ELSE a.used = a.object /\ (a.live => loaded)
    BY <1>2 DEF GameInv, InitsWhole
<1>5. \/ a.init /\ Become(IF loaded THEN Inited(a, bank) ELSE a) /\ UNCHANGED loadVars
      \/ ~a.init /\ ~loaded /\ Become(Actor_Kill(a)) /\ UNCHANGED loadVars
      \/ ~a.init /\ a.plane = 0 /\ UNCHANGED actorCtx /\ UNCHANGED loadVars
      \/ /\ ~a.init /\ ~a.live /\ UNCHANGED loadVars
         /\ actorCtx' = IF ~a.isDrawn THEN Actor_Delete(actorCtx, {at}) ELSE Actor_Destroy(actorCtx, {at})
      \/ ~a.init /\ a.plane = 0 /\ Become(Actor_Kill(a)) /\ UNCHANGED loadVars
    BY <1>2 DEF UpdateActor, UpdateRoomActor, Deletable
<1>6. UNCHANGED loadVars => UNCHANGED <<bank, roomCtx, buffer, arrived, dma>>
    BY DEF loadVars
(* An actor that stays in its place. *)
<1>7. ASSUME NEW x \in AnActor, x.plane = 0, a.plane = 0, ~x.loading,
             actorCtx' = WithActor(actorCtx, at, x), UNCHANGED loadVars,
             x.live => a.live, x.isDrawn = a.isDrawn,
             IF x.init
             THEN /\ roomCtx.status = 0 /\ ~x.isDrawn
                  /\ x.objBankIndex \in DOMAIN bank /\ bank[x.objBankIndex].object = x.object
                  /\ Waiting(x.room)
             ELSE x.used = x.object /\ (x.live => Object_IsLoaded(bank, x.objBankIndex))
      PROVE  GameInv'
  <2>1. Altered(actorCtx, actorCtx', at, x)
      BY <1>2, <1>7, AlteredIs
  <2>2. PlanesWhole(actorCtx')
      BY <1>2, <1>7, <2>1, AlteredActor
  <2> HIDE DEF a
  <2>3. UNCHANGED <<bank, roomCtx, buffer, arrived, dma, nbSetupActors, player, list>>
      BY <1>1, <1>6, <1>7
  <2>4. x.live => actorCtx.actor[at].live
      BY <1>7 DEF a
  <2>5. x.isDrawn = actorCtx.actor[at].isDrawn
      BY <1>7 DEF a
  <2> QED
      BY <1>1, <1>7, <2>1, <2>2, <2>3, <2>4, <2>5, ActorStays
<1>8. \A x : Become(x) => actorCtx' = WithActor(actorCtx, at, x)
    BY DEF Become, WithActor
<1> HIDE DEF a
<1>9. /\ Actor_Kill(a) \in AnActor /\ ~Actor_Kill(a).live
      /\ Actor_Kill(a).plane = a.plane /\ Actor_Kill(a).loading = a.loading
      /\ Actor_Kill(a).isDrawn = a.isDrawn /\ Actor_Kill(a).init = a.init
      /\ Actor_Kill(a).used = a.used /\ Actor_Kill(a).object = a.object
    BY <1>2 DEF AnActor, Actor_Kill
<1>10. CASE a.init /\ Become(IF loaded THEN Inited(a, bank) ELSE a) /\ UNCHANGED loadVars
  <2>1. a.plane = 0 /\ ~a.loading
      BY <1>3, <1>10
  <2>2. CASE loaded
    <3> DEFINE x == Inited(a, bank)
    <3>1. actorCtx' = WithActor(actorCtx, at, x)
        BY <1>8, <1>10, <2>2
    <3>2. ObjectAt(bank, a.objBankIndex) = a.object
      <4>1. bank \in Seq(Entry)
          BY DEF GameInv, RequestsWhole
      <4>2. a.objBankIndex \in DOMAIN bank /\ bank[a.objBankIndex].object = a.object /\ a.objBankIndex # 0
          BY <1>4, <1>10, <4>1
      <4> QED
          BY <4>2 DEF ObjectAt
    <3>3. /\ x \in AnActor /\ ~x.init /\ x.used = a.object /\ x.object = a.object /\ x.plane = a.plane
          /\ x.loading = a.loading /\ x.live = a.live /\ x.isDrawn = a.isDrawn
          /\ x.objBankIndex = a.objBankIndex
        BY <1>2, <3>2 DEF AnActor, Inited
    <3> HIDE DEF x
    <3>4. Object_IsLoaded(bank, x.objBankIndex)
        BY <2>2, <3>3
    <3> QED
        BY <1>7, <1>10, <2>1, <3>1, <3>3, <3>4
  <2>3. CASE ~loaded
    <3>1. actorCtx' = WithActor(actorCtx, at, a)
        BY <1>8, <1>10, <2>3
    <3>2. Waiting(a.room)
        BY <1>4, <1>10, <2>3 DEF Object_IsLoaded
    <3> QED
        BY <1>2, <1>4, <1>7, <1>10, <2>1, <3>1, <3>2
  <2> QED
      BY <2>2, <2>3
<1>11. CASE ~a.init /\ Become(Actor_Kill(a)) /\ a.plane = 0 /\ UNCHANGED loadVars
  <2> DEFINE x == Actor_Kill(a)
  <2>1. actorCtx' = WithActor(actorCtx, at, x)
      BY <1>8, <1>11
  <2>2. /\ x \in AnActor /\ ~x.live /\ x.plane = 0 /\ ~x.loading /\ x.isDrawn = a.isDrawn
        /\ ~x.init /\ x.used = x.object
      BY <1>3, <1>4, <1>9, <1>11
  <2> HIDE DEF x
  <2> QED
      BY <1>7, <1>11, <2>1, <2>2
<1>12. CASE ~a.init /\ ~loaded /\ Become(Actor_Kill(a)) /\ UNCHANGED loadVars
    BY <1>3, <1>11, <1>12
<1>13. CASE ~a.init /\ a.plane = 0 /\ UNCHANGED actorCtx /\ UNCHANGED loadVars
  <2>1. Altered(actorCtx, actorCtx', at, a)
      BY <1>2, <1>13 DEF Altered, a
  <2>2. /\ PlanesWhole(actorCtx') /\ ~a.init /\ a.used = a.object
        /\ a.live => Object_IsLoaded(bank, a.objBankIndex)
      BY <1>2, <1>4, <1>13
  <2>3. /\ UNCHANGED <<bank, roomCtx, buffer, arrived, dma, nbSetupActors, player, list>>
        /\ a.live => actorCtx.actor[at].live
        /\ a.isDrawn = actorCtx.actor[at].isDrawn
      BY <1>1, <1>6, <1>13 DEF a
  <2> QED
      BY <1>1, <2>1, <2>2, <2>3, ActorStays
<1>14. CASE /\ ~a.init /\ ~a.live /\ UNCHANGED loadVars
            /\ actorCtx' = IF ~a.isDrawn THEN Actor_Delete(actorCtx, {at}) ELSE Actor_Destroy(actorCtx, {at})
  <2>1. UNCHANGED <<bank, roomCtx, buffer, arrived, dma, nbSetupActors, player, list>>
      BY <1>1, <1>6, <1>14
  <2>2. CASE ~a.isDrawn
    <3>1. /\ actorCtx' = Actor_Delete(actorCtx, {at})
          /\ ~actorCtx.actor[at].live /\ ~actorCtx.actor[at].isDrawn
        BY <1>14, <2>2 DEF a
    <3> QED
        BY <1>1, <2>1, <3>1, ActorGoes
  <2>3. CASE a.isDrawn
    <3>1. actorCtx' = Actor_Destroy(actorCtx, {at}) /\ ~actorCtx.actor[at].live
        BY <1>14, <2>3 DEF a
    <3>2. PlanesWhole(actorCtx') /\ Altered(actorCtx, actorCtx', at, Destroyed(a))
        BY <1>2, <3>1, DeadDestroyed DEF a
    <3> DEFINE x == Destroyed(a)
    <3>3. ~x.live /\ x.isDrawn = a.isDrawn /\ ~x.init /\ x.used = x.object
        BY <1>2, <1>4, <1>14 DEF Destroyed, AnActor
    <3> HIDE DEF x
    <3>4. Altered(actorCtx, actorCtx', at, x) /\ x.isDrawn = actorCtx.actor[at].isDrawn
        BY <3>2, <3>3 DEF x, a
    <3> QED
        BY <1>1, <2>1, <3>2, <3>3, <3>4, ActorStays
  <2> QED
      BY <1>2, <2>2, <2>3 DEF AnActor
<1> QED
    BY <1>5, <1>10, <1>11, <1>12, <1>13, <1>14

(* The actors in the order of Actor_UpdateAll when a plane is updated.      *)
LEMMA PlaneComes ==
    ASSUME GameInv, pc = "update", at \in Planes(actorCtx)
    PROVE  /\ at \in DOMAIN actorCtx.actor /\ ToCome \cap actorCtx.freed = {}
           /\ nbSetupActors = <<>> /\ nbSetupActors \in Seq(Object)
           /\ ActorsWhole(actorCtx) /\ PlanesWhole(actorCtx)
           /\ at # NULL /\ ToCome = Rest(actorCtx, at) /\ ToCome \subseteq Planes(actorCtx)
           /\ \A c \in DOMAIN actorCtx.actor :
                  actorCtx.actor[c].init => c # at /\ roomCtx.status = 0 /\ Waiting(actorCtx.actor[c].room)
<1>1. /\ at \in DOMAIN actorCtx.actor /\ ToCome \cap actorCtx.freed = {}
      /\ nbSetupActors \in Seq(Object) /\ ActorsWhole(actorCtx) /\ PlanesWhole(actorCtx)
    BY DEF GameInv, PassWhole
<1>2. at # NULL
    BY <1>1, NullIsNone
<1>3. \A d \in Rest(actorCtx, at) : d \in Planes(actorCtx)
    BY <1>1, PlanesLast
<1>4. ToCome = Rest(actorCtx, at)
    BY <1>2 DEF ToCome
<1>5. \A c \in Planes(actorCtx) : ~actorCtx.actor[c].init
    BY <1>1 DEF PlanesWhole
<1>6. nbSetupActors = <<>>
    BY DEF GameInv, InitsWhole
<1>7. ASSUME NEW c \in DOMAIN actorCtx.actor, actorCtx.actor[c].init
      PROVE  c # at /\ roomCtx.status = 0 /\ Waiting(actorCtx.actor[c].room)
  <2>1. c \notin ToCome /\ c # at
      BY <1>3, <1>4, <1>5, <1>7
  <2> QED
      BY <1>7, <2>1 DEF GameInv, InitsWhole
<1> QED
    BY <1>1, <1>2, <1>3, <1>4, <1>6, <1>7

(* A plane has asked for a room, swapped the rooms or left them.            *)
LEMMA PlaneStays ==
    ASSUME GameInv, pc = "update", GoesOn, UNCHANGED <<bank, nbSetupActors, player, list>>,
           at \in Planes(actorCtx), actorCtx.actor[at].live,
           NEW p \in Plane, p = actorCtx.actor[at].plane,
           NEW x, Altered(actorCtx, actorCtx', at, x), Alike(x, actorCtx.actor[at]),
           x.isDrawn = actorCtx.actor[at].isDrawn,
           RoomsWhole', RequestsWhole', EnteredWhole',
           InZone(p) => Settled(p)',
           roomCtx' = roomCtx \/ (InZone(p) /\ \A r : ~Waiting(r)),
           x.loading = (p \in Stepped /\ InZone(p) /\ roomCtx'.prev.num # NoRoom),
           x.loading => x.room = roomCtx'.cur.num,
           roomCtx'.status = 1 => roomCtx'.unk_34 \notin list.rooms,
           roomCtx'.status = 0 /\ roomCtx'.unk_30 \in list.rooms /\ roomCtx'.prev.num = NoRoom => NoneAsks',
           (\E i \in DOMAIN bank : bank[i].state = "asked") => NoneAsks'
    PROVE  GameInv' /\ at \notin actorCtx'.freed
<1>1. /\ ActorsWhole(actorCtx') /\ DOMAIN actorCtx'.actor = DOMAIN actorCtx.actor
      /\ actorCtx'.actor[at] = x
      /\ \A d \in DOMAIN actorCtx.actor : d # at => actorCtx'.actor[d] = actorCtx.actor[d]
      /\ actorCtx'.entered = actorCtx.entered /\ actorCtx'.freed = actorCtx.freed
      /\ Planes(actorCtx') = Planes(actorCtx)
    BY DEF Altered
<1>2. /\ at \in DOMAIN actorCtx.actor /\ ToCome \cap actorCtx.freed = {}
      /\ nbSetupActors = <<>> /\ nbSetupActors \in Seq(Object)
      /\ ActorsWhole(actorCtx) /\ PlanesWhole(actorCtx)
      /\ at # NULL /\ ToCome = Rest(actorCtx, at) /\ ToCome \subseteq Planes(actorCtx)
      /\ \A c \in DOMAIN actorCtx.actor :
             actorCtx.actor[c].init => c # at /\ roomCtx.status = 0 /\ Waiting(actorCtx.actor[c].room)
    BY PlaneComes
<1>3. /\ ToCome' = ToCome \ {at}
      /\ pc' \in {"update", "draw"} /\ (pc' = "draw" => ToCome' = {})
      /\ pc' = "update" => at' \in DOMAIN actorCtx'.actor
  <2>1. Rest(actorCtx', at) = Rest(actorCtx, at)
      BY AlteredRest
  <2> QED
      BY <1>1, <1>2, <2>1, ToComeStays
<1>4. player \in Int /\ \A q : (InZone(q)' <=> InZone(q)) /\ Place(q)' = Place(q)
    BY DEF GameInv, PlayerWhole, InZone, Place
<1>5. InZone(p) => \A q \in Plane : Place(q) # 0 /\ Place(q) # 5 /\ (InZone(q) => q = p)
    BY <1>4, OneZone
<1>6. \A c, d \in Planes(actorCtx) :
          actorCtx.actor[c].plane = actorCtx.actor[d].plane /\ actorCtx.actor[c].live
              /\ actorCtx.actor[d].live => c = d
    BY <1>2 DEF PlanesWhole
<1>7. PlanesWhole(actorCtx')
    BY <1>2, AlteredPlane
<1>8. (ActorsWhole(actorCtx) /\ PlanesWhole(actorCtx))'
    BY <1>1, <1>7
<1>9. PlayerWhole'
  <2>1. ASSUME NEW q \in Plane, InZone(q)
        PROVE  /\ Possible(q)'
               /\ Settled(q)' \/ \E c \in ToCome' : actorCtx'.actor[c].plane = q /\ actorCtx'.actor[c].live
    <3>1. CASE q = p
        BY <2>1, <3>1 DEF Settled, Possible
    <3>2. CASE q # p
      <4>1. roomCtx' = roomCtx
          BY <1>5, <2>1, <3>2
      <4>2. (Possible(q)' <=> Possible(q)) /\ (Settled(q)' <=> Settled(q))
          BY <4>1 DEF Possible, Settled, InZone, InOuter, InInner, Place, Side, Own, Other, Both, Alone
      <4>3. Possible(q) /\ (Settled(q) \/ \E c \in ToCome : actorCtx.actor[c].plane = q /\ actorCtx.actor[c].live)
          BY <2>1 DEF GameInv, PlayerWhole
      <4>4. ASSUME NEW c \in ToCome, actorCtx.actor[c].plane = q, actorCtx.actor[c].live
            PROVE  c \in ToCome' /\ actorCtx'.actor[c] = actorCtx.actor[c]
        <5>1. c # at /\ c \in DOMAIN actorCtx.actor
            BY <1>2, <3>2, <4>4 DEF Planes
        <5> QED
            BY <1>1, <1>3, <4>4, <5>1
      <4> QED
          BY <4>2, <4>3, <4>4
    <3> QED
        BY <3>1, <3>2
  <2>2. ASSUME NEW q \in Plane
        PROVE  /\ Place(q) = 0 => Alone(Sides[q][0])'
               /\ Place(q) = 5 => Alone(Sides[q][1])'
    <3>1. CASE roomCtx' = roomCtx
        BY <3>1 DEF GameInv, PlayerWhole, Alone, Both
    <3>2. CASE InZone(p)
        BY <1>5, <3>2
    <3> QED
        BY <3>1, <3>2
  <2>3. player' \in 0 .. 5 * Cardinality(Plane)
      BY DEF GameInv, PlayerWhole
  <2> QED
      BY <1>3, <1>4, <2>1, <2>2, <2>3 DEF PlayerWhole
<1>10. LoadingWhole'
  <2>1. ASSUME NEW c \in Planes(actorCtx), actorCtx'.actor[c].live
        PROVE  LET a == actorCtx'.actor[c]
               IN  /\ a.loading = (/\ a.plane \in Stepped /\ InZone(a.plane)
                                   /\ roomCtx'.prev.num # NoRoom)
                   /\ (a.loading => a.room = roomCtx'.cur.num)
    <3>1. CASE c = at
      <4>1. actorCtx'.actor[c] = x /\ x.plane = p
          BY <1>1, <3>1 DEF Alike
      <4> QED
          BY <4>1
    <3>2. CASE c # at
      <4>1. actorCtx'.actor[c] = actorCtx.actor[c] /\ actorCtx.actor[c].plane \in Plane
          BY <1>1, <1>2, <3>2 DEF Planes, ActorsWhole, AnActor
      <4>2. actorCtx.actor[c].plane # p
          BY <1>6, <2>1, <3>2, <4>1
      <4>3. /\ actorCtx.actor[c].loading = (/\ actorCtx.actor[c].plane \in Stepped
                                            /\ InZone(actorCtx.actor[c].plane) /\ roomCtx.prev.num # NoRoom)
            /\ (actorCtx.actor[c].loading => actorCtx.actor[c].room = roomCtx.cur.num)
          BY <2>1, <4>1 DEF GameInv, LoadingWhole
      <4>4. roomCtx' = roomCtx \/ ~InZone(actorCtx.actor[c].plane)
          BY <1>5, <4>1, <4>2
      <4> QED
          BY <4>1, <4>3, <4>4
    <3> QED
        BY <3>1, <3>2
  <2> QED
      BY <1>1, <1>4, <2>1 DEF LoadingWhole
<1>11. AskedWhole'
    BY <1>3 DEF AskedWhole
<1>12. PassWhole'
    BY <1>1, <1>2, <1>3 DEF PassWhole
<1>13. InitsWhole'
  <2>1. InitsWhole
      BY DEF GameInv
  <2>2. ASSUME NEW c \in DOMAIN actorCtx.actor
        PROVE  LET a == actorCtx'.actor[c]
               IN  IF a.init
                   THEN /\ roomCtx'.status = 0 /\ ~a.isDrawn
                        /\ a.objBankIndex \in DOMAIN bank /\ bank[a.objBankIndex].object = a.object
                        /\ Waiting(a.room) /\ roomCtx' = roomCtx
                   ELSE a.used = a.object /\ (a.live => Object_IsLoaded(bank, a.objBankIndex))
    <3>1. CASE c = at
      <4>1. ~actorCtx.actor[at].init
          BY <1>2
      <4>2. /\ actorCtx.actor[at].used = actorCtx.actor[at].object
            /\ actorCtx.actor[at].live => Object_IsLoaded(bank, actorCtx.actor[at].objBankIndex)
          BY <1>2, <2>1, <4>1 DEF InitsWhole
      <4>3. /\ ~x.init /\ x.used = x.object
            /\ x.live => Object_IsLoaded(bank, x.objBankIndex)
          BY <4>1, <4>2 DEF Alike
      <4> QED
          BY <1>1, <3>1, <4>3
    <3>2. CASE c # at /\ actorCtx.actor[c].init
      <4>1. actorCtx'.actor[c] = actorCtx.actor[c] /\ roomCtx.status = 0 /\ Waiting(actorCtx.actor[c].room)
          BY <1>1, <1>2, <3>2
      <4>2. roomCtx' = roomCtx
          BY <4>1
      <4>4. /\ ~actorCtx.actor[c].isDrawn
            /\ actorCtx.actor[c].objBankIndex \in DOMAIN bank
            /\ bank[actorCtx.actor[c].objBankIndex].object = actorCtx.actor[c].object
          BY <2>1, <3>2 DEF InitsWhole
      <4> QED
          BY <3>2, <4>1, <4>2, <4>4
    <3>3. CASE c # at /\ ~actorCtx.actor[c].init
        BY <1>1, <2>1, <3>3 DEF InitsWhole
    <3> QED
        BY <3>1, <3>2, <3>3
  <2>3. roomCtx' = roomCtx => \A r : Waiting(r)' <=> Waiting(r)
      BY DEF Waiting, InZone, Place, Own, Other, Side, Both
  <2> QED
      BY <1>1, <1>2, <2>2, <2>3 DEF InitsWhole
<1>14. ListWhole'
  <2>1. ListWhole
      BY DEF GameInv
  <2>2. \A c \in list.actors : /\ c \in DOMAIN actorCtx'.actor /\ actorCtx'.actor[c].isDrawn
                               /\ c \notin actorCtx'.freed
      BY <1>1, <2>1 DEF ListWhole
  <2> QED
      BY <1>3, <2>1, <2>2 DEF ListWhole
<1>15. at \notin actorCtx'.freed
    BY <1>1, <1>2 DEF Rest
<1>16. GameInv'
    BY <1>8, <1>9, <1>10, <1>11, <1>12, <1>13, <1>14 DEF GameInv
<1> QED
    BY <1>15, <1>16

LEMMA PlaneRests ==
    ASSUME GameInv, pc = "update", GoesOn,
           UNCHANGED <<bank, roomCtx, buffer, arrived, dma, nbSetupActors, player, list>>,
           at \in Planes(actorCtx), actorCtx.actor[at].live,
           NEW p \in Plane, p = actorCtx.actor[at].plane,
           NEW x, Altered(actorCtx, actorCtx', at, x), Alike(x, actorCtx.actor[at]),
           x.isDrawn = actorCtx.actor[at].isDrawn,
           InZone(p) => Settled(p),
           x.loading = actorCtx.actor[at].loading, x.loading => x.room = actorCtx.actor[at].room
    PROVE  GameInv' /\ at \notin actorCtx'.freed
<1>1. (RoomsWhole /\ RequestsWhole)'
    BY DEF GameInv, RoomsWhole, RequestsWhole
<1>2. EnteredWhole'
    BY DEF GameInv, EnteredWhole, Altered
<1>3. (Settled(p)' <=> Settled(p)) /\ (NoneAsks' <=> NoneAsks)
    BY DEF Settled, InZone, InOuter, InInner, Place, Side, Own, Other, Both, Alone, NoneAsks
<1>4. /\ x.loading = (p \in Stepped /\ InZone(p) /\ roomCtx'.prev.num # NoRoom)
      /\ x.loading => x.room = roomCtx'.cur.num
    BY DEF GameInv, LoadingWhole
<1>5. roomCtx'.status = 1 => roomCtx'.unk_34 \notin list.rooms
    BY DEF GameInv, ListWhole
<1>6. roomCtx'.status = 0 /\ roomCtx'.unk_30 \in list.rooms /\ roomCtx'.prev.num = NoRoom => NoneAsks'
    BY <1>3 DEF GameInv, ListWhole
<1>7. (\E i \in DOMAIN bank : bank[i].state = "asked") => NoneAsks'
    BY <1>3 DEF GameInv, AskedWhole
<1>8. InZone(p) => Settled(p)'
    BY <1>3
<1>9. roomCtx' = roomCtx \/ (InZone(p) /\ \A r : ~Waiting(r))
    OBVIOUS
<1>10. UNCHANGED <<bank, nbSetupActors, player, list>>
    OBVIOUS
<1> QED
    BY <1>1, <1>2, <1>4, <1>5, <1>6, <1>7, <1>8, <1>9, <1>10, PlaneStays

(* The plane's actor, with another room and another state.                  *)
Turns(w, r, l) ==
    \E x \in AnActor : /\ Altered(actorCtx, w, at, x) /\ Alike(x, actorCtx.actor[at])
                       /\ x.isDrawn = actorCtx.actor[at].isDrawn
                       /\ x.room = r /\ x.loading = l

LEMMA TurnsTo ==
    ASSUME ActorsWhole(actorCtx), at \in DOMAIN actorCtx.actor, NEW r \in Room
    PROVE  /\ Turns(WithRoom(r), r, actorCtx.actor[at].loading)
           /\ Turns([actorCtx EXCEPT !.actor[at].loading = FALSE], actorCtx.actor[at].room, FALSE)
           /\ Turns([WithRoom(r) EXCEPT !.actor[at].loading = TRUE], r, TRUE)
<1> DEFINE a == actorCtx.actor[at]
           x == [a EXCEPT !.room = r]
           y == [a EXCEPT !.loading = FALSE]
           z == [x EXCEPT !.loading = TRUE]
<1>1. a \in AnActor
    BY DEF ActorsWhole
<1>2. /\ WithRoom(r) = WithActor(actorCtx, at, x)
      /\ [actorCtx EXCEPT !.actor[at].loading = FALSE] = WithActor(actorCtx, at, y)
    BY DEF WithRoom, WithActor
<1> HIDE DEF a
<1>3. /\ x \in AnActor /\ Alike(x, a) /\ x.isDrawn = a.isDrawn /\ x.room = r /\ x.loading = a.loading
      /\ x.plane = a.plane
    BY <1>1 DEF AnActor, Alike
<1>4. /\ y \in AnActor /\ Alike(y, a) /\ y.isDrawn = a.isDrawn /\ y.room = a.room /\ y.loading = FALSE
      /\ y.plane = a.plane
    BY <1>1 DEF AnActor, Alike
<1>5. /\ z \in AnActor /\ Alike(z, a) /\ z.isDrawn = a.isDrawn /\ z.room = r /\ z.loading = TRUE
      /\ z.plane = a.plane
    BY <1>1 DEF AnActor, Alike
<1> DEFINE v == WithRoom(r)
           w == [v EXCEPT !.actor[at].loading = TRUE]
<1> HIDE DEF x, y, v
<1>6. Altered(actorCtx, v, at, x)
    BY <1>2, <1>3, AlteredIs DEF a, v
<1>7. Altered(actorCtx, WithActor(actorCtx, at, y), at, y)
    BY <1>4, AlteredIs DEF a
<1>8. /\ ActorsWhole(v) /\ at \in DOMAIN v.actor /\ v.actor[at] = x
    BY <1>6 DEF Altered
<1>9. w = WithActor(v, at, z)
    BY <1>8 DEF WithActor
<1> HIDE DEF z, w
<1>10. Altered(v, w, at, z)
  <2>1. z.plane = v.actor[at].plane
      BY <1>3, <1>5, <1>8
  <2> QED
      BY <1>5, <1>8, <1>9, <2>1, AlteredIs
<1>11. Altered(actorCtx, w, at, z)
    BY <1>6, <1>10 DEF Altered
<1>12. Turns(v, r, a.loading)
    BY <1>3, <1>6 DEF Turns, a
<1>13. Turns(WithActor(actorCtx, at, y), a.room, FALSE)
    BY <1>4, <1>7 DEF Turns, a
<1>14. Turns(w, r, TRUE)
    BY <1>5, <1>11 DEF Turns, a
<1> QED
    BY <1>2, <1>12, <1>13, <1>14 DEF v, w, a

(* What the planes do with the rooms.                                       *)
Fields(rc) == rc = [cur |-> rc.cur, prev |-> rc.prev, status |-> rc.status,
                    unk_30 |-> rc.unk_30, unk_34 |-> rc.unk_34]

Left(rc) == [rc EXCEPT !.prev = NoRoomLoaded]

LEMMA SwapIs ==
    ASSUME NEW rc, Fields(rc), NEW w, w = EnHoll_SwapRooms(rc)
    PROVE  /\ Fields(w) /\ w.cur = rc.prev /\ w.prev = rc.cur /\ w.status = rc.status
           /\ w.unk_30 = 1 - rc.unk_30 /\ w.unk_34 = rc.unk_34
<1> DEFINE A == rc.cur
           B == rc.prev
           C == rc.status
           D == rc.unk_30
           E == rc.unk_34
<1>1. /\ rc = [cur |-> A, prev |-> B, status |-> C, unk_30 |-> D, unk_34 |-> E]
      /\ w = [rc EXCEPT !.cur = B, !.prev = A, !.unk_30 = 1 - D]
    BY DEF Fields, EnHoll_SwapRooms
<1> HIDE DEF A, B, C, D, E
<1>2. w = [cur |-> B, prev |-> A, status |-> C, unk_30 |-> 1 - D, unk_34 |-> E]
    BY <1>1
<1>3. /\ w.cur = B /\ w.prev = A /\ w.status = C /\ w.unk_30 = 1 - D /\ w.unk_34 = E
    BY <1>2
<1>4. Fields(w)
    BY <1>2, <1>3 DEF Fields
<1> QED
    BY <1>3, <1>4 DEF A, B, C, D, E

LEMMA LeftIs ==
    ASSUME NEW rc, Fields(rc), NEW w, w = Left(rc)
    PROVE  /\ Fields(w) /\ w.cur = rc.cur /\ w.prev = NoRoomLoaded /\ w.status = rc.status
           /\ w.unk_30 = rc.unk_30 /\ w.unk_34 = rc.unk_34
<1> DEFINE A == rc.cur
           B == rc.prev
           C == rc.status
           D == rc.unk_30
           E == rc.unk_34
           N == NoRoomLoaded
<1>1. /\ rc = [cur |-> A, prev |-> B, status |-> C, unk_30 |-> D, unk_34 |-> E]
      /\ w = [rc EXCEPT !.prev = N]
    BY DEF Fields, Left
<1> HIDE DEF A, B, C, D, E, N
<1>2. w = [cur |-> A, prev |-> N, status |-> C, unk_30 |-> D, unk_34 |-> E]
    BY <1>1
<1>3. /\ w.cur = A /\ w.prev = N /\ w.status = C /\ w.unk_30 = D /\ w.unk_34 = E
    BY <1>2
<1>4. Fields(w)
    BY <1>2, <1>3 DEF Fields
<1> QED
    BY <1>3, <1>4 DEF A, C, D, E, N

(* A room is asked for while only one is there, into the buffer that        *)
(* nothing is drawn from.                                                   *)
LEMMA RoomAsked ==
    ASSUME GameInv, NEW r \in Room, func_8009728C(r),
           roomCtx.status = 0, roomCtx.prev.num = NoRoom, ~NoneAsks,
           actorCtx'.entered = actorCtx.entered
    PROVE  /\ RoomsWhole' /\ RequestsWhole' /\ EnteredWhole' /\ bank' = bank
           /\ roomCtx'.cur.num = r /\ roomCtx'.prev.num = roomCtx.cur.num
           /\ roomCtx'.status = 1 /\ roomCtx'.unk_34 \notin list.rooms
           /\ \A i \in DOMAIN bank : bank[i].state # "asked"
<1> DEFINE free == roomCtx.unk_30
           req == [what |-> "room", at |-> free, file |-> r]
           n == Len(dma)
<1>1. /\ roomCtx' = [cur |-> [num |-> r, segment |-> NULL], prev |-> roomCtx.cur,
                     status |-> 1, unk_30 |-> 1 - free, unk_34 |-> free]
      /\ buffer' = [buffer EXCEPT ![free] = NoRoom] /\ arrived' = FALSE
      /\ dma' = Append(dma, req) /\ bank' = bank
    BY DEF func_8009728C
<1>2. /\ roomCtx'.cur.num = r /\ roomCtx'.cur.segment = NULL /\ roomCtx'.prev = roomCtx.cur
      /\ roomCtx'.status = 1 /\ roomCtx'.unk_30 = 1 - free /\ roomCtx'.unk_34 = free
      /\ roomCtx'.cur = [num |-> r, segment |-> NULL]
      /\ roomCtx' = [cur |-> roomCtx'.cur, prev |-> roomCtx'.prev, status |-> roomCtx'.status,
                     unk_30 |-> roomCtx'.unk_30, unk_34 |-> roomCtx'.unk_34]
    BY <1>1
<1>3. /\ roomCtx.cur \in ARoom /\ roomCtx.cur.num # NoRoom /\ free \in {0, 1}
      /\ roomCtx.cur.segment \in {NULL, 1 - free} /\ DOMAIN buffer = {0, 1}
      /\ roomCtx.cur.segment # NULL => buffer[roomCtx.cur.segment] = roomCtx.cur.num
    BY DEF GameInv, RoomsWhole
<1>4. RoomsWhole'
  <2>1. r # NoRoom
      BY LoadingAssumption
  <2>2. roomCtx'.cur \in ARoom
      BY <1>2 DEF ARoom
  <2>3. DOMAIN buffer' = {0, 1} /\ buffer'[1 - free] = buffer[1 - free]
      BY <1>1, <1>3
  <2>4. roomCtx'.prev.segment # NULL => buffer'[roomCtx'.prev.segment] = roomCtx'.prev.num
      BY <1>2, <1>3, <2>3
  <2>5. /\ roomCtx'.prev \in ARoom /\ roomCtx'.cur.num # NoRoom /\ roomCtx'.prev.num # NoRoom
        /\ roomCtx'.unk_30 \in {0, 1} /\ roomCtx'.status \in {0, 1}
        /\ roomCtx'.cur.segment = NULL /\ roomCtx'.prev.segment \in {NULL, roomCtx'.unk_30}
        /\ roomCtx'.unk_34 = 1 - roomCtx'.unk_30
      BY <1>2, <1>3, <2>1
  <2>6. arrived' = FALSE
      BY <1>1
  <2>7. roomCtx' = [cur |-> roomCtx'.cur, prev |-> roomCtx'.prev, status |-> roomCtx'.status,
                    unk_30 |-> roomCtx'.unk_30, unk_34 |-> roomCtx'.unk_34]
      BY <1>2
  <2> QED
      BY <2>2, <2>3, <2>4, <2>5, <2>6, <2>7 DEF RoomsWhole
<1>5. \A i \in DOMAIN bank : bank[i].state # "asked"
    BY DEF GameInv, AskedWhole
<1>6. RequestsWhole'
  <2>1. /\ dma \in Seq(Request) /\ bank \in Seq(Entry) /\ req \in Request
        /\ req.what = "room" /\ req.at = free /\ req.file = r
      BY <1>3 DEF GameInv, RequestsWhole, Request
  <2>2. \A k \in DOMAIN dma : dma[k].what # "room"
      BY DEF GameInv, RequestsWhole
  <2> HIDE DEF req
  <2>3. /\ dma' \in Seq(Request) /\ n \in Nat /\ DOMAIN dma = 1 .. n
        /\ \A k \in DOMAIN dma' : \/ k \in DOMAIN dma /\ dma'[k] = dma[k] /\ k < n + 1
                                  \/ k = n + 1 /\ dma'[k] = req
      BY <1>1, <2>1
  <2> HIDE DEF n
  <2>4. ASSUME NEW k \in DOMAIN dma', dma'[k].what = "room"
        PROVE  k = n + 1 /\ dma'[k].at = free /\ dma'[k].file = r
      BY <2>1, <2>2, <2>3, <2>4
  <2>5. ASSUME NEW k \in DOMAIN dma', dma'[k].what = "object"
        PROVE  k \in DOMAIN dma /\ dma'[k] = dma[k] /\ k < n + 1
      BY <2>1, <2>3, <2>5
  <2>6. ASSUME NEW k \in DOMAIN dma', dma'[k].what = "object"
        PROVE  /\ dma'[k].at \in DOMAIN bank
               /\ bank[dma'[k].at] = [object |-> dma'[k].file, state |-> "sent"]
    <3>1. k \in DOMAIN dma /\ dma'[k] = dma[k]
        BY <2>5, <2>6
    <3> QED
        BY <2>6, <3>1 DEF GameInv, RequestsWhole
  <2>7. ASSUME NEW k \in DOMAIN dma', NEW l \in DOMAIN dma',
               dma'[k].what = "object", dma'[l].what = "object", dma'[k].at = dma'[l].at
        PROVE  k = l
    <3>1. k \in DOMAIN dma /\ dma'[k] = dma[k] /\ l \in DOMAIN dma /\ dma'[l] = dma[l]
        BY <2>5, <2>7
    <3> QED
        BY <2>7, <3>1 DEF GameInv, RequestsWhole
  <2>8. ASSUME NEW k \in DOMAIN dma', NEW l \in DOMAIN dma', dma'[k].what = "room"
        PROVE  /\ dma'[l].what = "room" => k = l
               /\ dma'[l].what = "object" => l < k
      BY <2>4, <2>5, <2>8
  <2> QED
      BY <1>1, <1>2, <1>5, <2>1, <2>3, <2>4, <2>6, <2>7, <2>8 DEF RequestsWhole
<1>7. EnteredWhole'
    BY <1>2 DEF GameInv, EnteredWhole
<1>8. free \notin list.rooms
    BY DEF GameInv, ListWhole
<1> QED
    BY <1>1, <1>2, <1>4, <1>5, <1>6, <1>7, <1>8

LEMMA AskingStep ==
    ASSUME GameInv, pc = "update", GoesOn, UNCHANGED <<nbSetupActors, player, list>>,
           at \in Planes(actorCtx), actorCtx.actor[at].live,
           NEW p \in Plane, p = actorCtx.actor[at].plane,
           NEW r \in Room, func_8009728C(r), NEW l \in BOOLEAN, Turns(actorCtx', r, l),
           l = (p \in Stepped), InZone(p),
           roomCtx.status = 0, roomCtx.prev.num = NoRoom, ~NoneAsks,
           \A q : ~Waiting(q),
           IF p \in Stepped THEN r = Own(p) /\ roomCtx.cur.num = Other(p)
           ELSE InInner(p) /\ r = Other(p) /\ roomCtx.cur.num = Own(p)
    PROVE  GameInv' /\ at \notin actorCtx'.freed
<1>1. PICK x \in AnActor : /\ Altered(actorCtx, actorCtx', at, x) /\ Alike(x, actorCtx.actor[at])
                           /\ x.isDrawn = actorCtx.actor[at].isDrawn
                           /\ x.room = r /\ x.loading = l
    BY DEF Turns
<1>2. actorCtx'.entered = actorCtx.entered
    BY <1>1 DEF Altered
<1>3. /\ RoomsWhole' /\ RequestsWhole' /\ EnteredWhole' /\ bank' = bank
      /\ roomCtx'.cur.num = r /\ roomCtx'.prev.num = roomCtx.cur.num
      /\ roomCtx'.status = 1 /\ roomCtx'.unk_34 \notin list.rooms
      /\ \A i \in DOMAIN bank : bank[i].state # "asked"
    BY <1>2, RoomAsked
<1>4. roomCtx.cur.num # NoRoom
    BY DEF GameInv, RoomsWhole
<1>5. Settled(p)'
  <2>1. Own(p)' = Own(p) /\ Other(p)' = Other(p) /\ (InInner(p)' <=> InInner(p))
      BY DEF Own, Other, Side, Place, InInner
  <2> QED
      BY <1>3, <2>1 DEF Settled, Both
<1>6. /\ x.loading = (p \in Stepped /\ InZone(p) /\ roomCtx'.prev.num # NoRoom)
      /\ x.loading => x.room = roomCtx'.cur.num
    BY <1>1, <1>3, <1>4
<1>7. /\ roomCtx'.status = 1 => roomCtx'.unk_34 \notin list.rooms
      /\ roomCtx'.status = 0 /\ roomCtx'.unk_30 \in list.rooms /\ roomCtx'.prev.num = NoRoom => NoneAsks'
      /\ (\E i \in DOMAIN bank : bank[i].state = "asked") => NoneAsks'
      /\ roomCtx' = roomCtx \/ (InZone(p) /\ \A q : ~Waiting(q))
      /\ UNCHANGED <<bank, nbSetupActors, player, list>>
    BY <1>3
<1> QED
    BY <1>1, <1>3, <1>5, <1>6, <1>7, PlaneStays

(* A plane gives up the rooms but the one it is in.                         *)
LEMMA PlaneDrops ==
    ASSUME GameInv, pc = "update", GoesOn, UNCHANGED <<bank, nbSetupActors, player, list>>,
           at \in Planes(actorCtx), actorCtx.actor[at].live,
           NEW p \in Plane, p = actorCtx.actor[at].plane, InZone(p),
           NEW ac, NEW r, Turns(ac, r, FALSE), r = roomCtx'.cur.num,
           actorCtx' = Actor_SpawnTransitionActors(func_80031B14(ac, roomCtx'), bank, roomCtx'), HasRoom',
           RoomsWhole', RequestsWhole', roomCtx'.prev.num = NoRoom, roomCtx'.status = 0,
           Settled(p)', NoneAsks',
           \A q : Waiting(q) => Waiting(q)' \/ q # roomCtx'.cur.num
    PROVE  GameInv' /\ at \notin actorCtx'.freed
<1> DEFINE w == func_80031B14(ac, roomCtx')
           gone == Gone(ac, roomCtx')
           new == actorCtx'
<1>1. PICK x \in AnActor : /\ Altered(actorCtx, ac, at, x) /\ Alike(x, actorCtx.actor[at])
                           /\ x.isDrawn = actorCtx.actor[at].isDrawn
                           /\ x.room = r /\ x.loading = FALSE
    BY DEF Turns
<1>2. /\ at \in DOMAIN actorCtx.actor /\ ToCome \cap actorCtx.freed = {}
      /\ nbSetupActors = <<>> /\ nbSetupActors \in Seq(Object)
      /\ ActorsWhole(actorCtx) /\ PlanesWhole(actorCtx)
      /\ at # NULL /\ ToCome = Rest(actorCtx, at) /\ ToCome \subseteq Planes(actorCtx)
      /\ \A c \in DOMAIN actorCtx.actor :
             actorCtx.actor[c].init => c # at /\ roomCtx.status = 0 /\ Waiting(actorCtx.actor[c].room)
    BY PlaneComes
<1>3. /\ ActorsWhole(ac) /\ DOMAIN ac.actor = DOMAIN actorCtx.actor
      /\ ac.actor[at] = x
      /\ \A d \in DOMAIN actorCtx.actor : d # at => ac.actor[d] = actorCtx.actor[d]
      /\ ac.entered = actorCtx.entered /\ ac.freed = actorCtx.freed
      /\ Planes(ac) = Planes(actorCtx)
    BY <1>1 DEF Altered
<1>4. PlanesWhole(ac)
    BY <1>1, <1>2, AlteredPlane
<1>5. Dropped(ac, w, gone)
    BY <1>3, <1>4, DroppedIs
<1> HIDE DEF gone
<1>6. \A c \in DOMAIN ac.actor : c \in gone <=> ac.actor[c].room # roomCtx'.cur.num
  <2>1. \A c \in DOMAIN ac.actor : ac.actor[c].room # NoRoom
      BY <1>3, LoadingAssumption DEF ActorsWhole, AnActor
  <2> QED
      BY <2>1 DEF gone, Gone
<1>7. PlanesMade(w, new, roomCtx', Cardinality(Plane))
  <2>1. ActorsWhole(w) /\ PlanesWhole(w)
      BY <1>5 DEF Dropped
  <2>2. roomCtx'.cur.num \in Room /\ bank \in Seq(Entry)
      BY DEF GameInv, RequestsWhole, RoomsWhole, ARoom
  <2>3. FreeBlocks(Actor_SpawnTransitionActors(w, bank, roomCtx')) # {}
      BY DEF HasRoom
  <2> HIDE DEF w
  <2>4. PlanesMade(w, Actor_SpawnTransitionActors(w, bank, roomCtx'), roomCtx', Cardinality(Plane))
      BY <2>1, <2>2, <2>3, SpawnedPlanes
  <2> QED
      BY <2>4 DEF w
<1> HIDE DEF w, new
<1>8. /\ ActorsWhole(new) /\ PlanesWhole(new)
      /\ \A c \in DOMAIN w.actor : c \in DOMAIN new.actor /\ new.actor[c] = w.actor[c]
      /\ new.freed = w.freed
      /\ \A c, d : c \in Planes(w) /\ Before(Order(new), c, d) => Before(Order(w), c, d)
      /\ \A c \in DOMAIN new.actor \ DOMAIN w.actor : NewPlane(new.actor[c], roomCtx')
    BY <1>7 DEF PlanesMade, Kept
<1>9. \A q \in Plane : Adjoins(q, roomCtx') => new.entered[q]
    BY <1>7, Numbers DEF PlanesMade
<1>10. /\ ActorsWhole(w)
       /\ \A c : c \in DOMAIN w.actor <=> c \in DOMAIN ac.actor /\ (c \in gone => ac.actor[c].isDrawn)
       /\ \A c \in DOMAIN w.actor :
              w.actor[c] = IF c \in gone THEN Destroyed(Actor_Kill(ac.actor[c])) ELSE ac.actor[c]
       /\ w.freed = ac.freed \cup {c \in gone : ~ac.actor[c].isDrawn}
       /\ \A c, d : Before(Order(w), c, d) => Before(Order(ac), c, d)
    BY <1>5 DEF Dropped
<1>11. \A c \in DOMAIN w.actor :
           LET a == ac.actor[c]
               b == new.actor[c]
           IN  /\ b = a \/ c \in gone
               /\ b.init = a.init /\ b.used = a.used /\ b.object = a.object /\ b.isDrawn = a.isDrawn
               /\ c \in gone => ~b.live
  <2>1. SUFFICES ASSUME NEW c \in DOMAIN w.actor
        PROVE  LET a == ac.actor[c]
                   b == new.actor[c]
               IN  /\ b = a \/ c \in gone
                   /\ b.init = a.init /\ b.used = a.used /\ b.object = a.object /\ b.isDrawn = a.isDrawn
                   /\ c \in gone => ~b.live
      OBVIOUS
  <2> DEFINE a == ac.actor[c]
             b == new.actor[c]
  <2>2. /\ a \in AnActor
        /\ b = IF c \in gone THEN Destroyed(Actor_Kill(a)) ELSE a
      BY <1>3, <1>8, <1>10, <2>1 DEF ActorsWhole
  <2> HIDE DEF a, b
  <2>3. /\ b = a \/ c \in gone
        /\ b.init = a.init /\ b.used = a.used /\ b.object = a.object /\ b.isDrawn = a.isDrawn
        /\ c \in gone => ~b.live
      BY <2>2 DEF Destroyed, Actor_Kill, AnActor
  <2> QED
      BY <2>3 DEF a, b
<1>12. at \in DOMAIN w.actor /\ at \notin gone /\ at \in DOMAIN new.actor /\ at \in Planes(w)
  <2>1. at \in DOMAIN ac.actor /\ at \notin gone
      BY <1>1, <1>2, <1>3, <1>6
  <2>2. at \in DOMAIN w.actor /\ w.actor[at] = ac.actor[at] /\ ac.actor[at].plane # 0
      BY <1>3, <1>10, <2>1 DEF Planes
  <2> QED
      BY <1>8, <2>1, <2>2 DEF Planes
<1>13. /\ ToCome' \subseteq ToCome \ {at} /\ ToCome' \subseteq DOMAIN w.actor
       /\ pc' \in {"update", "draw"} /\ (pc' = "draw" => ToCome' = {})
       /\ pc' = "update" => at' \in DOMAIN new.actor
  <2>1. /\ ToCome' = Rest(new, at) \ {at}
        /\ pc' \in {"update", "draw"} /\ (pc' = "draw" => ToCome' = {})
        /\ pc' = "update" => at' \in DOMAIN new.actor
      BY <1>2, <1>8, <1>12, ToComeStays DEF new
  <2>2. Order(ac) = Order(actorCtx)
      BY <1>1 DEF Altered
  <2>3. Elements(Order(w)) = DOMAIN w.actor
      BY <1>10, OrderWhole
  <2>4. ASSUME NEW d \in Rest(new, at), d # at
        PROVE  d \in Rest(actorCtx, at) /\ d \in DOMAIN w.actor
    <3>1. Before(Order(w), at, d)
        BY <1>8, <1>12, <2>4 DEF Rest
    <3>2. d \in DOMAIN w.actor /\ Before(Order(actorCtx), at, d)
        BY <1>10, <2>2, <2>3, <3>1 DEF Before, Elements
    <3>3. d \in DOMAIN actorCtx.actor
        BY <1>3, <1>10, <3>2
    <3> QED
        BY <3>2, <3>3 DEF Rest
  <2> QED
      BY <1>2, <2>1, <2>4
<1>14. player \in Int /\ \A q : (InZone(q)' <=> InZone(q)) /\ Place(q)' = Place(q)
    BY DEF GameInv, PlayerWhole, InZone, Place
<1>15. \A q \in Plane : Place(q) # 0 /\ Place(q) # 5 /\ (InZone(q) => q = p)
    BY <1>14, OneZone
<1>16. (ActorsWhole(actorCtx) /\ PlanesWhole(actorCtx))'
    BY <1>8 DEF new
<1>17. PlayerWhole'
  <2>1. Possible(p)'
      BY DEF Settled, Possible
  <2>2. player' \in 0 .. 5 * Cardinality(Plane)
      BY DEF GameInv, PlayerWhole
  <2> QED
      BY <1>13, <1>14, <1>15, <2>1, <2>2 DEF PlayerWhole
<1>18. LoadingWhole'
  <2>1. ASSUME NEW c \in Planes(new), new.actor[c].live PROVE new.actor[c].loading = FALSE
    <3>1. CASE c \in DOMAIN w.actor
      <4>1. new.actor[c] = ac.actor[c] /\ c \in DOMAIN actorCtx.actor /\ c \in Planes(actorCtx)
          BY <1>3, <1>10, <1>11, <2>1, <3>1 DEF Planes
      <4>2. CASE c = at
          BY <1>1, <1>3, <4>1, <4>2
      <4>3. CASE c # at
        <5>1. /\ new.actor[c] = actorCtx.actor[c] /\ actorCtx.actor[c].live
              /\ actorCtx.actor[c].plane \in Plane
            BY <1>2, <1>3, <2>1, <4>1, <4>3 DEF Planes, ActorsWhole, AnActor
        <5>2. actorCtx.actor[c].plane # p
            BY <1>2, <4>1, <4>3, <5>1 DEF PlanesWhole
        <5>3. ~InZone(actorCtx.actor[c].plane)
            BY <1>15, <5>1, <5>2
        <5> QED
            BY <4>1, <5>1, <5>3 DEF GameInv, LoadingWhole
      <4> QED
          BY <4>2, <4>3
    <3>2. CASE c \notin DOMAIN w.actor
      <4>1. NewPlane(new.actor[c], roomCtx') /\ new.actor[c] \in AnActor
          BY <1>8, <2>1, <3>2 DEF Planes, ActorsWhole
      <4> QED
          BY <4>1 DEF NewPlane, AnActor
    <3> QED
        BY <3>1, <3>2
  <2> QED
      BY <2>1 DEF LoadingWhole, new
<1>19. EnteredWhole'
    BY <1>9 DEF EnteredWhole, Adjoins, new
<1>20. AskedWhole'
    BY <1>13 DEF AskedWhole
<1>21. PassWhole'
  <2>1. ToCome' \cap w.freed = {}
      BY <1>2, <1>3, <1>10, <1>13
  <2> QED
      BY <1>2, <1>8, <1>13, <2>1 DEF PassWhole, new
<1>22. InitsWhole'
  <2>1. InitsWhole
      BY DEF GameInv
  <2>2. ASSUME NEW c \in DOMAIN w.actor
        PROVE  LET a == new.actor[c]
               IN  IF a.init
                   THEN /\ ~a.isDrawn
                        /\ a.objBankIndex \in DOMAIN bank /\ bank[a.objBankIndex].object = a.object
                        /\ Waiting(a.room) /\ a.room = roomCtx'.cur.num
                   ELSE a.used = a.object /\ (a.live => Object_IsLoaded(bank, a.objBankIndex))
    <3>1. /\ c \in DOMAIN actorCtx.actor
          /\ new.actor[c] = ac.actor[c] \/ c \in gone
          /\ new.actor[c].init = ac.actor[c].init /\ new.actor[c].used = ac.actor[c].used
          /\ new.actor[c].object = ac.actor[c].object /\ new.actor[c].isDrawn = ac.actor[c].isDrawn
          /\ c \in gone => ~new.actor[c].live
          /\ c \in gone => ac.actor[c].isDrawn
          /\ c \notin gone => ac.actor[c].room = roomCtx'.cur.num
        BY <1>3, <1>6, <1>10, <1>11, <2>2
    <3>2. CASE c = at
      <4>1. /\ ~actorCtx.actor[at].init /\ actorCtx.actor[at].used = actorCtx.actor[at].object
            /\ actorCtx.actor[at].live => Object_IsLoaded(bank, actorCtx.actor[at].objBankIndex)
          BY <1>2, <2>1 DEF InitsWhole
      <4>2. new.actor[c] = x
          BY <1>3, <1>12, <3>1, <3>2
      <4>3. ~x.init /\ x.used = x.object /\ (x.live => Object_IsLoaded(bank, x.objBankIndex))
          BY <1>1, <4>1 DEF Alike
      <4> QED
          BY <4>2, <4>3
    <3>3. CASE c # at /\ actorCtx.actor[c].init
      <4>1. ac.actor[c] = actorCtx.actor[c] /\ Waiting(actorCtx.actor[c].room)
          BY <1>2, <1>3, <3>1, <3>3
      <4>2. /\ ~actorCtx.actor[c].isDrawn
            /\ actorCtx.actor[c].objBankIndex \in DOMAIN bank
            /\ bank[actorCtx.actor[c].objBankIndex].object = actorCtx.actor[c].object
          BY <2>1, <3>1, <3>3 DEF InitsWhole
      <4>3. c \notin gone /\ new.actor[c] = actorCtx.actor[c] /\ actorCtx.actor[c].room = roomCtx'.cur.num
          BY <3>1, <4>1, <4>2
      <4> QED
          BY <3>3, <4>1, <4>2, <4>3
    <3>4. CASE c # at /\ ~actorCtx.actor[c].init
      <4>1. ac.actor[c] = actorCtx.actor[c]
          BY <1>3, <3>1, <3>4
      <4>2. /\ actorCtx.actor[c].used = actorCtx.actor[c].object
            /\ actorCtx.actor[c].live => Object_IsLoaded(bank, actorCtx.actor[c].objBankIndex)
          BY <2>1, <3>1, <3>4 DEF InitsWhole
      <4> QED
          BY <3>1, <3>4, <4>1, <4>2
    <3> QED
        BY <3>2, <3>3, <3>4
  <2>3. ASSUME NEW c \in DOMAIN new.actor, c \notin DOMAIN w.actor
        PROVE  /\ ~new.actor[c].init /\ new.actor[c].used = new.actor[c].object
               /\ Object_IsLoaded(bank, new.actor[c].objBankIndex)
      BY <1>8, <2>3 DEF NewPlane, Object_IsLoaded
  <2>4. \A c \in DOMAIN new.actor :
            LET a == new.actor[c]
            IN  IF a.init
                THEN /\ ~a.isDrawn
                     /\ a.objBankIndex \in DOMAIN bank /\ bank[a.objBankIndex].object = a.object
                     /\ Waiting(a.room) /\ a.room = roomCtx'.cur.num
                ELSE a.used = a.object /\ (a.live => Object_IsLoaded(bank, a.objBankIndex))
      BY <2>2, <2>3
  <2> QED
      BY <1>2, <2>4 DEF InitsWhole, new
<1>23. ListWhole'
  <2>1. ListWhole
      BY DEF GameInv
  <2>2. ASSUME NEW c \in list.actors
        PROVE  c \in DOMAIN new.actor /\ new.actor[c].isDrawn /\ c \notin new.freed
    <3>1. c \in DOMAIN actorCtx.actor /\ actorCtx.actor[c].isDrawn /\ c \notin actorCtx.freed
        BY <2>1, <2>2 DEF ListWhole
    <3>2. c \in DOMAIN ac.actor /\ ac.actor[c].isDrawn /\ c \notin ac.freed
        BY <1>1, <1>3, <3>1
    <3>3. c \in DOMAIN w.actor /\ c \notin w.freed
        BY <1>10, <3>2
    <3> QED
        BY <1>8, <1>11, <3>2, <3>3
  <2> QED
      BY <1>13, <2>1, <2>2 DEF ListWhole, new
<1>24. at \notin actorCtx'.freed
  <2>1. at \notin actorCtx.freed
      BY <1>2 DEF Rest
  <2> QED
      BY <1>3, <1>8, <1>10, <1>12, <2>1 DEF new
<1>25. GameInv'
    BY <1>16, <1>17, <1>18, <1>19, <1>20, <1>21, <1>22, <1>23 DEF GameInv
<1> QED
    BY <1>24, <1>25

(* What the planes do depends on the one the player is at.                  *)
Quiet(p) ==
    /\ p \in Stepped /\ InOuter(p) => roomCtx.cur.num = Own(p)
    /\ p \notin Stepped /\ InInner(p) => roomCtx.prev.num # NoRoom

Waits(p, r) ==
    IF p \in Stepped THEN roomCtx.cur.num = Own(p) ELSE Both(Other(p), Own(p)) /\ r = Other(p)

LEMMA AsksHere ==
    ASSUME player \in Int, NEW p \in Plane, InZone(p)
    PROVE  /\ NoneAsks <=> Quiet(p)
           /\ \A r : Waiting(r) <=> Waits(p, r)
<1>1. \A q \in Plane : InZone(q) => q = p
    BY Zones
<1>2. \A q \in Plane : InZone(q) <=> InOuter(q) \/ InInner(q)
    BY Zones
<1>3. NoneAsks <=> Quiet(p)
    BY <1>1, <1>2 DEF NoneAsks, Quiet
<1>4. \A r : Waiting(r) <=> Waits(p, r)
    BY <1>1 DEF Waiting, Waits
<1> QED
    BY <1>3, <1>4

LEMMA AsksThere ==
    ASSUME player \in Int, player' = player, NEW p \in Plane, InZone(p)
    PROVE  /\ NoneAsks' <=> Quiet(p)'
           /\ \A r : Waiting(r)' <=> Waits(p, r)'
<1>1. \A q \in Plane : InZone(q) => q = p
    BY Zones
<1>2. \A q \in Plane : InZone(q) <=> InOuter(q) \/ InInner(q)
    BY Zones
<1>3. \A q \in Plane : /\ InZone(q)' <=> InZone(q)
                       /\ InOuter(q)' <=> InOuter(q)
                       /\ InInner(q)' <=> InInner(q)
    BY DEF InZone, InOuter, InInner, Place
<1>4. NoneAsks' <=> Quiet(p)'
    BY <1>1, <1>2, <1>3 DEF NoneAsks, Quiet
<1>5. \A r : Waiting(r)' <=> Waits(p, r)'
    BY <1>1, <1>3 DEF Waiting, Waits
<1> QED
    BY <1>4, <1>5

LEMMA SamePlace ==
    ASSUME player' = player, NEW p \in Plane
    PROVE  /\ InZone(p)' <=> InZone(p)
           /\ InOuter(p)' <=> InOuter(p)
           /\ InInner(p)' <=> InInner(p)
           /\ Own(p)' = Own(p) /\ Other(p)' = Other(p)
BY DEF InZone, InOuter, InInner, Place, Own, Other, Side

(* Rooms that are swapped or left, while none is on its way.                *)
LEMMA RoomsTurned ==
    ASSUME RoomsWhole, RequestsWhole, UNCHANGED <<bank, buffer, arrived, dma>>,
           roomCtx.status = 0, roomCtx.prev.num # NoRoom,
           NEW rc, roomCtx' = rc, Fields(rc), rc.status = 0,
           \/ rc.cur = roomCtx.cur /\ rc.unk_30 = roomCtx.unk_30
              /\ rc.prev \in {roomCtx.prev, NoRoomLoaded}
           \/ rc.cur = roomCtx.prev /\ rc.unk_30 = 1 - roomCtx.unk_30
              /\ rc.prev \in {roomCtx.cur, NoRoomLoaded}
    PROVE  RoomsWhole' /\ RequestsWhole'
<1> DEFINE free == roomCtx.unk_30
<1>1. /\ roomCtx.cur \in ARoom /\ roomCtx.prev \in ARoom /\ roomCtx.cur.num # NoRoom
      /\ free \in {0, 1}
      /\ roomCtx.cur.segment \in {NULL, 1 - free} /\ roomCtx.prev.segment \in {NULL, free}
      /\ DOMAIN buffer = {0, 1}
      /\ roomCtx.cur.segment # NULL => buffer[roomCtx.cur.segment] = roomCtx.cur.num
      /\ roomCtx.prev.segment # NULL => buffer[roomCtx.prev.segment] = roomCtx.prev.num
      /\ arrived \in BOOLEAN
    BY DEF RoomsWhole
<1>2. /\ NoRoomLoaded \in ARoom /\ NoRoomLoaded.num = NoRoom /\ NoRoomLoaded.segment = NULL
    BY DEF NoRoomLoaded, ARoom
<1>3. /\ rc.cur \in ARoom /\ rc.prev \in ARoom /\ rc.cur.num # NoRoom
      /\ rc.unk_30 \in {0, 1} /\ rc.status \in {0, 1}
      /\ rc.prev.num = NoRoom => rc.prev.segment = NULL
    BY <1>1, <1>2
<1>4. 1 - (1 - free) = free
    BY <1>1
<1>5. /\ rc.cur.segment \in {NULL, 1 - rc.unk_30} /\ rc.prev.segment \in {NULL, rc.unk_30}
      /\ rc.cur.segment # NULL => buffer[rc.cur.segment] = rc.cur.num
      /\ rc.prev.segment # NULL => buffer[rc.prev.segment] = rc.prev.num
    BY <1>1, <1>2, <1>4
<1>6. rc = [cur |-> rc.cur, prev |-> rc.prev, status |-> rc.status,
            unk_30 |-> rc.unk_30, unk_34 |-> rc.unk_34]
    BY DEF Fields
<1> HIDE DEF free
<1>7. RoomsWhole'
    BY <1>1, <1>3, <1>5, <1>6 DEF RoomsWhole
<1>8. RequestsWhole'
  <2>1. \A k \in DOMAIN dma : dma[k].what # "room"
      BY DEF RequestsWhole
  <2> QED
      BY <2>1 DEF RequestsWhole
<1> QED
    BY <1>7, <1>8

(* What the invariant says of a live plane.                                 *)
LEMMA PlaneFacts ==
    ASSUME GameInv, at \in Planes(actorCtx), actorCtx.actor[at].live,
           NEW p \in Plane, p = actorCtx.actor[at].plane
    PROVE  /\ ActorsWhole(actorCtx) /\ at \in DOMAIN actorCtx.actor /\ player \in Int
           /\ RoomsWhole /\ RequestsWhole /\ Fields(roomCtx)
           /\ roomCtx.status \in {0, 1} /\ roomCtx.cur.num # NoRoom /\ roomCtx.cur.num \in Room
           /\ InZone(p) => Possible(p)
           /\ InZone(p) <=> InOuter(p) \/ InInner(p)
           /\ ~(InOuter(p) /\ InInner(p))
           /\ Own(p) \in Room /\ Other(p) \in Room /\ Own(p) # Other(p)
           /\ Own(p) # NoRoom /\ Other(p) # NoRoom
           /\ actorCtx.actor[at].loading \in BOOLEAN /\ actorCtx.actor[at].room \in Room
           /\ actorCtx.actor[at].loading = (p \in Stepped /\ InZone(p) /\ roomCtx.prev.num # NoRoom)
           /\ actorCtx.actor[at].loading => actorCtx.actor[at].room = roomCtx.cur.num
<1>1. ActorsWhole(actorCtx) /\ RoomsWhole /\ RequestsWhole /\ PlayerWhole /\ LoadingWhole
    BY DEF GameInv
<1>2. at \in DOMAIN actorCtx.actor /\ actorCtx.actor[at] \in AnActor
    BY <1>1 DEF Planes, ActorsWhole
<1>3. player \in Int /\ (InZone(p) => Possible(p))
    BY <1>1 DEF PlayerWhole
<1>4. /\ Fields(roomCtx) /\ roomCtx.status \in {0, 1} /\ roomCtx.cur.num # NoRoom
      /\ roomCtx.cur.num \in Room
    BY <1>1 DEF RoomsWhole, Fields, ARoom
<1>5. /\ actorCtx.actor[at].loading = (p \in Stepped /\ InZone(p) /\ roomCtx.prev.num # NoRoom)
      /\ actorCtx.actor[at].loading => actorCtx.actor[at].room = roomCtx.cur.num
    BY <1>1 DEF LoadingWhole
<1>6. actorCtx.actor[at].loading \in BOOLEAN /\ actorCtx.actor[at].room \in Room
    BY <1>2 DEF AnActor
<1> QED
    BY <1>1, <1>2, <1>3, <1>4, <1>5, <1>6, Zones, SidesAre

LEMMA SameActor ==
    ASSUME ActorsWhole(actorCtx), at \in DOMAIN actorCtx.actor, actorCtx' = actorCtx
    PROVE  Turns(actorCtx', actorCtx.actor[at].room, actorCtx.actor[at].loading)
<1> DEFINE a == actorCtx.actor[at]
<1>1. a \in AnActor
    BY DEF ActorsWhole
<1>2. Altered(actorCtx, actorCtx', at, a)
    BY DEF Altered
<1>3. Alike(a, actorCtx.actor[at])
    BY DEF Alike
<1>4. a.isDrawn = actorCtx.actor[at].isDrawn
    OBVIOUS
<1> QED
    BY <1>1, <1>2, <1>3, <1>4 DEF Turns

(* A plane that leaves the rooms alone.                                     *)
LEMMA RestingStep ==
    ASSUME GameInv, pc = "update", GoesOn, UNCHANGED <<nbSetupActors, player, list>>, UNCHANGED loadVars,
           at \in Planes(actorCtx), actorCtx.actor[at].live,
           NEW p \in Plane, p = actorCtx.actor[at].plane,
           NEW r, Turns(actorCtx', r, actorCtx.actor[at].loading),
           actorCtx.actor[at].loading => r = actorCtx.actor[at].room,
           InZone(p) => Settled(p)
    PROVE  GameInv' /\ at \notin actorCtx'.freed
<1>1. PICK x \in AnActor : /\ Altered(actorCtx, actorCtx', at, x) /\ Alike(x, actorCtx.actor[at])
                           /\ x.isDrawn = actorCtx.actor[at].isDrawn
                           /\ x.room = r /\ x.loading = actorCtx.actor[at].loading
    BY DEF Turns
<1>2. UNCHANGED <<bank, roomCtx, buffer, arrived, dma, nbSetupActors, player, list>>
    BY DEF loadVars
<1>3. x.loading => x.room = actorCtx.actor[at].room
    BY <1>1
<1> QED
    BY <1>1, <1>2, <1>3, PlaneRests

(* A horizontal plane gives up the room left behind, in the middle of its   *)
(* zones already that of the other side.                                    *)
LEMMA LeavesBehind ==
    ASSUME GameInv, pc = "update", GoesOn, UNCHANGED <<nbSetupActors, player, list>>,
           at \in Planes(actorCtx), actorCtx.actor[at].live,
           NEW p \in Plane, p = actorCtx.actor[at].plane, p \notin Stepped, HasRoom',
           InOuter(p), roomCtx.prev.num # NoRoom, roomCtx.status = 0,
           func_80097534(WithRoom(Own(p)), EnHoll_SwapRooms(roomCtx))
    PROVE  GameInv' /\ at \notin actorCtx'.freed
<1> DEFINE sw == EnHoll_SwapRooms(roomCtx)
           rc == Left(sw)
           ac == WithRoom(Own(p))
<1>1. /\ ActorsWhole(actorCtx) /\ at \in DOMAIN actorCtx.actor /\ player \in Int
      /\ RoomsWhole /\ RequestsWhole /\ Fields(roomCtx)
      /\ InZone(p) /\ Possible(p) /\ ~InInner(p)
      /\ Own(p) \in Room /\ Own(p) # Other(p)
      /\ actorCtx.actor[at].loading = FALSE
    BY PlaneFacts
<1>2. Both(Other(p), Own(p))
    BY <1>1 DEF Possible, Alone, Both
<1>3. /\ Fields(sw) /\ sw.cur = roomCtx.prev /\ sw.prev = roomCtx.cur /\ sw.status = roomCtx.status
      /\ sw.unk_30 = 1 - roomCtx.unk_30
    BY <1>1, SwapIs
<1>4. /\ roomCtx' = rc
      /\ actorCtx' = Actor_SpawnTransitionActors(func_80031B14(ac, roomCtx'), bank, roomCtx')
      /\ UNCHANGED <<bank, buffer, arrived, dma>>
    BY DEF func_80097534, Left
<1>5. Turns(ac, Own(p), FALSE)
    BY <1>1, TurnsTo
<1> HIDE DEF sw, ac
<1>6. /\ Fields(rc) /\ rc.cur = roomCtx.prev /\ rc.prev = NoRoomLoaded /\ rc.status = 0
      /\ rc.unk_30 = 1 - roomCtx.unk_30
    BY <1>3, LeftIs
<1> HIDE DEF rc
<1>7. RoomsWhole' /\ RequestsWhole'
    BY <1>1, <1>4, <1>6, RoomsTurned
<1>8. /\ roomCtx'.cur.num = Own(p) /\ roomCtx'.prev.num = NoRoom /\ roomCtx'.status = 0
    BY <1>2, <1>4, <1>6 DEF Both, NoRoomLoaded
<1>9. /\ InOuter(p)' /\ ~InInner(p)' /\ Own(p)' = Own(p)
    BY <1>1, SamePlace
<1>10. Settled(p)'
    BY <1>8, <1>9 DEF Settled, Alone, Both
<1>11. NoneAsks'
    BY <1>1, <1>9, AsksThere DEF Quiet
<1>12. \A q : Waiting(q) => Waiting(q)' \/ q # roomCtx'.cur.num
  <2>1. \A q : Waiting(q) => q = Other(p)
      BY <1>1, AsksHere DEF Waits
  <2> QED
      BY <1>1, <1>8, <2>1
<1>13. UNCHANGED <<bank, nbSetupActors, player, list>>
    BY <1>4
<1> QED
    BY <1>1, <1>4, <1>5, <1>7, <1>8, <1>10, <1>11, <1>12, <1>13, PlaneDrops

(* A plane one steps through gives up the room left behind.                 *)
LEMMA NextAction ==
    ASSUME GameInv, pc = "update", GoesOn, UNCHANGED <<nbSetupActors, player, list>>,
           at \in Planes(actorCtx), actorCtx.actor[at].live,
           NEW p \in Plane, p = actorCtx.actor[at].plane, HasRoom',
           actorCtx.actor[at].loading, roomCtx.status = 0,
           func_80097534([actorCtx EXCEPT !.actor[at].loading = FALSE], roomCtx)
    PROVE  GameInv' /\ at \notin actorCtx'.freed
<1> DEFINE rc == Left(roomCtx)
           ac == [actorCtx EXCEPT !.actor[at].loading = FALSE]
           r == actorCtx.actor[at].room
<1>1. /\ ActorsWhole(actorCtx) /\ at \in DOMAIN actorCtx.actor /\ player \in Int
      /\ RoomsWhole /\ RequestsWhole /\ Fields(roomCtx)
      /\ InZone(p) /\ Possible(p) /\ p \in Stepped /\ roomCtx.prev.num # NoRoom
      /\ Own(p) \in Room /\ Own(p) # Other(p)
      /\ r \in Room /\ r = roomCtx.cur.num
    BY PlaneFacts
<1>2. Both(Own(p), Other(p))
    BY <1>1 DEF Possible, Alone, Both
<1>4. /\ roomCtx' = rc
      /\ actorCtx' = Actor_SpawnTransitionActors(func_80031B14(ac, roomCtx'), bank, roomCtx')
      /\ UNCHANGED <<bank, buffer, arrived, dma>>
    BY DEF func_80097534, Left
<1>5. Turns(ac, r, FALSE)
    BY <1>1, TurnsTo
<1> HIDE DEF ac
<1>6. /\ Fields(rc) /\ rc.cur = roomCtx.cur /\ rc.prev = NoRoomLoaded /\ rc.status = 0
      /\ rc.unk_30 = roomCtx.unk_30
    BY <1>1, LeftIs
<1> HIDE DEF rc
<1>7. RoomsWhole' /\ RequestsWhole'
    BY <1>1, <1>4, <1>6, RoomsTurned
<1>8. /\ roomCtx'.cur.num = Own(p) /\ roomCtx'.prev.num = NoRoom /\ roomCtx'.status = 0
      /\ r = roomCtx'.cur.num
    BY <1>1, <1>2, <1>4, <1>6 DEF Both, NoRoomLoaded
<1>9. Own(p)' = Own(p)
    BY SamePlace
<1>10. Settled(p)'
    BY <1>1, <1>8, <1>9 DEF Settled, Alone, Both
<1>11. NoneAsks'
    BY <1>1, <1>8, <1>9, AsksThere DEF Quiet
<1>12. \A q : Waiting(q) => Waiting(q)' \/ q # roomCtx'.cur.num
  <2>1. \A q : Waiting(q)' <=> Waits(p, q)'
      BY <1>1, AsksThere
  <2> QED
      BY <1>1, <1>8, <1>9, <2>1 DEF Waits
<1>13. UNCHANGED <<bank, nbSetupActors, player, list>>
    BY <1>4
<1> HIDE DEF r
<1> QED
    BY <1>1, <1>4, <1>5, <1>7, <1>8, <1>10, <1>11, <1>12, <1>13, PlaneDrops

(* A horizontal plane asks for the room behind it.                          *)
LEMMA AsksBehind ==
    ASSUME GameInv, pc = "update", GoesOn, UNCHANGED <<nbSetupActors, player, list>>,
           at \in Planes(actorCtx), actorCtx.actor[at].live,
           NEW p \in Plane, p = actorCtx.actor[at].plane, p \notin Stepped,
           InInner(p), roomCtx.prev.num = NoRoom,
           func_8009728C(Other(p)), actorCtx' = WithRoom(Other(p))
    PROVE  GameInv' /\ at \notin actorCtx'.freed
<1>1. /\ ActorsWhole(actorCtx) /\ at \in DOMAIN actorCtx.actor /\ player \in Int
      /\ InZone(p) /\ Possible(p) /\ ~InOuter(p)
      /\ Other(p) \in Room /\ Own(p) # Other(p) /\ Own(p) # NoRoom
      /\ actorCtx.actor[at].loading = FALSE
    BY PlaneFacts
<1>2. roomCtx.status = 0 /\ roomCtx.cur.num = Own(p)
    BY <1>1 DEF Possible, Alone, Both
<1>3. Turns(actorCtx', Other(p), FALSE)
    BY <1>1, TurnsTo
<1>4. ~NoneAsks
    BY <1>1, AsksHere DEF Quiet
<1>5. \A q : ~Waiting(q)
    BY <1>1, <1>2, AsksHere DEF Waits, Both
<1>6. FALSE = (p \in Stepped)
    OBVIOUS
<1> QED
    BY <1>1, <1>2, <1>3, <1>4, <1>5, <1>6, AskingStep

(* A horizontal plane makes the room behind it the current one.             *)
LEMMA SwapsBehind ==
    ASSUME GameInv, pc = "update", GoesOn, UNCHANGED <<nbSetupActors, player, list>>,
           at \in Planes(actorCtx), actorCtx.actor[at].live,
           NEW p \in Plane, p = actorCtx.actor[at].plane, p \notin Stepped,
           InInner(p), roomCtx.prev.num # NoRoom,
           roomCtx' = IF roomCtx.cur.num # Other(p) THEN EnHoll_SwapRooms(roomCtx) ELSE roomCtx,
           actorCtx' = WithRoom(Other(p)), UNCHANGED <<bank, buffer, arrived, dma>>
    PROVE  GameInv' /\ at \notin actorCtx'.freed
<1>1. /\ ActorsWhole(actorCtx) /\ at \in DOMAIN actorCtx.actor /\ player \in Int
      /\ RoomsWhole /\ RequestsWhole /\ Fields(roomCtx)
      /\ InZone(p) /\ Possible(p) /\ ~InOuter(p)
      /\ Other(p) \in Room /\ Own(p) # Other(p) /\ roomCtx.cur.num # NoRoom
      /\ actorCtx.actor[at].loading = FALSE
    BY PlaneFacts
<1>2. Turns(actorCtx', Other(p), FALSE)
    BY <1>1, TurnsTo
<1>3. Both(Other(p), Own(p)) \/ (roomCtx.status = 0 /\ Both(Own(p), Other(p)))
    BY <1>1 DEF Possible, Alone, Both
<1>4. CASE Both(Other(p), Own(p))
  <2>1. UNCHANGED loadVars
      BY <1>4 DEF loadVars, Both
  <2>2. Settled(p)
      BY <1>4 DEF Settled
  <2>3. Turns(actorCtx', Other(p), actorCtx.actor[at].loading)
      BY <1>1, <1>2
  <2>4. actorCtx.actor[at].loading => Other(p) = actorCtx.actor[at].room
      BY <1>1
  <2> QED
      BY <2>1, <2>2, <2>3, <2>4, RestingStep
<1>5. CASE roomCtx.status = 0 /\ Both(Own(p), Other(p))
  <2> DEFINE rc == EnHoll_SwapRooms(roomCtx)
  <2>1. roomCtx' = rc
      BY <1>1, <1>5 DEF Both
  <2>2. /\ Fields(rc) /\ rc.cur = roomCtx.prev /\ rc.prev = roomCtx.cur /\ rc.status = 0
        /\ rc.unk_30 = 1 - roomCtx.unk_30
      BY <1>1, <1>5, SwapIs
  <2> HIDE DEF rc
  <2>3. RoomsWhole' /\ RequestsWhole'
      BY <1>1, <1>5, <2>1, <2>2, RoomsTurned
  <2>4. /\ roomCtx'.cur.num = Other(p) /\ roomCtx'.prev.num = Own(p) /\ roomCtx'.status = 0
        /\ roomCtx'.prev.num # NoRoom
        /\ roomCtx'.prev.num = roomCtx.cur.num /\ roomCtx'.cur.num = roomCtx.prev.num
      BY <1>1, <1>5, <2>1, <2>2 DEF Both
  <2>5. PICK x \in AnActor : /\ Altered(actorCtx, actorCtx', at, x) /\ Alike(x, actorCtx.actor[at])
                             /\ x.isDrawn = actorCtx.actor[at].isDrawn
                             /\ x.room = Other(p) /\ x.loading = FALSE
      BY <1>2 DEF Turns
  <2>6. EnteredWhole'
    <3>1. actorCtx'.entered = actorCtx.entered
        BY <2>5 DEF Altered
    <3>2. EnteredWhole
        BY DEF GameInv
    <3> QED
        BY <1>5, <2>4, <3>1, <3>2 DEF EnteredWhole
  <2>7. Settled(p)'
    <3>1. Own(p)' = Own(p) /\ Other(p)' = Other(p) /\ InInner(p)'
        BY SamePlace
    <3> QED
        BY <2>4, <3>1 DEF Settled, Both
  <2>8. \A q : ~Waiting(q)
      BY <1>1, <1>5, AsksHere DEF Waits, Both
  <2>9. NoneAsks'
    <3>1. ~InOuter(p)'
        BY <1>1, SamePlace
    <3> QED
        BY <1>1, <2>4, <3>1, AsksThere DEF Quiet
  <2>10. UNCHANGED <<bank, nbSetupActors, player, list>>
      OBVIOUS
  <2>11. x.loading = (p \in Stepped /\ InZone(p) /\ roomCtx'.prev.num # NoRoom) /\ ~x.loading
      BY <2>5
  <2>12. roomCtx' = roomCtx \/ (InZone(p) /\ \A q : ~Waiting(q))
      BY <1>1, <2>8
  <2>13. /\ roomCtx'.status = 1 => roomCtx'.unk_34 \notin list.rooms
         /\ roomCtx'.status = 0 /\ roomCtx'.unk_30 \in list.rooms /\ roomCtx'.prev.num = NoRoom => NoneAsks'
         /\ (\E i \in DOMAIN bank : bank[i].state = "asked") => NoneAsks'
      BY <2>4, <2>9
  <2> QED
      BY <2>3, <2>5, <2>6, <2>7, <2>10, <2>11, <2>12, <2>13, PlaneStays
<1> QED
    BY <1>3, <1>4, <1>5

LEMMA BehindStep ==
    ASSUME GameInv, pc = "update", GoesOn, UNCHANGED <<nbSetupActors, player, list>>,
           at \in Planes(actorCtx), actorCtx.actor[at].live,
           NEW p \in Plane, p = actorCtx.actor[at].plane, p \notin Stepped, HasRoom', func_80A58DD4(p)
    PROVE  GameInv' /\ at \notin actorCtx'.freed
<1>1. \/ /\ InOuter(p) /\ roomCtx.prev.num # NoRoom /\ roomCtx.status = 0
         /\ func_80097534(WithRoom(Own(p)), EnHoll_SwapRooms(roomCtx))
      \/ /\ InInner(p) /\ roomCtx.prev.num = NoRoom
         /\ func_8009728C(Other(p)) /\ actorCtx' = WithRoom(Other(p))
      \/ /\ InInner(p) /\ roomCtx.prev.num # NoRoom
         /\ roomCtx' = IF roomCtx.cur.num # Other(p) THEN EnHoll_SwapRooms(roomCtx) ELSE roomCtx
         /\ actorCtx' = WithRoom(Other(p)) /\ UNCHANGED <<bank, buffer, arrived, dma>>
      \/ /\ ~InInner(p) /\ ~(InOuter(p) /\ roomCtx.prev.num # NoRoom /\ roomCtx.status = 0)
         /\ UNCHANGED <<loadVars, actorCtx>>
    BY DEF func_80A58DD4, Own, Other
<1>2. CASE /\ InOuter(p) /\ roomCtx.prev.num # NoRoom /\ roomCtx.status = 0
           /\ func_80097534(WithRoom(Own(p)), EnHoll_SwapRooms(roomCtx))
    BY <1>2, LeavesBehind
<1>3. CASE /\ InInner(p) /\ roomCtx.prev.num = NoRoom
           /\ func_8009728C(Other(p)) /\ actorCtx' = WithRoom(Other(p))
    BY <1>3, AsksBehind
<1>4. CASE /\ InInner(p) /\ roomCtx.prev.num # NoRoom
           /\ roomCtx' = IF roomCtx.cur.num # Other(p) THEN EnHoll_SwapRooms(roomCtx) ELSE roomCtx
           /\ actorCtx' = WithRoom(Other(p)) /\ UNCHANGED <<bank, buffer, arrived, dma>>
    BY <1>4, SwapsBehind
<1>5. CASE /\ ~InInner(p) /\ ~(InOuter(p) /\ roomCtx.prev.num # NoRoom /\ roomCtx.status = 0)
           /\ UNCHANGED <<loadVars, actorCtx>>
  <2>1. /\ ActorsWhole(actorCtx) /\ at \in DOMAIN actorCtx.actor
        /\ InZone(p) => Possible(p) /\ InOuter(p)
        /\ Own(p) # NoRoom /\ roomCtx.status \in {0, 1}
      BY <1>5, PlaneFacts
  <2>2. InZone(p) => Settled(p)
    <3>1. ASSUME InZone(p) PROVE Settled(p)
      <4>1. Alone(Own(p)) \/ Both(Other(p), Own(p))
          BY <1>5, <2>1, <3>1 DEF Possible
      <4>2. Alone(Own(p)) \/ (roomCtx.status = 1 /\ Both(Other(p), Own(p)))
          BY <1>5, <2>1, <3>1, <4>1 DEF Both
      <4> QED
          BY <1>5, <4>2 DEF Settled
    <3> QED
        BY <3>1
  <2> DEFINE r == actorCtx.actor[at].room
  <2>3. Turns(actorCtx', r, actorCtx.actor[at].loading)
      BY <1>5, <2>1, SameActor
  <2>4. actorCtx.actor[at].loading => r = actorCtx.actor[at].room
      OBVIOUS
  <2>5. UNCHANGED loadVars
      BY <1>5
  <2> HIDE DEF r
  <2> QED
      BY <2>2, <2>3, <2>4, <2>5, RestingStep
<1> QED
    BY <1>1, <1>2, <1>3, <1>4, <1>5

(* The planes one steps through.                                            *)
LEMMA StepStep ==
    ASSUME GameInv, pc = "update", GoesOn, UNCHANGED <<nbSetupActors, player, list>>,
           at \in Planes(actorCtx), actorCtx.actor[at].live,
           NEW p \in Plane, p = actorCtx.actor[at].plane, p \in Stepped,
           ~actorCtx.actor[at].loading, func_80A59014(p)
    PROVE  GameInv' /\ at \notin actorCtx'.freed
<1>1. /\ ActorsWhole(actorCtx) /\ at \in DOMAIN actorCtx.actor /\ player \in Int
      /\ InZone(p) => Possible(p)
      /\ InZone(p) <=> InOuter(p) \/ InInner(p)
      /\ Own(p) \in Room /\ Own(p) # Other(p) /\ Other(p) # NoRoom
      /\ InZone(p) => roomCtx.prev.num = NoRoom
      /\ actorCtx.actor[at].loading = FALSE
    BY PlaneFacts
<1>2. InZone(p) => Alone(Own(p)) \/ Alone(Other(p))
    BY <1>1 DEF Possible, Both
<1>3. Turns(WithRoom(Own(p)), Own(p), FALSE) /\ Turns([WithRoom(Own(p)) EXCEPT !.actor[at].loading = TRUE], Own(p), TRUE)
    BY <1>1, TurnsTo
<1> DEFINE asks == InOuter(p) /\ Own(p) # roomCtx.cur.num /\ roomCtx.status = 0
<1>4. \/ /\ asks /\ func_8009728C(Own(p))
         /\ actorCtx' = [WithRoom(Own(p)) EXCEPT !.actor[at].loading = TRUE]
      \/ /\ ~asks /\ UNCHANGED loadVars
         /\ actorCtx' = IF InOuter(p) THEN WithRoom(Own(p)) ELSE actorCtx
    BY DEF func_80A59014, Own, func_8009728C_Free
<1>5. CASE /\ asks /\ func_8009728C(Own(p))
           /\ actorCtx' = [WithRoom(Own(p)) EXCEPT !.actor[at].loading = TRUE]
  <2>1. Turns(actorCtx', Own(p), TRUE)
      BY <1>3, <1>5
  <2>2. InZone(p) /\ roomCtx.status = 0 /\ roomCtx.prev.num = NoRoom /\ roomCtx.cur.num = Other(p)
      BY <1>1, <1>2, <1>5 DEF Alone, Both
  <2>3. ~NoneAsks
      BY <1>1, <1>5, <2>2, AsksHere DEF Quiet
  <2>4. \A q : ~Waiting(q)
      BY <1>1, <2>2, AsksHere DEF Waits
  <2>5. TRUE = (p \in Stepped)
      OBVIOUS
  <2>6. Own(p) \in Room /\ func_8009728C(Own(p))
      BY <1>1, <1>5
  <2> QED
      BY <2>1, <2>2, <2>3, <2>4, <2>5, <2>6, AskingStep
<1>6. CASE /\ ~asks /\ UNCHANGED loadVars
           /\ actorCtx' = IF InOuter(p) THEN WithRoom(Own(p)) ELSE actorCtx
  <2>1. InZone(p) => Settled(p)
      BY <1>1, <1>2, <1>6 DEF Settled, Alone, Both
  <2>2. PICK r : Turns(actorCtx', r, FALSE)
    <3>1. CASE InOuter(p)
        BY <1>3, <1>6, <3>1
    <3>2. CASE ~InOuter(p)
      <4>1. actorCtx' = actorCtx
          BY <1>6, <3>2
      <4> QED
          BY <1>1, <4>1, SameActor
    <3> QED
        BY <3>1, <3>2
  <2>3. /\ Turns(actorCtx', r, actorCtx.actor[at].loading)
        /\ actorCtx.actor[at].loading => r = actorCtx.actor[at].room
      BY <1>1, <2>2
  <2> QED
      BY <1>6, <2>1, <2>3, RestingStep
<1> QED
    BY <1>4, <1>5, <1>6

(* While the room left behind cannot be given up yet.                       *)
LEMMA NextActionWaits ==
    ASSUME GameInv, pc = "update", GoesOn, UNCHANGED <<nbSetupActors, player, list>>,
           at \in Planes(actorCtx), actorCtx.actor[at].live,
           NEW p \in Plane, p = actorCtx.actor[at].plane,
           actorCtx.actor[at].loading, roomCtx.status # 0, UNCHANGED <<loadVars, actorCtx>>
    PROVE  GameInv' /\ at \notin actorCtx'.freed
<1>1. /\ ActorsWhole(actorCtx) /\ at \in DOMAIN actorCtx.actor
      /\ InZone(p) /\ Possible(p) /\ p \in Stepped /\ roomCtx.status = 1
    BY PlaneFacts
<1>2. Settled(p)
    BY <1>1 DEF Possible, Settled, Alone
<1> DEFINE r == actorCtx.actor[at].room
<1>3. Turns(actorCtx', r, actorCtx.actor[at].loading)
    BY <1>1, SameActor
<1>4. actorCtx.actor[at].loading => r = actorCtx.actor[at].room
    OBVIOUS
<1>5. UNCHANGED loadVars
    OBVIOUS
<1> HIDE DEF r
<1> QED
    BY <1>2, <1>3, <1>4, <1>5, RestingStep

LEMMA PlaneStep ==
    ASSUME GameInv, UpdateActor, HasRoom', at \in Planes(actorCtx), actorCtx.actor[at].live
    PROVE  GameInv' /\ at \notin actorCtx'.freed
<1> DEFINE p == actorCtx.actor[at].plane
<1>1. /\ pc = "update" /\ GoesOn
      /\ UNCHANGED <<nbSetupActors, player, list>>
    BY DEF UpdateActor, At, GoesOn
<1>2. /\ p \in Plane /\ p # 0 /\ actorCtx.actor[at].objBankIndex = 0 /\ ~actorCtx.actor[at].init
    BY DEF GameInv, PlanesWhole, ActorsWhole, AnActor, Planes
<1>3. EnHoll_Update(p)
    BY <1>2 DEF UpdateActor, Object_IsLoaded
<1>4. \/ p \notin Stepped /\ func_80A58DD4(p)
      \/ p \in Stepped /\ actorCtx.actor[at].loading /\ EnHoll_NextAction
      \/ p \in Stepped /\ ~actorCtx.actor[at].loading /\ func_80A59014(p)
    BY <1>3 DEF EnHoll_Update
<1>5. EnHoll_NextAction =>
          \/ /\ roomCtx.status = 0
             /\ func_80097534([actorCtx EXCEPT !.actor[at].loading = FALSE], roomCtx)
          \/ roomCtx.status # 0 /\ UNCHANGED <<loadVars, actorCtx>>
    BY DEF EnHoll_NextAction
<1>6. p = actorCtx.actor[at].plane
    OBVIOUS
<1> HIDE DEF p
<1>7. CASE p \notin Stepped /\ func_80A58DD4(p)
    BY <1>1, <1>2, <1>6, <1>7, BehindStep
<1>8. CASE p \in Stepped /\ ~actorCtx.actor[at].loading /\ func_80A59014(p)
    BY <1>1, <1>2, <1>6, <1>8, StepStep
<1>9. CASE /\ actorCtx.actor[at].loading /\ roomCtx.status = 0
           /\ func_80097534([actorCtx EXCEPT !.actor[at].loading = FALSE], roomCtx)
    BY <1>1, <1>2, <1>6, <1>9, NextAction
<1>10. CASE actorCtx.actor[at].loading /\ roomCtx.status # 0 /\ UNCHANGED <<loadVars, actorCtx>>
    BY <1>1, <1>2, <1>6, <1>10, NextActionWaits
<1> QED
    BY <1>4, <1>5, <1>7, <1>8, <1>9, <1>10
-----------------------------------------------------------------------------
(* The theorems.                                                            *)

LEMMA RoundStays ==
    ASSUME [Next]_vars, round
    PROVE  round'
BY DEF Next, vars, StartFrame, HandleRoom, StartActors, UpdateActor, Draw, DrawPicture, RcpDone, Answer

LEMMA NextStep ==
    ASSUME GameInv, [Next]_vars, HasRoom', ~MayOutrun, ~round, ~round'
    PROVE  GameInv'
<1>1. CASE StartFrame
    BY <1>1, StartStep
<1>2. CASE HandleRoom
    BY <1>2, HandleStep
<1>3. CASE StartActors
    BY <1>3, StartActorsStep
<1>4. CASE UpdateActor
    BY <1>4, ActorStep, PlaneStep
<1>5. CASE Draw
    BY <1>5, DrawStep
<1>6. CASE DrawPicture
    BY <1>6, PictureStep
<1>7. CASE RcpDone
    BY <1>7, RcpStep
<1>8. CASE Answer
    BY <1>8, AnswerStep
<1>9. CASE UNCHANGED vars
    BY <1>9, StutterStep
<1> QED
    BY <1>1, <1>2, <1>3, <1>4, <1>5, <1>6, <1>7, <1>8, <1>9 DEF Next

(* Until the player gets round a plane, each state of the game is whole:    *)
(* while the planes ask for rooms, swap them and give them up              *)
(* (z_en_holl.c), while actors wait for their objects, are killed and      *)
(* deleted (z_actor.c), and while the RCP reads what the last display list *)
(* names.                                                                  *)
THEOREM GameInvariant ==
    ASSUME ~MayOutrun
    PROVE  Spec /\ []HasRoom => [](round \/ GameInv)
<1>1. Init /\ HasRoom => round \/ GameInv
    BY InitStep
<1>2. (round \/ GameInv) /\ [Next]_vars /\ HasRoom' => (round \/ GameInv)'
    BY RoundStays, NextStep
<1> QED
    BY <1>1, <1>2, PTL DEF Spec

(* Until then, no room or object is loaded over one the RCP draws, and no   *)
(* actor is freed that it draws (func_80031B14, Actor_UpdateAll: isDrawn). *)
THEOREM GameReadsWhole ==
    ASSUME ~MayOutrun
    PROVE  Spec /\ []HasRoom => [](round \/ RcpReadsWhole)
<1>1. round \/ GameInv => round \/ RcpReadsWhole
    BY ReadsWhole
<1> QED
    BY <1>1, GameInvariant, PTL

(* Until then, each room with data has a buffer of its own, with that room  *)
(* in it: the plane's swap of the rooms, in whatever state they are, keeps *)
(* unk_30 apart from the room in use.                                      *)
THEOREM GameRoomMatches ==
    ASSUME ~MayOutrun
    PROVE  Spec /\ []HasRoom => [](round \/ RoomMatches)
<1>1. round \/ GameInv => round \/ RoomMatches
    BY Matches
<1> QED
    BY <1>1, GameInvariant, PTL

(* Until then, a plane's entry of transitionActorList is negative exactly   *)
(* while one actor stands for it, and in the room the player is in none is *)
(* missing.                                                                *)
THEOREM GamePlanesKept ==
    ASSUME ~MayOutrun
    PROVE  Spec /\ []HasRoom => [](round \/ PlanesKept)
<1>1. round \/ GameInv => round \/ PlanesKept
    BY KeepsPlanes
<1> QED
    BY <1>1, GameInvariant, PTL

(* Until then, no answer of the DMA manager is taken for that of another    *)
(* request (Object_UpdateBank), and an actor's init works on its own       *)
(* object.                                                                 *)
THEOREM GameObjectsKept ==
    ASSUME ~MayOutrun
    PROVE  Spec /\ []HasRoom => [](round \/ ObjectsKept)
<1>1. round \/ GameInv => round \/ ObjectsKept
    BY KeepsObjects
<1> QED
    BY <1>1, GameInvariant, PTL

LEMMA OthersStay ==
    ASSUME GameInv, UpdateActor, actorCtx.actor[at].live, at \notin Planes(actorCtx)
    PROVE  at \notin actorCtx'.freed
<1> DEFINE a == actorCtx.actor[at]
<1>1. ActorsWhole(actorCtx) /\ at \in DOMAIN actorCtx.actor /\ at \notin actorCtx.freed
  <2>1. /\ pc = "update"
        /\ ActorsWhole(actorCtx) /\ at \in DOMAIN actorCtx.actor /\ ToCome \cap actorCtx.freed = {}
      BY DEF GameInv, PassWhole, UpdateActor
  <2>2. at # NULL
      BY <2>1, NullIsNone
  <2> QED
      BY <2>1, <2>2 DEF ToCome, Rest
<1>2. a.plane = 0
    BY <1>1 DEF Planes
<1>3. actorCtx' = actorCtx \/ \E x : actorCtx' = WithActor(actorCtx, at, x)
    BY <1>2 DEF UpdateActor, UpdateRoomActor, Become, WithActor
<1>4. \A x : WithActor(actorCtx, at, x).freed = actorCtx.freed
    BY <1>1 DEF WithActor, ActorsWhole
<1> QED
    BY <1>1, <1>3, <1>4

(* A plane that gives up rooms and deletes actors in the middle of its own  *)
(* update is not among them (func_80097534), until the player gets round a *)
(* plane.                                                                  *)
THEOREM GameNoSelfDelete ==
    ASSUME ~MayOutrun
    PROVE  Spec /\ []HasRoom => NoSelfDelete
<1>1. (round \/ GameInv) /\ HasRoom' /\ [Next]_vars
      => [UpdateActor /\ actorCtx.actor[at].live => round \/ at \notin actorCtx'.freed]_vars
  <2>1. ASSUME GameInv, HasRoom', UpdateActor, actorCtx.actor[at].live
        PROVE  at \notin actorCtx'.freed
    <3>1. CASE at \in Planes(actorCtx)
        BY <2>1, <3>1, PlaneStep
    <3>2. CASE at \notin Planes(actorCtx)
        BY <2>1, <3>2, OthersStay
    <3> QED
        BY <3>1, <3>2
  <2> QED
      BY <2>1
<1> QED
    BY <1>1, GameInvariant, PTL DEF Spec, NoSelfDelete
=============================================================================
