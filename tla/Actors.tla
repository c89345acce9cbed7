------------------------------- MODULE Actors -------------------------------
(***************************************************************************)
(* The actors of the game (src/src/code/z_actor.c): their lists, and how   *)
(* one is made, killed, destroyed and deleted.  Deleting frees the memory  *)
(* of an actor, which the RCP may still be reading to draw it: isDrawn     *)
(* tells that the actor is in the last display list.                       *)
(*                                                                         *)
(* ac stands for actorCtx and what the actor code keeps beside it: the     *)
(* records of the actors by the memory block they are in, their lists, and *)
(* the entries of transitionActorList.  Two types of actors are enough:    *)
(* those of a room, and the loading planes (EnHoll) between two rooms.     *)
(***************************************************************************)
EXTENDS Loading

CONSTANTS
    Block,          \* the places for an actor in the arena
    SetupActorList, \* for each room the objects its actors need, one actor each
    Plane,          \* the entries of transitionActorList: 1 .. n
    Sides           \* for each of them sides[0].room and sides[1].room

ASSUME ActorsAssumption ==
    /\ Block \subseteq Nat \ {0}
    /\ SetupActorList \in [Room -> Seq(Object)]
    /\ IsFiniteSet(Plane) /\ Plane # {} /\ Plane = 1 .. Cardinality(Plane)
    /\ Sides \in [Plane -> [{0, 1} -> Room]]
    /\ \A p \in Plane : Sides[p][0] # Sides[p][1]

VARIABLES
    actorCtx,       \* [actor, prop, door, entered, freed]
    nbSetupActors   \* the room's actors still to be spawned, as a sequence of objects

Order(ac) == ac.prop \o ac.door

(* actor->next, and at the end of a list the first actor of the next one; NULL at the last. *)
NextActor(ac, c) ==
    LET i == SelectInSeq(Order(ac), LAMBDA d : d = c)
    IN  IF i \in 1 .. Len(Order(ac)) - 1 THEN Order(ac)[i + 1] ELSE NULL

FirstActor(ac) == IF Order(ac) = <<>> THEN NULL ELSE Order(ac)[1]

(***************************************************************************)
(* Making an actor.                                                        *)
(***************************************************************************)
(* actor->init with the object in segment 6; of the work of init, which    *)
(* object it has used is kept.                                             *)
Inited(a, bk) == [a EXCEPT !.init = FALSE, !.used = ObjectAt(bk, a.objBankIndex)]

Actor_Init(a, bk) == IF Object_IsLoaded(bk, a.objBankIndex) THEN Inited(a, bk) ELSE a

NewActor(o, p, i, r) ==
    [object |-> o, plane |-> p, objBankIndex |-> i, room |-> r, init |-> TRUE, live |-> TRUE,
     destroy |-> TRUE, isDrawn |-> FALSE, used |-> Keep, loading |-> FALSE]

FreeBlocks(ac) == Block \ DOMAIN ac.actor

Actor_AddToTypeList(ac, c, a) ==
    [ac EXCEPT !.actor = [d \in DOMAIN @ \cup {c} |-> IF d = c THEN a ELSE @[d]],
               !.prop = IF a.plane = 0 THEN <<c>> \o @ ELSE @,
               !.door = IF a.plane = 0 THEN @ ELSE <<c>> \o @]

(* Spawns nothing without the object or without memory. *)
Actor_Spawn(ac, bk, rc, o, p) ==
    LET i == Object_GetIndex(bk, o)
        c == Min(FreeBlocks(ac))
    IN  IF i = NULL \/ FreeBlocks(ac) = {} THEN ac
        ELSE Actor_AddToTypeList(ac, c, Actor_Init(NewActor(o, p, i, rc.cur.num), bk))

(* The room's own actors. *)
SpawnSetupActors(ac, bk, rc, objects) ==
    FoldLeft(LAMBDA w, o : Actor_Spawn(w, bk, rc, o, 0), ac, objects)

(* The sign of an entry's id: negative while its actor exists. *)
Adjoins(p, rc) == \E s \in {0, 1} : Sides[p][s] \in {rc.cur.num, rc.prev.num}

Actor_SpawnTransitionActors(ac, bk, rc) ==
    FoldLeft(LAMBDA w, p : IF w.entered[p] \/ ~Adjoins(p, rc) THEN w
                           ELSE [Actor_Spawn(w, bk, rc, Keep, p) EXCEPT !.entered[p] = TRUE],
             ac, [p \in Plane |-> p])

(***************************************************************************)
(* Removing actors.                                                        *)
(***************************************************************************)
Actor_Kill(a) == [a EXCEPT !.live = FALSE]

(* Mutant: actor->destroy stays. *)
Destroyed_Again(a) == a

Destroyed(a) == [a EXCEPT !.destroy = FALSE]

(* EnHoll_Destroy turns the sign of its entry, once for each of the actors. *)
Turned(ac, cs) ==
    [p \in Plane |-> LET n == Cardinality({c \in cs : ac.actor[c].plane = p /\ ac.actor[c].destroy})
                     IN  ac.entered[p] # (n % 2 = 1)]

(* Actor_Destroy of the actors cs, each at most once. *)
Actor_Destroy(ac, cs) ==
    [ac EXCEPT !.entered = Turned(ac, cs),
               !.actor = [c \in DOMAIN @ |-> IF c \in cs THEN Destroyed(@[c]) ELSE @[c]]]

(* Actor_Delete of the actors cs: destroyed, out of their list, freed. *)
Actor_Delete(ac, cs) ==
    LET w == Actor_Destroy(ac, cs)
        stay == DOMAIN ac.actor \ cs
    IN  [w EXCEPT !.actor = [c \in stay |-> @[c]],
                  !.prop = Only(@, stay), !.door = Only(@, stay),
                  !.freed = @ \cup cs]

KillAll(ac, cs) ==
    [ac EXCEPT !.actor = [c \in DOMAIN @ |-> IF c \in cs THEN Actor_Kill(@[c]) ELSE @[c]]]

(* Kills the actors whose object is not loaded. *)
func_80031A28(ac, bk) ==
    KillAll(ac, {c \in DOMAIN ac.actor : ~Object_IsLoaded(bk, ac.actor[c].objBankIndex)})

(* Mutant: isDrawn is not looked at. *)
Deletable_Always(a) == TRUE

(* The actors of rooms that are neither curRoom nor prevRoom go: at once,  *)
(* or killed and destroyed now and deleted when they are no longer drawn.  *)
Deletable(a) == ~a.isDrawn

func_80031B14(ac, rc) ==
    LET gone == {c \in DOMAIN ac.actor : ac.actor[c].room \notin {rc.cur.num, rc.prev.num}}
        now == {c \in gone : Deletable(ac.actor[c])}
    IN  Actor_Delete(Actor_Destroy(KillAll(ac, gone \ now), gone \ now), now)
=============================================================================
