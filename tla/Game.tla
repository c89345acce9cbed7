-------------------------------- MODULE Game --------------------------------
(***************************************************************************)
(* A frame of the game in the graph thread (Gameplay_Main and Gameplay_Draw *)
(* in src/src/code/z_play.c): the objects and the room that have arrived,  *)
(* the actors one after the other, the display list.  Meanwhile the RCP    *)
(* executes the display list of the frame before, and the DMA manager      *)
(* carries out the transfers.  The loading planes                          *)
(* (src/src/overlays/actors/ovl_En_Holl/z_en_holl.c) ask for rooms as the  *)
(* player comes near them.                                                 *)
(***************************************************************************)
EXTENDS Actors

CONSTANTS
    Stepped,        \* the planes of the kind func_80A59014; the others are func_80A58DD4
    MayOutrun,      \* TRUE: the player may be faster than the DMA manager
    Spare           \* bound: the blocks that are free when a player who has got round a plane goes on

(* The way of the player: the room behind a plane is the one before the next. *)
ASSUME GameAssumption ==
    /\ Stepped \subseteq Plane /\ MayOutrun \in BOOLEAN /\ Spare \in Nat
    /\ \A p \in Plane : p + 1 \in Plane => Sides[p][1] = Sides[p + 1][0]

VARIABLES
    pc,             \* where the frame is
    at,             \* the actor Actor_UpdateAll has come to
    player,         \* where the player is on the way through the planes
    list,           \* what the display list reads that the RCP executes, or NoList
    round           \* history: the player has got round a plane

vars == <<loadVars, actorCtx, nbSetupActors, pc, at, player, list, round>>

NoList == [rooms |-> {}, objects |-> {}, actors |-> {}]

(***************************************************************************)
(* The way of the player leads through one plane after the other.  Each    *)
(* takes five places: the middle of the room before it, then the outer and *)
(* the inner zone on side 0 and the inner and the outer one on side 1.     *)
(***************************************************************************)
Place(p) == player - 5 * (p - 1)
Side(p) == IF Place(p) <= 2 THEN 0 ELSE 1
InOuter(p) == Place(p) \in {1, 4}
InInner(p) == Place(p) \in {2, 3}

OneSide(a, b) == {a % 5, b % 5} \in {{1, 2}, {3, 4}}

Busy == roomCtx.status = 1 \/ \E i \in DOMAIN bank : bank[i].state # "loaded"

(* Once the player has got round a plane, a room is asked for that is      *)
(* there already, and its actors are spawned once more.  This is cut off   *)
(* where the blocks run out.                                               *)
Roomy == Cardinality(FreeBlocks(actorCtx)) >= Spare

(* A frame is too short for more than a step.  Unless MayOutrun, a room and *)
(* its objects are loaded a frame before the player has crossed the plane   *)
(* or turned round and left its zones.  (The player's own actor is updated *)
(* before the planes; its step is taken at the start of the frame.)        *)
Steps ==
    {n \in {player - 1, player, player + 1} \cap 0 .. 5 * Cardinality(Plane) :
        n = player \/ ((round => Roomy) /\ (MayOutrun \/ ~Busy \/ OneSide(player, n)))}

(* The way round a plane, from the middle of one room to that of the next, *)
(* in none of its zones.                                                   *)
WaysRound ==
    {n \in {player - 5, player + 5} \cap 0 .. 5 * Cardinality(Plane) :
        player % 5 = 0 /\ Roomy /\ (MayOutrun \/ ~Busy)}

(***************************************************************************)
(* The start of a frame.  While the game is paused only Object_UpdateBank  *)
(* runs, and the picture of the frame before may be drawn instead.         *)
(***************************************************************************)
StartFrame ==
    /\ pc = "start"
    /\ Object_UpdateBank
    /\ \/ pc' = "room" /\ player' \in Steps /\ UNCHANGED round
       \/ pc' = "room" /\ player' \in WaysRound /\ round' = TRUE
       \/ pc' \in {"draw", "picture"} /\ UNCHANGED <<player, round>>
    /\ UNCHANGED <<roomCtx, buffer, arrived, actorCtx, nbSetupActors, at, list>>

(* A room that has arrived: its object list, its actors, its planes. *)
func_800973FC ==
    LET r == buffer[roomCtx.unk_34]
        rc == RoomArrived(roomCtx)
        bk == func_8009899C(bank, ObjectList[r])
        ac == IF Staying(bank, ObjectList[r]) < Len(bank) THEN func_80031A28(actorCtx, bk) ELSE actorCtx
    IN  /\ RoomArrives
        /\ arrived' = FALSE
        /\ roomCtx' = rc
        /\ bank' = bk
        /\ nbSetupActors' = SetupActorList[r]
        /\ actorCtx' = Actor_SpawnTransitionActors(ac, bk, rc)
        /\ UNCHANGED <<buffer, dma>>

HandleRoom ==
    /\ pc = "room"
    /\ \/ func_800973FC
       \/ ~RoomArrives /\ UNCHANGED <<loadVars, actorCtx, nbSetupActors>>
    /\ pc' = "actors"
    /\ UNCHANGED <<at, player, list, round>>

(***************************************************************************)
(* Actor_UpdateAll.                                                        *)
(***************************************************************************)
At(c) ==
    /\ at' = c
    /\ pc' = IF c = NULL THEN "draw" ELSE "update"

(* The room's own actors are spawned first.                                *)
StartActors ==
    LET ac == SpawnSetupActors(actorCtx, bank, roomCtx, nbSetupActors)
    IN  /\ pc = "actors"
        /\ actorCtx' = ac
        /\ nbSetupActors' = <<>>
        /\ At(FirstActor(ac))
        /\ UNCHANGED <<loadVars, player, list, round>>

Become(a) == actorCtx' = [actorCtx EXCEPT !.actor[at] = a]

(* func_80097534: prevRoom is given up.  The actor that calls it has the    *)
(* room r from now on.                                                     *)
func_80097534(ac, rc) ==
    LET left == [rc EXCEPT !.prev = NoRoomLoaded]
    IN  /\ roomCtx' = left
        /\ actorCtx' = Actor_SpawnTransitionActors(func_80031B14(ac, left), bank, left)
        /\ UNCHANGED <<bank, buffer, arrived, dma>>

(* Mutant: the plane keeps the room it was spawned in. *)
WithRoom_Not(r) == actorCtx

WithRoom(r) == [actorCtx EXCEPT !.actor[at].room = r]

(* A horizontal plane: on its way the player asks for the room behind it,  *)
(* and gives up the one left behind.                                       *)
func_80A58DD4(p) ==
    LET own == Sides[p][Side(p)]
        other == Sides[p][1 - Side(p)]
    IN  \/ /\ InOuter(p) /\ roomCtx.prev.num # NoRoom /\ roomCtx.status = 0
           /\ func_80097534(WithRoom(own), EnHoll_SwapRooms(roomCtx))
        \/ /\ InInner(p) /\ roomCtx.prev.num = NoRoom
           /\ func_8009728C(other)
           /\ actorCtx' = WithRoom(other)
        \/ /\ InInner(p) /\ roomCtx.prev.num # NoRoom
           /\ roomCtx' = IF roomCtx.cur.num # other THEN EnHoll_SwapRooms(roomCtx) ELSE roomCtx
           /\ actorCtx' = WithRoom(other)
           /\ UNCHANGED <<bank, buffer, arrived, dma>>
        \/ /\ ~InInner(p) /\ ~(InOuter(p) /\ roomCtx.prev.num # NoRoom /\ roomCtx.status = 0)
           /\ UNCHANGED <<loadVars, actorCtx>>

(* A plane one steps through: it asks for the room on the side the player  *)
(* comes out, and with it there gives up the other one (EnHoll_NextAction). *)
(* Left out: in a cutscene the place of the camera stands for the player's *)
(* (useViewEye), and in one of them the plane asks from everywhere and     *)
(* never goes on (EnHoll_IsKokiriSetup8).  Zones are entered from the      *)
(* plane's two sides only.                                                 *)
func_80A59014(p) ==
    LET own == Sides[p][Side(p)]
        asks == InOuter(p) /\ own # roomCtx.cur.num /\ func_8009728C_Free(roomCtx)
    IN  \/ /\ asks /\ func_8009728C(own)
           /\ actorCtx' = [WithRoom(own) EXCEPT !.actor[at].loading = TRUE]
        \/ /\ ~asks
           /\ actorCtx' = IF InOuter(p) THEN WithRoom(own) ELSE actorCtx
           /\ UNCHANGED loadVars

EnHoll_NextAction ==
    \/ /\ roomCtx.status = 0
       /\ func_80097534([actorCtx EXCEPT !.actor[at].loading = FALSE], roomCtx)
    \/ roomCtx.status # 0 /\ UNCHANGED <<loadVars, actorCtx>>

EnHoll_Update(p) ==
    IF p \notin Stepped THEN func_80A58DD4(p)
    ELSE IF actorCtx.actor[at].loading THEN EnHoll_NextAction ELSE func_80A59014(p)

(* An actor of a room: of its work on itself only its end is kept. *)
UpdateRoomActor ==
    /\ Become(Actor_Kill(actorCtx.actor[at]))
    /\ UNCHANGED loadVars

(* What Actor_UpdateAll does with an actor, and to which it goes on: from  *)
(* one it deletes to the next, from a plane that has deleted itself in its *)
(* update to NULL, which Actor_Delete has left in its next, and from its   *)
(* block when a new plane is in it to the actor behind that one.  (Behind  *)
(* the list of the planes is only that of the chests, not modelled.)  It   *)
(* leaves out those a message or a cutscene freezes; not the planes while  *)
(* the player moves.                                                       *)
UpdateActor ==
    LET a == actorCtx.actor[at]
        isLoaded == Object_IsLoaded(bank, a.objBankIndex)
    IN  /\ pc = "update"
        /\ \/ /\ a.init
              /\ Become(IF isLoaded THEN Inited(a, bank) ELSE a)
              /\ UNCHANGED loadVars
           \/ /\ ~a.init /\ ~isLoaded
              /\ Become(Actor_Kill(a))
              /\ UNCHANGED loadVars
           \/ /\ ~a.init /\ isLoaded /\ a.plane = 0
              /\ UNCHANGED <<actorCtx, loadVars>>
           \/ /\ ~a.init /\ isLoaded /\ ~a.live
              /\ actorCtx' = IF Deletable(a) THEN Actor_Delete(actorCtx, {at}) ELSE Actor_Destroy(actorCtx, {at})
              /\ UNCHANGED loadVars
           \/ /\ ~a.init /\ isLoaded /\ a.live
              /\ IF a.plane = 0 THEN UpdateRoomActor ELSE EnHoll_Update(a.plane)
        /\ At(IF at \in DOMAIN actorCtx'.actor THEN NextActor(actorCtx', at)
              ELSE IF a.live THEN NULL
              ELSE NextActor(actorCtx, at))
        /\ UNCHANGED <<nbSetupActors, player, list, round>>

(***************************************************************************)
(* The display list.  A room is drawn when it has its data, an actor after *)
(* its init and while it has a draw function and is in view; planes one    *)
(* steps through have none.  Graph_Update sends the list when the RCP has   *)
(* ended the one before.                                                   *)
(***************************************************************************)
Drawable ==
    {c \in DOMAIN actorCtx.actor :
        LET a == actorCtx.actor[c] IN ~a.init /\ a.live /\ a.plane \notin Stepped}

DrawnRooms == {roomCtx.cur.segment, roomCtx.prev.segment} \ {NULL}

Draw ==
    /\ pc = "draw" /\ list = NoList
    /\ \E seen \in SUBSET Drawable :
        /\ list' = [rooms |-> DrawnRooms, actors |-> seen,
                    objects |-> {actorCtx.actor[c].objBankIndex : c \in seen}]
        /\ actorCtx' = [actorCtx EXCEPT
                           !.freed = {},
                           !.actor = [c \in DOMAIN @ |-> [@[c] EXCEPT !.isDrawn = c \in seen]]]
    /\ pc' = "start"
    /\ UNCHANGED <<loadVars, nbSetupActors, at, player, round>>

(* The picture taken for the pause menu; no room, no actor is drawn. *)
DrawPicture ==
    /\ pc = "picture" /\ list = NoList
    /\ pc' = "start"
    /\ UNCHANGED <<loadVars, actorCtx, nbSetupActors, at, player, list, round>>

(***************************************************************************)
(* Beside the graph thread.                                                *)
(***************************************************************************)
RcpDone ==
    /\ list # NoList
    /\ list' = NoList
    /\ UNCHANGED <<loadVars, actorCtx, nbSetupActors, pc, at, player, round>>

Answer ==
    /\ DmaMgr_Answer
    /\ UNCHANGED <<actorCtx, nbSetupActors, pc, at, player, list, round>>

(***************************************************************************)
(* Gameplay_Init: the first room has arrived, the second buffer is free,   *)
(* the room's objects are still to be asked for.                           *)
(***************************************************************************)
FirstRoom == Sides[1][0]

Init ==
    /\ roomCtx = [cur |-> [num |-> FirstRoom, segment |-> 0], prev |-> NoRoomLoaded,
                  status |-> 0, unk_30 |-> 1, unk_34 |-> 0]
    /\ buffer = [b \in {0, 1} |-> IF b = 0 THEN FirstRoom ELSE NoRoom]
    /\ arrived = FALSE /\ dma = <<>>
    /\ bank = func_8009899C(<<>>, ObjectList[FirstRoom])
    /\ actorCtx = Actor_SpawnTransitionActors(
                      [actor |-> <<>>, prop |-> <<>>, door |-> <<>>,
                       entered |-> [p \in Plane |-> FALSE], freed |-> {}], bank, roomCtx)
    /\ nbSetupActors = SetupActorList[FirstRoom]
    /\ pc = "start" /\ at = NULL /\ player = 0 /\ list = NoList /\ round = FALSE

Next ==
    \/ StartFrame \/ HandleRoom \/ StartActors \/ UpdateActor
    \/ Draw \/ DrawPicture \/ RcpDone \/ Answer

Spec == Init /\ [][Next]_vars

(***************************************************************************)
(* Properties.                                                             *)
(***************************************************************************)
(* What the RCP reads stays as it was when the list was made: no room or   *)
(* object is loaded over one that is drawn, no drawn actor is freed.       *)
RcpReadsWhole ==
    /\ list.rooms \cap Written("room") = {}
    /\ list.objects \cap Written("object") = {}
    /\ list.actors \cap actorCtx.freed = {}

(* unk_30 never leads a room into the buffer of one that is still in use:  *)
(* each room with data has its own, and apart from the other.              *)
RoomMatches ==
    /\ \A room \in {roomCtx.cur, roomCtx.prev} :
           room.segment # NULL => buffer[room.segment] = room.num
    /\ roomCtx.cur.segment # NULL => roomCtx.cur.segment # roomCtx.prev.segment

(* A plane's entry is negative while exactly one actor stands for it, and  *)
(* in a room that is there, no plane is missing.                           *)
PlanesKept ==
    /\ \A p \in Plane :
           Cardinality({c \in DOMAIN actorCtx.actor :
                           actorCtx.actor[c].plane = p /\ actorCtx.actor[c].destroy})
             = IF actorCtx.entered[p] THEN 1 ELSE 0
    /\ roomCtx.status = 0 =>
           \A p \in Plane : Adjoins(p, [roomCtx EXCEPT !.prev = roomCtx.cur]) => actorCtx.entered[p]

(* A request and the queue for its answer are set up anew only when the    *)
(* DMA manager is done with them, so that no answer is taken for another   *)
(* one; and an actor's init works on its own object.                       *)
ObjectsKept ==
    /\ \A k \in DOMAIN dma : dma[k].what = "object" =>
           /\ dma[k].at \in DOMAIN bank
           /\ bank[dma[k].at] = [object |-> dma[k].file, state |-> "sent"]
    /\ \A c \in DOMAIN actorCtx.actor :
           LET a == actorCtx.actor[c] IN a.init \/ a.used = a.object

(* A plane gives up rooms, and with them actors, in the middle of its own  *)
(* update; it never deletes itself there, as long as the player has not    *)
(* got round a plane.                                                      *)
NoSelfDelete ==
    [][UpdateActor /\ actorCtx.actor[at].live => round \/ at \notin actorCtx'.freed]_vars

(* And when he has, it does so only where it gives up one room for the     *)
(* same room, loaded twice; nothing that the RCP draws is lost with it     *)
(* (RcpReadsWhole).                                                        *)
SelfDeleteBetweenTwins ==
    [][UpdateActor /\ actorCtx.actor[at].live /\ at \in actorCtx'.freed
           => roomCtx.cur.num = roomCtx.prev.num]_vars
=============================================================================
