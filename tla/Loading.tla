------------------------------ MODULE Loading ------------------------------
(***************************************************************************)
(* What the game reads from the cartridge while it runs: the room the      *)
(* player enters (src/src/code/z_room.c) and the objects its actors need   *)
(* (src/src/code/z_scene.c).  Both are requests to the DMA manager, carried *)
(* out one after the other in a thread of its own; the game looks into the *)
(* queue of a request once in a frame.                                     *)
(*                                                                         *)
(* The actions are in the module Game.  Here are the state and what each   *)
(* function makes of it.                                                   *)
(***************************************************************************)
EXTENDS Integers, SequencesExt

CONSTANTS
    Room, Object,
    NoRoom,         \* room number -1
    Keep,           \* gameplay_keep, loaded with the scene at bank index 0
    ObjectList      \* the object list of each room

ASSUME LoadingAssumption ==
    /\ NoRoom \notin Room /\ Keep \notin Object
    /\ ObjectList \in [Room -> Seq(Object)]

VARIABLES
    bank,           \* objectCtx.status from unk_09 on: the object and how far it is loaded
    roomCtx,        \* curRoom, prevRoom, status, unk_30, unk_34
    buffer,         \* what is in the two room buffers
    arrived,        \* the message is in roomCtx.loadQueue
    dma             \* the requests the DMA manager has still to answer

loadVars == <<bank, roomCtx, buffer, arrived, dma>>

NULL == -1

(* Of a sequence the elements in S, in their order. *)
Only(s, S) == FoldLeft(LAMBDA w, x : IF x \in S THEN Append(w, x) ELSE w, <<>>, s)

(***************************************************************************)
(* Objects.  An entry with a negative id is "asked" as long as its         *)
(* vromAddr is 0, then "sent"; it is "answered" when the message is in its *)
(* queue.  Bank index 0 is gameplay_keep, the bank variable the others.    *)
(***************************************************************************)
Object_IsLoaded(bk, i) == i = 0 \/ (i \in DOMAIN bk /\ bk[i].state = "loaded")

ObjectAt(bk, i) == IF i = 0 THEN Keep ELSE bk[i].object

(* The first entry for the object, 0 for gameplay_keep, NULL if there is none. *)
Object_GetIndex(bk, o) ==
    IF o = Keep THEN 0
    ELSE LET i == SelectInSeq(bk, LAMBDA s : s.object = o) IN IF i = 0 THEN NULL ELSE i

Asked(bk) == Only([i \in DOMAIN bk |-> i], {i \in DOMAIN bk : bk[i].state = "asked"})

ObjectRequest(bk, i) == [what |-> "object", at |-> i, file |-> bk[i].object]

(* Mutant: the answer of osRecvMesg is taken the wrong way. *)
Checked_NoWait(s) ==
    CASE s.state = "asked" -> [s EXCEPT !.state = "sent"]
      [] s.state = "sent" -> [s EXCEPT !.state = "loaded"]
      [] OTHER -> s

Checked(s) ==
    CASE s.state = "asked" -> [s EXCEPT !.state = "sent"]
      [] s.state = "answered" -> [s EXCEPT !.state = "loaded"]
      [] OTHER -> s

(* Sends what is asked for and takes the answers that have come. *)
Object_UpdateBank ==
    /\ dma' = dma \o [k \in DOMAIN Asked(bank) |-> ObjectRequest(bank, Asked(bank)[k])]
    /\ bank' = [i \in DOMAIN bank |-> Checked(bank[i])]

(* How many entries of the bank stay for a room: those before the first    *)
(* that differs from its list or is not loaded yet.  What follows the list *)
(* in the room's file is taken never to be an object's id.                 *)
Staying(bk, list) ==
    LET same == {i \in DOMAIN bk \cap DOMAIN list : bk[i] = [object |-> list[i], state |-> "loaded"]}
    IN  Cardinality({i \in same : 1 .. i \subseteq same})

func_800982FC(o) == [object |-> o, state |-> "asked"]

func_8009899C(bk, list) ==
    [i \in DOMAIN list |-> IF i <= Staying(bk, list) THEN bk[i] ELSE func_800982FC(list[i])]

(***************************************************************************)
(* Rooms.                                                                  *)
(***************************************************************************)
NoRoomLoaded == [num |-> NoRoom, segment |-> NULL]

(* Asks for a room, unless another one is on its way: it becomes curRoom,  *)
(* without its data, and the old one prevRoom.                             *)
func_8009728C_Free(rc) == rc.status = 0

func_8009728C(r) ==
    /\ roomCtx' = [cur |-> [num |-> r, segment |-> NULL], prev |-> roomCtx.cur,
                   status |-> 1, unk_30 |-> 1 - roomCtx.unk_30, unk_34 |-> roomCtx.unk_30]
    /\ buffer' = [buffer EXCEPT ![roomCtx.unk_30] = NoRoom]
    /\ arrived' = FALSE
    /\ dma' = Append(dma, [what |-> "room", at |-> roomCtx.unk_30, file |-> r])
    /\ UNCHANGED bank

(* Mutant: unk_30 stays. *)
EnHoll_SwapRooms_SameBuffer(rc) == [rc EXCEPT !.cur = rc.prev, !.prev = rc.cur]

(* Mutant: the rooms stay as they are. *)
EnHoll_SwapRooms_Not(rc) == rc

(* EnHoll_SwapRooms; unk_30 changes too, so that it names the buffer of    *)
(* prevRoom.                                                               *)
EnHoll_SwapRooms(rc) ==
    [rc EXCEPT !.cur = rc.prev, !.prev = rc.cur, !.unk_30 = 1 - rc.unk_30]

RoomArrives == roomCtx.status = 1 /\ arrived

(* The first lines of func_800973FC. *)
RoomArrived(rc) == [rc EXCEPT !.status = 0, !.cur.segment = rc.unk_34]

(***************************************************************************)
(* The DMA manager ends its oldest transfer and answers it.  The message   *)
(* goes to the queue the request names, whatever that has become.          *)
(***************************************************************************)
DmaMgr_Answer ==
    /\ dma # <<>>
    /\ dma' = Tail(dma)
    /\ LET req == Head(dma)
       IN  \/ /\ req.what = "room"
              /\ buffer' = [buffer EXCEPT ![req.at] = req.file]
              /\ arrived' = TRUE
              /\ UNCHANGED bank
           \/ /\ req.what = "object"
              /\ bank' = IF req.at \in DOMAIN bank /\ bank[req.at].state = "sent"
                         THEN [bank EXCEPT ![req.at].state = "answered"] ELSE bank
              /\ UNCHANGED <<buffer, arrived>>
    /\ UNCHANGED roomCtx

(* Being written: a room buffer or the place of an object. *)
Written(what) == {dma[k].at : k \in {j \in DOMAIN dma : dma[j].what = what}}
=============================================================================
