------------------------------- MODULE MCGame -------------------------------
(* Three rooms in a row with a plane of each kind between them.            *)
EXTENDS Game

CONSTANTS roomA, roomB, roomC, objX, objY, objZ

MCObjectList == (roomA :> <<objX, objZ>> @@ roomB :> <<objX, objY>> @@ roomC :> <<objX>>)
MCSetupActorList == (roomA :> <<objZ>> @@ roomB :> <<objY>> @@ roomC :> <<>>)
MCSides == <<(0 :> roomA @@ 1 :> roomB), (0 :> roomB @@ 1 :> roomC)>>
=============================================================================
