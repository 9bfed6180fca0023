---------------------------- MODULE MCStructures ----------------------------
(***************************************************************************)
(* The structures, parsers and calculations that share no state, in one    *)
(* run: each behaviour exercises one of them.                              *)
(***************************************************************************)
EXTENDS Ranking, RequestParser, LogRing, MapGraph, Battle, Packets, Accounts, Patrol

VARIABLE structure

coreVars == <<treeVars, parserVars, ringVars, mapVars, battleVars>>
roomVars == <<packetVars, accountVars, patrolVars>>

(* Points on the board and a little beyond its edge; tanks that begin at an *)
(* even place pass by some and come to stand on others.                     *)
Line == <<-62, 13, 57>>
Lines == {<<a, b, c>> : a, b, c \in {-62, -23, 8, 13, 57, 95}}

(* A part that is not exercised begins in one of its initial states.        *)
Init ==
  /\ structure \in {"tree", "parser", "ring", "map", "battle", "packets", "accounts", "patrol"}
  /\ InitTree /\ InitParser /\ InitRing /\ InitMap /\ InitBattle
  /\ InitPackets /\ (structure = "packets" \/ Len(board) = 2)
  /\ InitAccounts /\ (structure = "accounts" \/ coin = 50)
  /\ InitPatrol /\ (structure = "patrol" \/ (course = Line /\ pos = 0))

Core ==
  /\ UNCHANGED roomVars
  /\ \/ structure = "tree" /\ NextTree /\ UNCHANGED <<parserVars, ringVars, mapVars, battleVars>>
     \/ structure = "parser" /\ NextParser /\ UNCHANGED <<treeVars, ringVars, mapVars, battleVars>>
     \/ structure = "ring" /\ NextRing /\ UNCHANGED <<treeVars, parserVars, mapVars, battleVars>>
     \/ structure = "map" /\ NextMap /\ UNCHANGED <<treeVars, parserVars, ringVars, battleVars>>
     \/ structure = "battle" /\ NextBattle /\ UNCHANGED <<treeVars, parserVars, ringVars, mapVars>>

Room ==
  /\ UNCHANGED coreVars
  /\ \/ structure = "packets" /\ NextPackets /\ UNCHANGED <<accountVars, patrolVars>>
     \/ structure = "accounts" /\ NextAccounts /\ UNCHANGED <<packetVars, patrolVars>>
     \/ structure = "patrol" /\ NextPatrol /\ UNCHANGED <<packetVars, accountVars>>

Next == UNCHANGED structure /\ (Core \/ Room)

Spec == Init /\ [][Next]_<<structure, coreVars, roomVars>>

(* Points of a map with four nodes: between 0 and 1, between 2 and 3, near  *)
(* to none, and some from which not every node is seen.                     *)
Points ==
  {[n \in Nodes |-> d[n + 1]] :
     d \in {<<1, 1, 9, 9>>, <<9, 4, 4, 5>>, <<99, 99, 1, 1>>, <<99, 99, 99, 99>>}}

(* Rooms with the first tanks of Room::init, with a missile, with inputs.   *)
Games == {<<"tank", "tank", "tank">>, <<"tank", "misle">>, <<"tank", "farman", "shot">>}
=============================================================================
