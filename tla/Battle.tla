-------------------------------- MODULE Battle --------------------------------
(***************************************************************************)
(* One game on the server: the tanks and missiles of GameCore, and the     *)
(* loops of GameCore::update, one action per turn of a loop.  The room's   *)
(* mutex keeps the messages of players out of an update, so they come      *)
(* between two.  match_request takes no mutex: a player joins in several   *)
(* steps of the io thread, and the update may be anywhere.  Positions and  *)
(* shapes are left out: what a missile touches in a step is any choice,    *)
(* and so is the step in which an action runs, which TankInputs models     *)
(* with its ammunition; last_event_time, by which players learn of it all, *)
(* is in ViewSync.                                                         *)
(***************************************************************************)
EXTENDS Integers, FiniteSets

CONSTANTS
  Users,     (* players, those of the AI tanks included                     *)
  MaxHealt,  (* health of a new tank, 100                                   *)
  Damage,    (* health a missile takes, 30                                  *)
  Life,      (* steps after which a missile has flown max_dis, 40           *)
  MaxId,     (* bound: object ids given out                                 *)
  MaxTime    (* bound: steps of the game                                    *)

ASSUME BattleAssumption ==
  /\ MaxHealt \in Nat
  /\ Damage \in Nat
  /\ Life \in Nat
  /\ MaxId \in Nat
  /\ MaxTime \in Nat

Ids == 1 .. MaxId
NoId == 0

VARIABLES
  total_time,      (* GameCore::total_time                                  *)
  loop,            (* the loop update is in, "none" between two updates     *)
  todo,            (* the objects whose turn in that loop is still to come  *)
  shot_id,         (* GameCore::__shot_id, the last id given out            *)
  held_id,         (* what the update's ++ of it has loaded, else NoId      *)
  joining,         (* the tank add_player_with_tank is making, else NoId    *)
  player,          (* Player::tank of each player, NoId before he joins     *)
  tanks, shots,    (* the ids in the maps of those names                    *)
  all_objects,     (* the ids in all_objects                                *)
  inps,            (* shots that players asked for: <<tank, shot_id>>       *)
  healt, owner_id, born_step,
  for_remove,      (* the objects that are marked so                        *)
  hits,            (* <<missile, tank, step>> of every get_damage (history) *)
  twice            (* whether an id may be given out again (history)        *)

clock   == <<total_time, loop, todo>>
objects == <<tanks, shots, all_objects, for_remove>>
fields  == <<healt, owner_id, born_step>>
idVars  == <<shot_id, held_id, joining, twice>>
battleVars == <<clock, idVars, player, inps, objects, fields, hits>>

InitBattle ==
  /\ total_time = 0
  /\ loop = "none"
  /\ todo = {}
  /\ shot_id = 0 /\ held_id = NoId /\ joining = NoId /\ twice = FALSE
  /\ player = [u \in Users |-> NoId]
  /\ tanks = {} /\ shots = {} /\ all_objects = {} /\ for_remove = {}
  /\ inps = {}
  /\ healt = [i \in Ids |-> MaxHealt]
  /\ owner_id = [i \in Ids |-> NoId]
  /\ born_step = [i \in Ids |-> 0]
  /\ hits = {}

-----------------------------------------------------------------------------
(* Seeded fault: ids are counted from the objects that are left.            *)
NewIdFault == Cardinality(all_objects) + 1
NewId == shot_id + 1

add_object(id) == all_objects' = all_objects \cup {id}

init_shot(id) ==
  /\ shots' = shots \cup {id}
  /\ add_object(id)
  /\ born_step' = [born_step EXCEPT ![id] = total_time]

dead(ids) == for_remove' = for_remove \cup ids

get_damage(ids) == healt' = [i \in Ids |-> IF i \in ids THEN healt[i] - Damage ELSE healt[i]]

(* A player who joins gets a tank; one who has had a tank keeps the pointer *)
(* to it and gets no other, even when it is gone.  The io thread makes the  *)
(* tank (Join), adds it to the objects, then to the tanks; it has the room  *)
(* to itself for its other messages, but not for this one.                  *)
Join(u) ==
  /\ joining = NoId /\ player[u] = NoId /\ NewId \in Ids
  /\ shot_id' = NewId
  /\ joining' = NewId
  /\ player' = [player EXCEPT ![u] = NewId]
  /\ UNCHANGED <<clock, held_id, twice, inps, objects, fields, hits>>

AddJoined ==
  /\ joining # NoId /\ joining \notin all_objects
  /\ add_object(joining)
  /\ UNCHANGED <<clock, idVars, player, inps, tanks, shots, for_remove, fields, hits>>

(* A loop over the tanks that is running may still come to the new one.     *)
MapJoined ==
  /\ joining \in all_objects
  /\ tanks' = tanks \cup {joining}
  /\ \/ UNCHANGED todo
     \/ loop = "tanks" /\ todo' = todo \cup {joining}
  /\ joining' = NoId
  /\ UNCHANGED <<total_time, loop, shot_id, held_id, twice, player, inps, shots, all_objects, for_remove,
                 fields, hits>>

(* A shot is asked for: it has its id from then on.                         *)
AddShot(u) ==
  /\ loop = "none" /\ joining = NoId /\ player[u] # NoId /\ NewId \in Ids
  /\ shot_id' = NewId
  /\ inps' = inps \cup {<<player[u], NewId>>}
  /\ UNCHANGED <<clock, held_id, joining, twice, player, objects, fields, hits>>

-----------------------------------------------------------------------------
Killed == {t \in tanks : healt[t] < 0}

Erased(map) == map \ (for_remove \cup Killed)

(* An update begins: tanks without health die, and everything marked is     *)
(* erased from the maps.                                                    *)
Begin ==
  /\ loop = "none" /\ total_time < MaxTime
  /\ total_time' = total_time + 1
  /\ dead(Killed)
  /\ tanks' = Erased(tanks)
  /\ shots' = Erased(shots)
  /\ all_objects' = Erased(all_objects)
  /\ loop' = "shots"
  /\ todo' = shots'
  /\ UNCHANGED <<idVars, player, inps, healt, owner_id, born_step, hits>>

IsNext(i) == i \in todo /\ \A j \in todo : i =< j

Done(i) == todo' = todo \ {i} /\ UNCHANGED <<total_time, loop>>

(* Seeded fault: a missile flies for ever.                                  *)
SpentFault(m) == FALSE
Spent(m) == total_time - born_step[m] > Life

(* Misle::update: one that has flown its distance misses.                   *)
UpdateShot(m) ==
  /\ loop = "shots" /\ IsNext(m)
  /\ Done(m)
  /\ dead(IF Spent(m) THEN {m} ELSE {})
  /\ UNCHANGED <<idVars, player, inps, tanks, shots, all_objects, healt, owner_id, born_step, hits>>

(* Tank::update runs an action for a shot: create_shot takes an id that is  *)
(* never used, and the missile has the one its action was given.  The id is *)
(* from an unlocked ++: the ids of tanks made between its load (LoadId) and *)
(* its store are lost with all but one, and will be given out again.        *)
LoadId(t) ==
  /\ loop = "tanks" /\ IsNext(t) /\ held_id = NoId
  /\ \E a \in inps : a[1] = t
  /\ held_id' = shot_id
  /\ UNCHANGED <<clock, shot_id, joining, twice, player, inps, objects, fields, hits>>

Shoot(t, id) ==
  /\ loop = "tanks" /\ IsNext(t) /\ held_id # NoId
  /\ <<t, id>> \in inps
  /\ inps' = inps \ {<<t, id>>}
  /\ shot_id' = held_id + 1
  /\ held_id' = NoId
  /\ twice' = (twice \/ shot_id > held_id + 1)
  /\ owner_id' = [owner_id EXCEPT ![id] = t]
  /\ init_shot(id)
  /\ UNCHANGED <<clock, joining, player, tanks, for_remove, healt, hits>>

UpdateTank(t) ==
  /\ loop = "tanks" /\ IsNext(t) /\ held_id = NoId
  /\ Done(t)
  /\ UNCHANGED <<idVars, player, inps, objects, fields, hits>>

-----------------------------------------------------------------------------
(* What a missile meets: tanks, and the edge of the board.  A room has      *)
(* neither lines nor blocks: Room::init calls GameCore::init, which makes   *)
(* them on a server, before it sets server.                                 *)
Surroundings == [edge: {"crossed", "none"}, near: SUBSET tanks]

Struck(m, s) == {t \in s.near : t # owner_id[m]}
(* Seeded fault: only the edge stops a missile.                             *)
StopsFault(m, s) == s.edge = "crossed"
Stops(m, s) == s.edge = "crossed" \/ Struck(m, s) # {}

Collide(m) ==
  /\ loop = "collide" /\ IsNext(m)
  /\ Done(m)
  /\ \E s \in Surroundings :
       /\ for_remove' = IF Stops(m, s) THEN for_remove \cup {m} ELSE for_remove
       /\ get_damage(Struck(m, s))
       /\ hits' = hits \cup {<<m, t, total_time>> : t \in Struck(m, s)}
  /\ UNCHANGED <<idVars, player, inps, tanks, shots, all_objects, owner_id, born_step>>

(* A loop is over: the next one goes over the map as it is then, so that a  *)
(* missile that was just fired collides in the step of its birth.           *)
EndLoop ==
  /\ loop # "none" /\ todo = {}
  /\ \/ loop = "shots" /\ loop' = "tanks" /\ todo' = tanks
     \/ loop = "tanks" /\ loop' = "collide" /\ todo' = shots
     \/ loop = "collide" /\ loop' = "none" /\ todo' = {}
  /\ UNCHANGED <<total_time, idVars, player, inps, objects, fields, hits>>

NextBattle ==
  \/ Begin \/ EndLoop \/ AddJoined \/ MapJoined
  \/ \E u \in Users : Join(u) \/ AddShot(u)
  \/ \E i \in Ids : UpdateShot(i) \/ UpdateTank(i) \/ LoadId(i) \/ Collide(i) \/ \E id \in Ids : Shoot(i, id)

BattleSpec == InitBattle /\ [][NextBattle]_battleVars

-----------------------------------------------------------------------------
ObjectsTypeOK ==
  /\ total_time \in Nat
  /\ loop \in {"none", "shots", "tanks", "collide"}
  /\ todo \subseteq Ids
  /\ shot_id \in Nat /\ held_id \in Nat
  /\ joining \in Ids \cup {NoId}
  /\ twice \in BOOLEAN
  /\ player \in [Users -> Ids \cup {NoId}]
  /\ tanks \subseteq Ids /\ shots \subseteq Ids /\ all_objects \subseteq Ids /\ for_remove \subseteq Ids
  /\ inps \subseteq Ids \X Ids
  /\ healt \in [Ids -> Int]
  /\ owner_id \in [Ids -> Ids \cup {NoId}]
  /\ born_step \in [Ids -> Nat]
  /\ hits \subseteq Ids \X Ids \X Nat

(* Two tanks made while the update takes an id may leave an id to be given  *)
(* out again, and what has the same id shares one place in the maps: what   *)
(* follows is said of games in which that has not happened.                 *)

(* A missile that strikes is gone before the next collisions: it damages    *)
(* each tank at most once, all of them in one step, and never its owner     *)
(* (Misle::clear_collision with the removal at the head of update).         *)
OneStrike ==
  twice \/ \A h \in hits :
              /\ h[2] # owner_id[h[1]]
              /\ \A g \in hits : g[1] = h[1] => g[3] = h[3]

(* A tank has lost the damage of the missiles that struck it, each counted  *)
(* once, and nothing else (Unit::get_damage).                               *)
Accounted ==
  twice \/ \A t \in Ids : healt[t] = MaxHealt - Damage * Cardinality({h \in hits : h[2] = t})

(* No object outlives its end: a missile that has flown max_dis has one     *)
(* step left, one that struck and a tank without health are gone with the   *)
(* next update (update, Misle::update).                                     *)
InTime ==
  \/ twice
  \/ /\ \A m \in shots : total_time =< born_step[m] + Life + 1
     /\ \A h \in hits : h[1] \in shots => h[3] = total_time
     /\ \A t \in tanks : healt[t] < 0 => \E h \in hits : h[2] = t /\ h[3] = total_time

(* The maps of GameCore agree, whatever is erased and whoever joins while   *)
(* an update runs: but for the tank that is being added, no object is of    *)
(* two kinds or of none, none that was erased comes back, and what a shot   *)
(* will be called is not yet in use (add_object, update, Tank::shot).       *)
MapsAgree ==
  \/ twice
  \/ /\ all_objects \ {joining} = tanks \cup shots
     /\ tanks \cap shots = {}
     /\ \A a \in inps : a[2] \notin all_objects /\ a[2] # joining /\ a[2] =< shot_id
=============================================================================
