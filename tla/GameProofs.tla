----------------------------- MODULE GameProofs -----------------------------
(***************************************************************************)
(* What holds of a room's game, for every number of players, missiles,     *)
(* objects, threads and steps: the battle, the account behind a player,    *)
(* the packets that carry the objects, a tank on patrol and the map graph. *)
(* The constants' assumptions are used in the section of their module      *)
(* alone.                                                                  *)
(*                                                                         *)
(* BattleInv strengthens the three invariants of Battle.  Fresh says that  *)
(* an id which is not yet an object has left no trace, Turns that the loop *)
(* goes over objects it has not been at, StruckOut that a missile that      *)
(* struck is marked and will not come to its turn again, Flight that a     *)
(* missile which is not marked has not flown too far, and Joining that the *)
(* tank which is being made is in no map yet.  BattleInv holds as long as  *)
(* no id may be given out twice.                                           *)
(***************************************************************************)
EXTENDS Battle, Accounts, Packets, Patrol, MapGraph, FiniteSetTheorems, SequenceTheorems, TLAPS

USE BattleAssumption DEF BattleAssumption

Fresh ==
  /\ \A i \in all_objects \cup for_remove : i =< shot_id
  /\ \A a \in inps : a[2] \notin for_remove
  /\ \A a, b \in inps : a[2] = b[2] => a = b
  /\ \A i \in Ids : i > shot_id => healt[i] >= 0

Turns ==
  /\ loop = "none" => todo = {}
  /\ loop \in {"shots", "collide"} => todo \subseteq shots
  /\ loop = "tanks" => todo \subseteq tanks

StruckOut ==
  \A h \in hits :
    /\ h[1] \in for_remove
    /\ h[1] \in shots => loop \in {"collide", "none"} /\ h[1] \notin todo

Flight ==
  \A m \in shots \ for_remove :
    loop # "shots" \/ m \notin todo => total_time =< born_step[m] + Life

Joining ==
  joining # NoId =>
    /\ joining =< shot_id
    /\ joining \notin tanks \cup shots \cup for_remove
    /\ healt[joining] >= 0

BattleInv ==
  /\ ~twice
  /\ ObjectsTypeOK /\ MapsAgree /\ Fresh /\ Turns /\ Joining
  /\ OneStrike /\ StruckOut
  /\ InTime /\ Flight

-----------------------------------------------------------------------------
(* The invariant holds of a game that begins.                               *)
THEOREM BattleInit == InitBattle => BattleInv
<1> SUFFICES ASSUME InitBattle PROVE BattleInv
  OBVIOUS
<1>1. ~twice /\ twice \in BOOLEAN
  BY DEF InitBattle
<1>2. ObjectsTypeOK
  BY <1>1 DEF InitBattle, ObjectsTypeOK, Ids, NoId
<1> QED
  BY <1>1, <1>2 DEF InitBattle, BattleInv, MapsAgree, Fresh, Turns, Joining, OneStrike, StruckOut, InTime, Flight, Ids

(* A player who joins gets an id that nothing else has.                     *)
LEMMA JoinKeeps ==
  ASSUME BattleInv, NEW u \in Users, Join(u)
  PROVE  BattleInv'
<1>a. /\ NewId \in Ids /\ NewId = shot_id + 1 /\ shot_id \in Nat /\ joining = NoId
      /\ shot_id' = NewId /\ joining' = NewId /\ player' = [player EXCEPT ![u] = NewId]
  BY DEF BattleInv, ObjectsTypeOK, Join, NewId, Ids
<1>b. UNCHANGED <<tanks, shots, all_objects, for_remove, inps, hits, twice, held_id,
                  healt, owner_id, born_step, total_time, loop, todo>>
  BY DEF Join, clock, objects, fields
<1>c. /\ \A i \in all_objects \cup for_remove : i \in Nat /\ i =< shot_id
      /\ \A i \in Ids : i > shot_id => healt[i] >= 0
      /\ \A a \in inps : a[2] \in Nat /\ a[2] =< shot_id /\ a[2] \notin all_objects
      /\ all_objects \ {joining} = tanks \cup shots /\ tanks \cap shots = {}
      /\ NoId \notin all_objects
  BY DEF BattleInv, ObjectsTypeOK, MapsAgree, Fresh, Ids, NoId
<1>1. ObjectsTypeOK'
  BY <1>a, <1>b DEF BattleInv, ObjectsTypeOK
<1>2. MapsAgree'
  <2>1. NewId \notin all_objects
    BY <1>a, <1>c
  <2>2. \A a \in inps : a[2] # NewId /\ a[2] =< NewId
    BY <1>a, <1>c
  <2> QED BY <1>a, <1>b, <1>c, <2>1, <2>2 DEF MapsAgree
<1>3. Fresh'
  <2>1. \A i \in all_objects' \cup for_remove' : i =< shot_id'
    BY <1>a, <1>b, <1>c
  <2>2. \A i \in Ids : i > shot_id' => healt'[i] >= 0
    BY <1>a, <1>b, <1>c DEF Ids
  <2> QED BY <1>b, <2>1, <2>2 DEF BattleInv, Fresh
<1>4. Joining'
  BY <1>a, <1>b, <1>c DEF Joining
<1>5. Turns' /\ OneStrike' /\ StruckOut' /\ Flight' /\ InTime'
  BY <1>b DEF BattleInv, Turns, OneStrike, StruckOut, Flight, InTime
<1> QED
  BY <1>1, <1>2, <1>3, <1>4, <1>5, <1>b DEF BattleInv

(* The new tank becomes an object, at any place in an update.               *)
LEMMA AddJoinedKeeps ==
  ASSUME BattleInv, AddJoined
  PROVE  BattleInv'
<1>a. /\ joining # NoId /\ joining \notin all_objects /\ all_objects' = all_objects \cup {joining}
      /\ UNCHANGED <<tanks, shots, for_remove, inps, hits, twice, held_id, shot_id, joining, player,
                     healt, owner_id, born_step, total_time, loop, todo>>
  BY DEF AddJoined, add_object, clock, idVars, fields
<1>1. ObjectsTypeOK'
  BY <1>a DEF BattleInv, ObjectsTypeOK
<1>2. MapsAgree'
  BY <1>a DEF BattleInv, MapsAgree
<1>3. Fresh' /\ Joining'
  BY <1>a DEF BattleInv, Fresh, Joining
<1>4. Turns' /\ OneStrike' /\ StruckOut' /\ Flight' /\ InTime'
  BY <1>a DEF BattleInv, Turns, OneStrike, StruckOut, Flight, InTime
<1> QED
  BY <1>1, <1>2, <1>3, <1>4, <1>a DEF BattleInv

(* It becomes a tank: a loop that is running may come to it.                *)
LEMMA MapJoinedKeeps ==
  ASSUME BattleInv, MapJoined
  PROVE  BattleInv'
<1>a. /\ joining \in all_objects /\ tanks' = tanks \cup {joining} /\ joining' = NoId
      /\ UNCHANGED <<all_objects, shots, for_remove, inps, hits, twice, held_id, shot_id, player,
                     healt, owner_id, born_step, total_time, loop>>
      /\ todo' = todo \/ (loop = "tanks" /\ todo' = todo \cup {joining})
  BY DEF MapJoined, fields
<1>b. joining \in Ids /\ joining # NoId /\ joining \notin shots /\ NoId \notin all_objects
  BY <1>a DEF BattleInv, ObjectsTypeOK, Joining, Ids, NoId
<1>c. healt[joining] >= 0 /\ healt[joining] \in Int
  BY <1>b DEF BattleInv, ObjectsTypeOK, Joining
<1>1. ObjectsTypeOK'
  BY <1>a, <1>b DEF BattleInv, ObjectsTypeOK
<1>2. MapsAgree'
  <2>1. \A a \in inps : a[2] # NoId
    BY DEF BattleInv, ObjectsTypeOK, Ids, NoId
  <2> QED
    BY <1>a, <1>b, <2>1 DEF BattleInv, MapsAgree
<1>3. Fresh' /\ Joining'
  BY <1>a DEF BattleInv, Fresh, Joining
<1>4. Turns'
  BY <1>a DEF BattleInv, Turns
<1>5. InTime'
  <2>1. \A t \in tanks' : healt'[t] < 0 => t \in tanks
    BY <1>a, <1>c
  <2> QED
    BY <1>a, <2>1 DEF BattleInv, InTime
<1>6. OneStrike' /\ Flight'
  BY <1>a DEF BattleInv, OneStrike, Flight
<1>7. StruckOut'
  BY <1>a, <1>b DEF BattleInv, StruckOut
<1> QED
  BY <1>1, <1>2, <1>3, <1>4, <1>5, <1>6, <1>7, <1>a DEF BattleInv

(* A shot that is asked for gets an id that nothing else has.               *)
LEMMA AddShotKeeps ==
  ASSUME BattleInv, NEW u \in Users, AddShot(u)
  PROVE  BattleInv'
<1> DEFINE new == <<player[u], NewId>>
<1>a. /\ player[u] \in Ids /\ NewId \in Ids /\ NewId = shot_id + 1 /\ shot_id \in Nat
      /\ inps' = inps \cup {new} /\ shot_id' = shot_id + 1 /\ joining = NoId
      /\ inps \subseteq Ids \X Ids
  BY DEF BattleInv, ObjectsTypeOK, AddShot, NewId, Ids, NoId
<1>b. UNCHANGED <<clock, held_id, joining, twice, player, objects, fields, hits>>
  BY DEF AddShot
<1>c. new \in Ids \X Ids /\ new[2] = shot_id + 1
  BY <1>a
<1>d. \A a \in inps : a \in Ids \X Ids /\ a[2] \in Ids /\ a[2] =< shot_id
  BY <1>a DEF BattleInv, MapsAgree
<1>1. ObjectsTypeOK'
  BY <1>a, <1>b, <1>c DEF BattleInv, ObjectsTypeOK, clock, objects, fields
<1> HIDE DEF new
<1>e. /\ \A i \in all_objects \cup for_remove : i \in Nat /\ i =< shot_id
      /\ \A i \in Ids : i > shot_id => healt[i] >= 0
      /\ \A a \in inps : a[2] \notin all_objects /\ a[2] \notin for_remove /\ a[2] # joining
      /\ \A a, b \in inps : a[2] = b[2] => a = b
      /\ all_objects \ {joining} = tanks \cup shots /\ tanks \cap shots = {}
  BY DEF BattleInv, ObjectsTypeOK, MapsAgree, Fresh, Ids
<1>f. UNCHANGED <<tanks, shots, all_objects, for_remove, healt, joining>>
  BY <1>b DEF objects, fields
<1>g. \A a \in inps' : a \in inps \/ (a = new /\ a[2] = shot_id + 1)
  BY <1>a, <1>c
<1>h. \A a \in inps : a[2] \in Nat /\ a[2] =< shot_id
  BY <1>d DEF Ids
<1>2. MapsAgree'
  <2>1. \A a \in inps' : a[2] \notin all_objects /\ a[2] # joining /\ a[2] =< shot_id'
    BY <1>a, <1>e, <1>g, <1>h DEF Ids, NoId
  <2> QED
    BY <1>e, <1>f, <2>1 DEF MapsAgree
<1>3. Fresh'
  <2>1. \A i \in all_objects' \cup for_remove' : i =< shot_id'
    BY <1>a, <1>e, <1>f
  <2>2. \A a \in inps' : a[2] \notin for_remove'
    BY <1>a, <1>e, <1>f, <1>g
  <2>3. \A a, b \in inps' : a[2] = b[2] => a = b
    BY <1>a, <1>e, <1>g, <1>h
  <2>4. \A i \in Ids : i > shot_id' => healt'[i] >= 0
    BY <1>a, <1>e, <1>f DEF Ids
  <2> QED BY <2>1, <2>2, <2>3, <2>4 DEF Fresh
<1>4. Turns' /\ OneStrike' /\ StruckOut' /\ Flight' /\ InTime' /\ Joining'
  BY <1>a, <1>b DEF BattleInv, Turns, OneStrike, StruckOut, Flight, InTime, Joining, clock, objects, fields
<1> QED
  BY <1>1, <1>2, <1>3, <1>4, <1>b DEF BattleInv

(* An update begins: whatever struck is erased, and so is who has no health. *)
LEMMA BeginKeeps ==
  ASSUME BattleInv, Begin
  PROVE  BattleInv'
<1> USE DEF Begin, dead, Erased, Killed
<1>1. ObjectsTypeOK' /\ ~twice'
  BY DEF BattleInv, ObjectsTypeOK, idVars
<1>2. MapsAgree' /\ Fresh' /\ Joining'
  <2>1. UNCHANGED <<shot_id, joining, healt, inps>>
    BY DEF idVars
  <2>2. /\ tanks \subseteq all_objects /\ all_objects \ {joining} = tanks \cup shots
        /\ tanks \cap shots = {} /\ joining \notin tanks \cup for_remove
    BY DEF BattleInv, ObjectsTypeOK, MapsAgree, Joining, Ids, NoId
  <2>3. MapsAgree'
    BY <2>1, <2>2 DEF BattleInv, MapsAgree
  <2>4. Fresh'
    BY <2>1, <2>2 DEF BattleInv, MapsAgree, Fresh
  <2>5. Joining'
    BY <2>1, <2>2 DEF BattleInv, Joining
  <2> QED
    BY <2>3, <2>4, <2>5
<1>3. Turns' /\ OneStrike' /\ StruckOut'
  BY DEF BattleInv, ObjectsTypeOK, Turns, OneStrike, StruckOut
<1>4. Flight'
  BY DEF BattleInv, ObjectsTypeOK, Flight
<1>5. InTime'
  <2>1. \A m \in shots' : total_time' =< born_step'[m] + Life + 1
    BY DEF BattleInv, ObjectsTypeOK, Flight, Turns
  <2>2. \A h \in hits' : h[1] \notin shots'
    BY DEF BattleInv, StruckOut
  <2>3. \A t \in tanks' : ~(healt'[t] < 0)
    BY DEF BattleInv, ObjectsTypeOK
  <2> QED
    BY <2>1, <2>2, <2>3 DEF InTime
<1> QED
  BY <1>1, <1>2, <1>3, <1>4, <1>5 DEF BattleInv

(* The end of a loop changes whose turn it is, and nothing else.            *)
LEMMA EndLoopKeeps ==
  ASSUME BattleInv, EndLoop
  PROVE  BattleInv'
<1> USE DEF EndLoop, objects, fields, idVars
<1>1. ~twice' /\ ObjectsTypeOK' /\ MapsAgree' /\ Fresh' /\ Joining'
  BY DEF BattleInv, ObjectsTypeOK, MapsAgree, Fresh, Joining
<1>2. Turns' /\ OneStrike'
  BY DEF BattleInv, Turns, OneStrike
<1>3. StruckOut'
  BY DEF BattleInv, ObjectsTypeOK, StruckOut
<1>4. Flight'
  BY DEF BattleInv, ObjectsTypeOK, Flight
<1>5. InTime'
  BY DEF BattleInv, InTime
<1> QED
  BY <1>1, <1>2, <1>3, <1>4, <1>5 DEF BattleInv

(* A missile that has flown its distance is marked in its turn.             *)
LEMMA UpdateShotKeeps ==
  ASSUME BattleInv, NEW i \in Ids, UpdateShot(i)
  PROVE  BattleInv'
<1> USE DEF UpdateShot, IsNext, Done, dead, idVars
<1>a. i \in shots
  BY DEF BattleInv, Turns
<1>1. ObjectsTypeOK' /\ ~twice'
  BY DEF BattleInv, ObjectsTypeOK
<1>b. i \in all_objects /\ i # joining
  BY <1>a DEF BattleInv, MapsAgree, Joining
<1>2. MapsAgree' /\ Fresh' /\ Joining'
  BY <1>b DEF BattleInv, MapsAgree, Fresh, Joining
<1>3. Turns' /\ OneStrike' /\ StruckOut' /\ InTime'
  BY DEF BattleInv, Turns, OneStrike, StruckOut, InTime
<1>4. Flight'
  <2> SUFFICES ASSUME NEW m \in shots', m \notin for_remove', m \notin todo'
               PROVE  total_time' =< born_step'[m] + Life
    BY DEF Flight
  <2>1. CASE m = i
    <3>1. ~Spent(i)
      BY <2>1
    <3>2. born_step[i] \in Nat /\ total_time \in Nat
      BY DEF BattleInv, ObjectsTypeOK
    <3> QED
      BY <2>1, <3>1, <3>2 DEF Spent
  <2>2. CASE m # i
    BY <2>2 DEF BattleInv, Flight
  <2> QED
    BY <2>1, <2>2
<1> QED
  BY <1>1, <1>2, <1>3, <1>4 DEF BattleInv

(* A tank that does not fire, and one that is about to, change nothing else. *)
LEMMA UpdateTankKeeps ==
  ASSUME BattleInv, NEW i \in Ids, UpdateTank(i) \/ LoadId(i)
  PROVE  BattleInv'
<1>a. /\ todo' \subseteq todo /\ (todo' = todo \/ loop = "tanks") /\ (held_id' = held_id \/ held_id' = shot_id)
      /\ UNCHANGED <<shot_id, joining, twice, player, inps, objects, fields, hits, total_time, loop>>
  BY DEF UpdateTank, LoadId, IsNext, Done, idVars, clock
<1>b. UNCHANGED <<tanks, shots, all_objects, for_remove, healt, owner_id, born_step>>
  BY <1>a DEF objects, fields
<1>1. ~twice' /\ ObjectsTypeOK' /\ MapsAgree' /\ Fresh' /\ Joining'
  BY <1>a, <1>b DEF BattleInv, ObjectsTypeOK, MapsAgree, Fresh, Joining
<1>2. Turns' /\ OneStrike' /\ InTime'
  BY <1>a, <1>b DEF BattleInv, Turns, OneStrike, InTime
<1>3. StruckOut' /\ Flight'
  BY <1>a, <1>b DEF BattleInv, StruckOut, Flight
<1> QED
  BY <1>1, <1>2, <1>3 DEF BattleInv

(* A missile that is fired has an id that no other object ever had, and as  *)
(* no id is lost that a tank has, the last one given out does not go back.  *)
LEMMA ShootKeeps ==
  ASSUME BattleInv, NEW t \in Ids, NEW id \in Ids, Shoot(t, id), ~twice'
  PROVE  BattleInv'
<1> DEFINE old == <<t, id>>
<1>a. /\ loop = "tanks" /\ total_time \in Nat /\ shot_id \in Nat
      /\ old \in inps /\ inps' = inps \ {old}
      /\ UNCHANGED <<clock, joining, player, tanks, for_remove, healt, hits>>
      /\ held_id \in Nat /\ shot_id' = held_id + 1 /\ held_id' \in Nat
  BY DEF Shoot, BattleInv, ObjectsTypeOK, NoId
<1>g. twice' \in BOOLEAN /\ ~(shot_id > held_id + 1)
  BY DEF Shoot
<1>i. shot_id' \in Nat /\ shot_id =< shot_id'
  BY <1>a, <1>g
<1>b. /\ shots' = shots \cup {id} /\ all_objects' = all_objects \cup {id}
      /\ owner_id' = [owner_id EXCEPT ![id] = t]
      /\ born_step' = [born_step EXCEPT ![id] = total_time]
  BY DEF Shoot, init_shot, add_object
<1>c. old[2] = id
  OBVIOUS
<1> HIDE DEF old
<1>d. id \notin all_objects /\ id =< shot_id /\ id \notin for_remove /\ id # joining
  BY <1>a, <1>c DEF BattleInv, MapsAgree, Fresh
<1>e. \A a \in inps' : a \in inps /\ a[2] # id
  BY <1>a, <1>c DEF BattleInv, Fresh
<1>f. \A h \in hits : h[1] # id
  BY <1>d DEF BattleInv, StruckOut
<1>1. ObjectsTypeOK'
  BY <1>a, <1>b, <1>g, <1>i DEF BattleInv, ObjectsTypeOK, clock
<1>2. MapsAgree'
  <2>1. \A a \in inps' : a[2] \notin all_objects' /\ a[2] =< shot_id /\ a[2] # joining'
    BY <1>a, <1>b, <1>e DEF BattleInv, MapsAgree
  <2>2. \A a \in inps' : a[2] \in Ids
    BY <1>e DEF BattleInv, ObjectsTypeOK
  <2>3. \A a \in inps' : a[2] =< shot_id'
    BY <1>a, <1>i, <2>1, <2>2 DEF Ids
  <2>4. all_objects' \ {joining'} = tanks' \cup shots' /\ tanks' \cap shots' = {}
    BY <1>a, <1>b, <1>d DEF BattleInv, MapsAgree
  <2> QED
    BY <2>1, <2>3, <2>4 DEF MapsAgree
<1>3. Fresh'
  <2>1. \A i \in all_objects' \cup for_remove' : i \in Ids /\ i =< shot_id
    BY <1>a, <1>b, <1>d DEF BattleInv, ObjectsTypeOK, Fresh
  <2>2. \A i \in all_objects' \cup for_remove' : i =< shot_id'
    BY <1>a, <1>i, <2>1 DEF Ids
  <2>3. \A i \in Ids : i > shot_id' => healt'[i] >= 0
    BY <1>a, <1>i DEF BattleInv, Fresh, Ids
  <2> QED
    BY <1>a, <1>e, <2>2, <2>3 DEF BattleInv, Fresh
<1>4. Turns'
  BY <1>a, <1>b DEF BattleInv, Turns, clock
<1>5. OneStrike' /\ StruckOut'
  BY <1>a, <1>b, <1>f DEF BattleInv, ObjectsTypeOK, OneStrike, StruckOut, clock
<1>6. InTime'
  BY <1>a, <1>b, <1>f DEF BattleInv, ObjectsTypeOK, InTime, clock
<1>7. Flight'
  BY <1>a, <1>b DEF BattleInv, ObjectsTypeOK, Flight, clock
<1>8. Joining'
  <2>1. joining # NoId => joining \in Nat
    BY DEF BattleInv, ObjectsTypeOK, Ids
  <2> QED
    BY <1>a, <1>b, <1>d, <1>i, <2>1 DEF BattleInv, Joining, Ids
<1> QED
  BY <1>1, <1>2, <1>3, <1>4, <1>5, <1>6, <1>7, <1>8 DEF BattleInv

(* A missile that comes to its turn has struck nobody; what it strikes now, *)
(* it strikes in this step, and then it is marked.                          *)
LEMMA CollideKeeps ==
  ASSUME BattleInv, NEW m \in Ids, Collide(m)
  PROVE  BattleInv'
<1>a. PICK s \in Surroundings :
        /\ for_remove' = IF Stops(m, s) THEN for_remove \cup {m} ELSE for_remove
        /\ get_damage(Struck(m, s))
        /\ hits' = hits \cup {<<m, t, total_time>> : t \in Struck(m, s)}
  BY DEF Collide
<1> DEFINE S == Struck(m, s)
           new == {<<m, t, total_time>> : t \in S}
<1>b. /\ loop = "collide" /\ loop' = loop /\ m \in todo /\ todo' = todo \ {m} /\ total_time' = total_time
      /\ UNCHANGED <<shot_id, held_id, joining, twice, player, inps, tanks, shots, all_objects, owner_id, born_step>>
  BY DEF Collide, IsNext, Done, idVars
<1>c. /\ S \subseteq tanks /\ S \subseteq Ids /\ \A t \in S : t # owner_id[m]
      /\ healt' = [i \in Ids |-> IF i \in S THEN healt[i] - Damage ELSE healt[i]]
  BY <1>a DEF Struck, Surroundings, get_damage, BattleInv, ObjectsTypeOK
<1>d. S # {} => m \in for_remove'
  BY <1>a DEF Struck, Stops
<1>e. hits' = hits \cup new
  BY <1>a
<1>f. m \in shots /\ m =< shot_id /\ m # joining /\ \A a \in inps : a[2] # m
  BY <1>b DEF BattleInv, Turns, MapsAgree, Fresh, Joining
<1>g. \A h \in hits : h[1] # m
  BY <1>b, <1>f DEF BattleInv, StruckOut
<1>h. \A h \in new : h[1] = m /\ h[2] \in S /\ h[3] = total_time
  OBVIOUS
<1>i. for_remove \subseteq for_remove' /\ for_remove' \subseteq for_remove \cup {m}
  BY <1>a
<1>j. new \subseteq Ids \X Ids \X Nat /\ (new # {} => S # {})
  BY <1>c DEF BattleInv, ObjectsTypeOK
<1>k. \A t \in S : \E h \in new : h[2] = t /\ h[3] = total_time
  <2> TAKE t \in S
  <2>1. <<m, t, total_time>> \in new
    OBVIOUS
  <2> QED
    BY <2>1
<1> HIDE DEF S, new
<1>1. ObjectsTypeOK'
  BY <1>b, <1>c, <1>e, <1>i, <1>j DEF BattleInv, ObjectsTypeOK
<1>2. MapsAgree'
  BY <1>b DEF BattleInv, MapsAgree
<1>3. Fresh'
  <2>1. \A i \in Ids : i > shot_id' => healt'[i] >= 0
    BY <1>b, <1>c DEF BattleInv, ObjectsTypeOK, Fresh, MapsAgree, Ids
  <2> QED
    BY <1>b, <1>f, <1>i, <2>1 DEF BattleInv, Fresh
<1>4. Turns'
  BY <1>b DEF BattleInv, Turns
<1>5. OneStrike'
  BY <1>b, <1>c, <1>e, <1>g, <1>h DEF BattleInv, OneStrike
<1>6. StruckOut'
  BY <1>b, <1>d, <1>e, <1>h, <1>i, <1>j DEF BattleInv, StruckOut
<1>7. InTime'
  <2>1. \A t \in tanks' : healt'[t] < 0 => t \in S \/ healt[t] < 0
    BY <1>b, <1>c DEF BattleInv, ObjectsTypeOK
  <2>2. \A t \in tanks' : healt'[t] < 0 => \E h \in hits' : h[2] = t /\ h[3] = total_time'
    BY <1>b, <1>e, <1>k, <2>1 DEF BattleInv, InTime
  <2>3. \A h \in hits' : h[1] \in shots' => h[3] = total_time'
    BY <1>b, <1>e, <1>h DEF BattleInv, InTime
  <2> QED
    BY <1>b, <2>2, <2>3 DEF BattleInv, InTime
<1>8. Flight'
  BY <1>b, <1>i DEF BattleInv, Flight
<1>9. Joining'
  <2>1. joining # NoId => joining \in Ids /\ joining \notin S
    BY <1>c DEF BattleInv, ObjectsTypeOK, Joining
  <2> QED
    BY <1>b, <1>c, <1>f, <1>i, <2>1 DEF BattleInv, Joining
<1> QED
  BY <1>1, <1>2, <1>3, <1>4, <1>5, <1>6, <1>7, <1>8, <1>9, <1>b DEF BattleInv

-----------------------------------------------------------------------------
(* Every action keeps the invariant, unless it leaves an id to be given out *)
(* again.                                                                   *)
THEOREM BattleNext == (twice \/ BattleInv) /\ [NextBattle]_battleVars => (twice \/ BattleInv)'
<1> SUFFICES ASSUME twice \/ BattleInv, [NextBattle]_battleVars, ~twice'
             PROVE  BattleInv'
  OBVIOUS
<1>0. BattleInv
  BY DEF NextBattle, battleVars, idVars, Begin, EndLoop, Join, AddJoined, MapJoined, AddShot,
         UpdateShot, UpdateTank, LoadId, Shoot, Collide
<1>1. CASE Begin
  BY <1>0, <1>1, BeginKeeps
<1>2. CASE EndLoop
  BY <1>0, <1>2, EndLoopKeeps
<1>3. ASSUME NEW u \in Users, Join(u) \/ AddShot(u) PROVE BattleInv'
  BY <1>0, <1>3, JoinKeeps, AddShotKeeps
<1>4. ASSUME NEW i \in Ids, UpdateShot(i) \/ UpdateTank(i) \/ LoadId(i) \/ Collide(i) PROVE BattleInv'
  BY <1>0, <1>4, UpdateShotKeeps, UpdateTankKeeps, CollideKeeps
<1>5. ASSUME NEW i \in Ids, NEW id \in Ids, Shoot(i, id) PROVE BattleInv'
  BY <1>0, <1>5, ShootKeeps
<1>6. CASE AddJoined \/ MapJoined
  BY <1>0, <1>6, AddJoinedKeeps, MapJoinedKeeps
<1>7. CASE UNCHANGED battleVars
  BY <1>0, <1>7 DEF battleVars, clock, idVars, objects, fields, BattleInv, ObjectsTypeOK, MapsAgree,
         Fresh, Turns, Joining, OneStrike, StruckOut, InTime, Flight
<1> QED
  BY <1>1, <1>2, <1>3, <1>4, <1>5, <1>6, <1>7 DEF NextBattle

(* The strengthened invariant holds in every game, as long as no id may be  *)
(* given out twice.                                                         *)
THEOREM BattleSafe == BattleSpec => [](twice \/ BattleInv)
<1>1. InitBattle => twice \/ BattleInv
  BY BattleInit
<1> QED
  BY <1>1, BattleNext, PTL DEF BattleSpec

(* A missile strikes in one step only, never its owner, and each tank at    *)
(* most once (Misle::clear_collision with the removals of update).          *)
THEOREM StrikesOnce == BattleSpec => []OneStrike
<1>1. twice \/ BattleInv => OneStrike
  BY DEF BattleInv, OneStrike
<1> QED
  BY <1>1, BattleSafe, PTL

(* Missiles that have flown their distance or have struck, and tanks        *)
(* without health, are gone in time (GameCore::update, Misle::update).      *)
THEOREM ObjectsEndInTime == BattleSpec => []InTime
<1>1. twice \/ BattleInv => InTime
  BY DEF BattleInv, InTime
<1> QED
  BY <1>1, BattleSafe, PTL

(* The maps of tanks, missiles and all objects agree, whoever joins in the  *)
(* middle of an update, unless two of them joined while it took an id       *)
(* (add_object, init_tank, generate_shot_id, update).                       *)
THEOREM MapsStayTogether == BattleSpec => []MapsAgree
<1>1. twice \/ BattleInv => MapsAgree
  BY DEF BattleInv, MapsAgree
<1> QED
  BY <1>1, BattleSafe, PTL

-----------------------------------------------------------------------------
(* The health that is gone is that of the hits there were.                  *)
Of(H, t) == {h \in H : h[2] = t}

Balance == IsFiniteSet(hits) /\ IsFiniteSet(tanks) /\ Accounted

(* One more hit counts as one more.                                         *)
LEMMA OneMoreHit ==
  ASSUME NEW H, NEW K, NEW t, NEW k, IsFiniteSet(H), k \notin H, Of(K, t) = Of(H, t) \cup {k}
  PROVE  /\ Cardinality(Of(H, t)) \in Nat
         /\ Cardinality(Of(K, t)) = Cardinality(Of(H, t)) + 1
<1>1. IsFiniteSet(Of(H, t)) /\ k \notin Of(H, t)
  <2>1. Of(H, t) \subseteq H
    BY DEF Of
  <2> QED
    BY <2>1, FS_Subset DEF Of
<1> QED
  BY <1>1, FS_AddElement, FS_CardinalityType

(* A collision takes the damage once from each tank it strikes.             *)
LEMMA CollideAccounts ==
  ASSUME BattleInv, Balance, NEW m \in Ids, Collide(m)
  PROVE  Balance'
<1>a. PICK s \in Surroundings :
        /\ get_damage(Struck(m, s))
        /\ hits' = hits \cup {<<m, t, total_time>> : t \in Struck(m, s)}
  BY DEF Collide
<1> DEFINE S == Struck(m, s)
           f == [t \in S |-> <<m, t, total_time>>]
           new == {<<m, t, total_time>> : t \in S}
<1>b. /\ S \subseteq tanks /\ S \subseteq Ids /\ tanks' = tanks
      /\ healt' = [i \in Ids |-> IF i \in S THEN healt[i] - Damage ELSE healt[i]]
  BY <1>a DEF Struck, Surroundings, get_damage, BattleInv, ObjectsTypeOK, Collide
<1>c. \A h \in hits : h[1] # m
  BY DEF Collide, IsNext, BattleInv, Turns, StruckOut
<1>d. IsFiniteSet(new)
  <2>1. IsFiniteSet(S)
    BY <1>b, FS_Subset DEF Balance
  <2>2. f \in [S -> new] /\ \A k \in new : \E t \in S : f[t] = k
    OBVIOUS
  <2>3. f \in Surjection(S, new)
    BY <2>2 DEF Surjection
  <2> QED
    BY <2>1, <2>3, FS_Surjection
<1>1. IsFiniteSet(hits')
  BY <1>a, <1>d, FS_Union DEF Balance
<1>2. ASSUME NEW t \in Ids
      PROVE  healt'[t] = MaxHealt - Damage * Cardinality(Of(hits', t))
  <2> DEFINE n == Cardinality(Of(hits, t))
  <2>1. healt[t] = MaxHealt - Damage * n
    BY DEF BattleInv, Balance, Accounted, Of
  <2>2. CASE t \in S
    <3>1. <<m, t, total_time>> \notin hits
      BY <1>c
    <3>2. Of(hits', t) = Of(hits, t) \cup {<<m, t, total_time>>}
      BY <1>a, <2>2 DEF Of
    <3>3. n \in Nat /\ Cardinality(Of(hits', t)) = n + 1
      BY <3>1, <3>2, OneMoreHit DEF Balance
    <3>4. Damage * (n + 1) = Damage * n + Damage /\ Damage * n \in Int
      BY <3>3
    <3> QED
      BY <1>b, <2>1, <2>2, <3>3, <3>4
  <2>3. CASE t \notin S
    <3>1. Of(hits', t) = Of(hits, t)
      BY <1>a, <2>3 DEF Of
    <3> QED
      BY <1>b, <2>1, <2>3, <3>1
  <2> QED
    BY <2>2, <2>3
<1> QED
  BY <1>1, <1>2, <1>b DEF Balance, Accounted, Of

(* No other action takes health, or hits.                                   *)
LEMMA OthersAccount ==
  ASSUME BattleInv, Balance, [NextBattle]_battleVars, UNCHANGED <<healt, hits>>, IsFiniteSet(tanks')
  PROVE  Balance'
  BY DEF BattleInv, Balance, Accounted

(* A tank's health tells how often it was hit (Unit::get_damage).           *)
THEOREM HealthAccounts == BattleSpec => []Accounted
<1>1. InitBattle => Balance
  <2> SUFFICES ASSUME InitBattle PROVE Balance
    OBVIOUS
  <2>1. Cardinality({}) = 0 /\ IsFiniteSet({})
    BY FS_EmptySet
  <2>2. \A t \in Ids : {h \in hits : h[2] = t} = {}
    BY DEF InitBattle
  <2>3. Damage * 0 = 0 /\ MaxHealt - 0 = MaxHealt
    OBVIOUS
  <2> QED
    BY <2>1, <2>2, <2>3 DEF InitBattle, Balance, Accounted
<1>2. (twice \/ BattleInv) /\ (twice \/ BattleInv)' /\ (twice \/ Balance) /\ [NextBattle]_battleVars
        => (twice \/ Balance)'
  <2> SUFFICES ASSUME twice \/ BattleInv, (twice \/ BattleInv)', twice \/ Balance,
                      [NextBattle]_battleVars, ~twice'
               PROVE  Balance'
    OBVIOUS
  <2>0. BattleInv /\ BattleInv' /\ Balance
    BY DEF NextBattle, battleVars, idVars, Begin, EndLoop, Join, AddJoined, MapJoined, AddShot,
           UpdateShot, UpdateTank, LoadId, Shoot, Collide
  <2>1. IsFiniteSet(tanks')
    <3>1. IsFiniteSet(Ids) /\ tanks' \subseteq Ids
      BY <2>0, FS_Interval DEF Ids, BattleInv, ObjectsTypeOK
    <3> QED
      BY <3>1, FS_Subset
  <2>2. ASSUME NEW m \in Ids, Collide(m) PROVE Balance'
    BY <2>0, <2>2, CollideAccounts
  <2>3. CASE UNCHANGED <<healt, hits>>
    BY <2>0, <2>1, <2>3, OthersAccount
  <2>4. UNCHANGED <<healt, hits>> \/ \E m \in Ids : Collide(m)
    BY DEF NextBattle, battleVars, fields, objects, Begin, EndLoop, Join, AddJoined, MapJoined, AddShot,
           UpdateShot, UpdateTank, LoadId, Shoot
  <2> QED
    BY <2>2, <2>3, <2>4
<1>3. (twice \/ Balance) => Accounted
  BY DEF Balance, Accounted
<1>4. InitBattle => twice \/ Balance
  BY <1>1
<1> QED
  BY <1>2, <1>3, <1>4, BattleSafe, PTL DEF BattleSpec

HIDE BattleAssumption DEF BattleAssumption

-----------------------------------------------------------------------------
(* The account: StartedOnce and GrantsFollow say how far a thread may be    *)
(* with the timer, CoinsWithin what it may have loaded by then.             *)

(* Whether t has passed both tests and has not yet stored the coins.        *)
Granting(t) == IF at[t] \in {"reset", "load", "add"} THEN 1 ELSE 0

(* A thread that started the timer is about to fill the account, or it has  *)
(* been filled: it will not be poor again.                                  *)
StartedOnce ==
  \A t \in Threads :
    /\ starts[t] <= 1
    /\ starts[t] = 1 => at[t] \in {"low", "fill"} \/ coin >= 200
    /\ at[t] \in {"stopped", "start"} => starts[t] = 0
    /\ at[t] = "show" => coin >= 200
    /\ shown[t] >= 200

(* A timer that runs is one this thread has not granted coins for.          *)
GrantsFollow ==
  \A t \in Threads :
    /\ grants[t] + Granting(t) <= started
    /\ free_coin_time > 0 /\ at[t] # "reset" => grants[t] + Granting(t) < started

Most == (IF first > 200 THEN first ELSE 200) + 300 * granted

CoinsWithin ==
  /\ coin <= Most
  /\ \A t \in Threads : loaded[t] <= Most

AccountsInv == TypeOK /\ StartedOnce /\ GrantsFollow /\ CoinsWithin

USE AccountsAssumption DEF AccountsAssumption

(* Init establishes the invariant.                                          *)
LEMMA AccountsInit == InitAccounts => AccountsInv
  BY DEF InitAccounts, AccountsInv, TypeOK, StartedOnce, GrantsFollow, Granting, CoinsWithin, Most, Steps

(* Every step preserves it.                                                 *)
LEMMA AccountsStep == AccountsInv /\ [NextAccounts]_accountVars => AccountsInv'
<1> SUFFICES ASSUME AccountsInv, [NextAccounts]_accountVars
             PROVE  AccountsInv'
  OBVIOUS
<1> USE DEF AccountsInv, TypeOK, StartedOnce, GrantsFollow, Granting, CoinsWithin, Most, Steps,
            account, history, Goto
<1>1. CASE Tick
  BY <1>1 DEF Tick
<1>2. ASSUME NEW t \in Threads, Ask(t)
      PROVE  AccountsInv'
  BY <1>2 DEF Ask
<1>3. ASSUME NEW t \in Threads, TestDue(t)
      PROVE  AccountsInv'
  BY <1>3 DEF TestDue
<1>4. ASSUME NEW t \in Threads, TestRunning(t)
      PROVE  AccountsInv'
  BY <1>4 DEF TestRunning
<1>5. ASSUME NEW t \in Threads, Reset(t)
      PROVE  AccountsInv'
  BY <1>5 DEF Reset
<1>6. ASSUME NEW t \in Threads, Load(t)
      PROVE  AccountsInv'
  BY <1>6 DEF Load
<1>7. ASSUME NEW t \in Threads, Add(t)
      PROVE  AccountsInv'
  BY <1>7 DEF Add
<1>8. ASSUME NEW t \in Threads, TestPoor(t)
      PROVE  AccountsInv'
  BY <1>8 DEF TestPoor
<1>9. ASSUME NEW t \in Threads, TestStopped(t)
      PROVE  AccountsInv'
  BY <1>9 DEF TestStopped
<1>10. ASSUME NEW t \in Threads, StartTimer(t)
       PROVE  AccountsInv'
  BY <1>10 DEF StartTimer
<1>11. ASSUME NEW t \in Threads, TestLow(t)
       PROVE  AccountsInv'
  BY <1>11 DEF TestLow
<1>12. ASSUME NEW t \in Threads, Fill(t)
       PROVE  AccountsInv'
  BY <1>12 DEF Fill
<1>13. ASSUME NEW t \in Threads, Show(t)
       PROVE  AccountsInv'
  BY <1>13 DEF Show
<1>14. CASE UNCHANGED accountVars
  BY <1>14 DEF accountVars
<1>15. QED
  BY <1>1, <1>2, <1>3, <1>4, <1>5, <1>6, <1>7, <1>8, <1>9, <1>10, <1>11, <1>12, <1>13, <1>14
     DEF NextAccounts, get_user_profile_msg

(* The coins of an account stay within its grants, whatever the threads     *)
(* that serve it do between each other's tests and stores.                  *)
THEOREM CoinsBounded == SpecAccounts => []FreeCoins
<1>1. AccountsInv => FreeCoins
  BY DEF AccountsInv, TypeOK, StartedOnce, GrantsFollow, Granting, CoinsWithin, Most, FreeCoins
<1>2. QED
  BY AccountsInit, AccountsStep, <1>1, PTL DEF SpecAccounts

HIDE AccountsAssumption DEF AccountsAssumption

-----------------------------------------------------------------------------

(* The packets of a room's objects: what the classes write and read of      *)
(* their fields, where the structs of a packet lie, and what the copies are *)
(* made of.                                                                 *)
Kinds == {"tank", "misle", "farman", "shot"}

(* Every kind of struct is written by a class and read by its counterpart.  *)
LEMMA KindsAre == DOMAIN State = Kinds /\ DOMAIN Gets = Kinds /\ DOMAIN Sets = Kinds
BY DEF Kinds, State, Gets, Sets

(* No set_data reads a field that get_data does not write, and none that    *)
(* the struct does not have.                                                *)
LEMMA ReadsWhatIsWritten == \A kind \in Kinds : Sets[kind] \subseteq Gets[kind] /\ Gets[kind] \subseteq State[kind]
<1>1. Sets["tank"] \subseteq Gets["tank"] /\ Gets["tank"] \subseteq State["tank"]
  BY DEF Sets, Gets, State, Tank_set, Unit_set, Live_set, BoardObject_set,
         Tank_get, Unit_get, Live_get, BoardObject_get,
         TankState, UnitState, LiveBoardObjectState, BoardObjectState
<1>2. Sets["misle"] \subseteq Gets["misle"] /\ Gets["misle"] \subseteq State["misle"]
  BY DEF Sets, Gets, State, Misle_set, Live_set, BoardObject_set,
         Misle_get, Live_get, BoardObject_get,
         MisleState, LiveBoardObjectState, BoardObjectState
<1>3. Sets["farman"] \subseteq Gets["farman"] /\ Gets["farman"] \subseteq State["farman"]
  BY DEF Sets, Gets, State, InputFarman_set, Input_set, InputFarman_get, Input_get, InputFarmanState, InputState
<1>4. Sets["shot"] \subseteq Gets["shot"] /\ Gets["shot"] \subseteq State["shot"]
  BY DEF Sets, Gets, State, InputShot_set, Input_set, InputShot_get, Input_get, InputShotState, InputState
<1> QED BY <1>1, <1>2, <1>3, <1>4 DEF Kinds

(* A finite set of numbers has an element at every place from its least on. *)
LEMMA Placed ==
  ASSUME NEW S \in SUBSET Nat, IsFiniteSet(S), NEW k \in 0 .. (Cardinality(S) - 1)
  PROVE  \E o \in S : Cardinality({x \in S : x < o}) = k
<1> DEFINE Less(o) == {x \in S : x < o}
           T == 0 .. (Cardinality(S) - 1)
           place == [o \in S |-> Cardinality(Less(o))]
<1>1. Cardinality(S) \in Nat
  BY FS_CardinalityType
<1>2. \A o \in S : IsFiniteSet(Less(o)) /\ Cardinality(Less(o)) \in Nat
  <2> TAKE o \in S
  <2>1. Less(o) \in SUBSET S
    OBVIOUS
  <2>2. IsFiniteSet(Less(o))
    BY <2>1, FS_Subset
  <2> QED BY <2>2, FS_CardinalityType
<1>3. \A o \in S : Cardinality(Less(o)) < Cardinality(S)
  <2> TAKE o \in S
  <2>1. Less(o) \in SUBSET S /\ Less(o) # S
    OBVIOUS
  <2> HIDE DEF Less
  <2>2. Cardinality(Less(o)) <= Cardinality(S) /\ Cardinality(Less(o)) # Cardinality(S)
    BY <2>1, FS_Subset
  <2> QED BY <1>1, <1>2, <2>2
<1>4. ASSUME NEW o \in S, NEW p \in S, o < p
      PROVE  Cardinality(Less(o)) < Cardinality(Less(p))
  <2>1. Less(o) \in SUBSET Less(p) /\ Less(o) # Less(p)
    <3>1. o \in Less(p) /\ o \notin Less(o)
      BY <1>4
    <3>2. \A x \in S : x < o => x < p
      BY <1>4
    <3> QED BY <3>1, <3>2
  <2> HIDE DEF Less
  <2>2. IsFiniteSet(Less(p))
    BY <1>2
  <2>3. Cardinality(Less(o)) <= Cardinality(Less(p)) /\ Cardinality(Less(o)) # Cardinality(Less(p))
    BY <2>1, <2>2, FS_Subset
  <2> QED BY <1>2, <2>3
<1> HIDE DEF Less
<1>5. place \in Injection(S, T)
  <2>1. place \in [S -> T]
    BY <1>1, <1>2, <1>3
  <2>2. \A o, p \in S : place[o] = place[p] => o = p
    <3> SUFFICES ASSUME NEW o \in S, NEW p \in S, o # p
                 PROVE  place[o] # place[p]
      OBVIOUS
    <3>1. o < p \/ p < o
      OBVIOUS
    <3> QED BY <1>2, <1>4, <3>1
  <2> QED BY <2>1, <2>2 DEF Injection, IsInjective
<1>6. IsFiniteSet(T) /\ Cardinality(T) = Cardinality(S)
  BY <1>1, FS_Interval
<1> HIDE DEF place, T
<1>7. place \in Surjection(S, T)
  BY <1>5, <1>6, FS_Injection
<1>8. \E o \in S : place[o] = k
  BY <1>7 DEF Surjection, T
<1> QED BY <1>8 DEF place, Less

(* Induction: a set of numbers that has a first one and every next one.     *)
LEMMA LeastNat ==
  ASSUME NEW T \in SUBSET Nat, T # {}
  PROVE  \E x \in T : \A y \in T : x <= y
<1>1. PICK t \in T : TRUE
  OBVIOUS
<1> DEFINE U == 0 .. t
           W == {0 .. b : b \in {b \in T : b <= t}}
<1>2. IsFiniteSet(U) /\ t \in Nat
  BY <1>1, FS_Interval
<1>3. W # {} /\ W \subseteq FiniteSubsetsOf(U)
  <2>1. 0 .. t \in W
    BY <1>2
  <2>2. ASSUME NEW w \in W PROVE w \in FiniteSubsetsOf(U)
    <3>1. PICK b \in T : b <= t /\ w = 0 .. b
      BY <2>2
    <3>2. w \in SUBSET U
      BY <3>1, <1>2
    <3>3. IsFiniteSet(w)
      BY <1>2, <3>2, FS_Subset
    <3> QED BY <3>2, <3>3 DEF FiniteSubsetsOf
  <2> QED BY <2>1, <2>2
<1>4. PICK w \in W : \A v \in W : <<v, w>> \notin StrictSubsetOrdering(U)
  <2> HIDE DEF W, U
  <2> QED BY <1>3, FS_StrictSubsetOrderingWellFounded, WFMin
<1>5. PICK b \in T : b <= t /\ w = 0 .. b
  BY <1>4
<1>6. ASSUME NEW y \in T, ~(b <= y) PROVE FALSE
  <2>1. y < b /\ y <= t /\ 0 .. y \in W
    BY <1>2, <1>5, <1>6
  <2>2. 0 .. y \in SUBSET U /\ w \in SUBSET U /\ 0 .. y \subseteq w /\ 0 .. y # w
    <3>1. b \in w /\ b \notin 0 .. y
      BY <1>5, <2>1
    <3> QED BY <1>2, <1>5, <2>1, <3>1
  <2>3. <<0 .. y, w>> \in StrictSubsetOrdering(U)
    BY <2>2 DEF StrictSubsetOrdering
  <2> QED BY <1>4, <2>1, <2>3
<1> QED BY <1>5, <1>6

(* Hence a set with 0 and with each successor has all numbers.              *)
LEMMA Induction ==
  ASSUME NEW S, 0 \in S, \A n \in Nat : n \in S => n + 1 \in S
  PROVE  Nat \subseteq S
<1> SUFFICES ASSUME Nat \ S # {} PROVE FALSE
  OBVIOUS
<1>1. PICK x \in Nat \ S : \A y \in Nat \ S : x <= y
  BY LeastNat
<1>2. x # 0 /\ x - 1 \in Nat
  BY <1>1
<1>3. x - 1 \in S
  BY <1>1, <1>2
<1> QED BY <1>1, <1>2, <1>3

(* The sum of the widths of some fields is defined, and positive.           *)
LEMMA SumIsPositive ==
  ASSUME NEW S, IsFiniteSet(S), S # {}, \A f \in S : Width(f) \in Nat \ {0}
  PROVE  MapThenSumSet(Width, S) \in Nat \ {0}
<1> DEFINE least(s) == CHOOSE x \in s : TRUE
           sum(g, s) == IF s = {} THEN 0 ELSE Width(least(s)) + g[s \ {least(s)}]
           Sub(n) == {s \in SUBSET S : Cardinality(s) <= n}
           iter == CHOOSE g : g = [s \in SUBSET S |-> sum(g, s)]
           A == {n \in Nat : \E g : g = [s \in Sub(n) |-> sum(g, s)]}
           B == {n \in Nat : \A s \in Sub(n) : iter[s] \in Nat /\ (s # {} => iter[s] > 0)}
<1>1. MapThenSumSet(Width, S) = iter[S]
  BY DEF MapThenSumSet, MapThenFoldSet
<1>2. \A s \in SUBSET S : /\ IsFiniteSet(s) /\ Cardinality(s) \in Nat
                          /\ s # {} => /\ least(s) \in s /\ s \ {least(s)} \in SUBSET S
                                       /\ Cardinality(s \ {least(s)}) = Cardinality(s) - 1
  <2> TAKE s \in SUBSET S
  <2>1. IsFiniteSet(s)
    BY FS_Subset
  <2>2. Cardinality(s) \in Nat
    BY <2>1, FS_CardinalityType
  <2>3. s # {} => least(s) \in s
    OBVIOUS
  <2> HIDE DEF least
  <2>4. s # {} => Cardinality(s \ {least(s)}) = Cardinality(s) - 1
    BY <2>1, <2>3, FS_RemoveElement
  <2> QED BY <2>1, <2>2, <2>3, <2>4
<1> HIDE DEF least
<1>3. ASSUME NEW n \in Nat, NEW s \in Sub(n + 1), s # {}
      PROVE  s \ {least(s)} \in Sub(n) /\ least(s) \in S
  BY <1>2, <1>3
<1>4. ASSUME NEW n \in Nat, NEW s \in Sub(n) PROVE s \in Sub(n + 1)
  <2>1. s \in SUBSET S /\ Cardinality(s) \in Nat /\ Cardinality(s) <= n
    BY <1>2, <1>4
  <2>2. Cardinality(s) <= n + 1
    BY <2>1
  <2> QED BY <2>1, <2>2
<1>5. Sub(0) = {{}}
  <2>1. ASSUME NEW s \in Sub(0) PROVE s = {}
    <3>0. s \in SUBSET S /\ Cardinality(s) <= 0
      BY <2>1
    <3>1. IsFiniteSet(s) /\ Cardinality(s) \in Nat
      BY <1>2, <3>0
    <3>2. Cardinality(s) = 0
      BY <3>0, <3>1
    <3> QED BY <3>1, <3>2, FS_EmptySet
  <2>2. {} \in Sub(0)
    BY FS_EmptySet
  <2> QED BY <2>1, <2>2
<1> HIDE DEF Sub
<1>6. Nat \subseteq A
  <2>1. 0 \in A
    <3> DEFINE g == [s \in Sub(0) |-> 0]
    <3>1. g = [s \in Sub(0) |-> sum(g, s)]
      BY <1>5
    <3> QED BY <3>1
  <2>2. ASSUME NEW n \in Nat, n \in A PROVE n + 1 \in A
    <3>1. PICK g : g = [s \in Sub(n) |-> sum(g, s)]
      BY <2>2
    <3> DEFINE h == [s \in Sub(n + 1) |-> sum(g, s)]
    <3>2. \A s \in Sub(n) : h[s] = g[s]
      BY <1>4, <3>1
    <3>3. \A s \in Sub(n + 1) : sum(h, s) = sum(g, s)
      <4> HIDE DEF h
      <4> QED BY <1>3, <3>2
    <3>4. h = [s \in Sub(n + 1) |-> sum(h, s)]
      <4> HIDE DEF sum
      <4>1. h = [s \in Sub(n + 1) |-> sum(g, s)]
        OBVIOUS
      <4> HIDE DEF h
      <4> QED BY <3>3, <4>1
    <3> HIDE DEF h
    <3> QED BY <3>4
  <2> HIDE DEF A
  <2> QED BY <2>1, <2>2, Induction
<1>7. iter = [s \in SUBSET S |-> sum(iter, s)]
  <2>1. Cardinality(S) \in A /\ SUBSET S = Sub(Cardinality(S))
    <3>1. Cardinality(S) \in Nat
      BY FS_CardinalityType
    <3>2. \A s \in SUBSET S : Cardinality(s) <= Cardinality(S)
      BY FS_Subset
    <3> QED BY <1>6, <3>1, <3>2 DEF Sub
  <2>2. \E g : g = [s \in SUBSET S |-> sum(g, s)]
    BY <2>1
  <2> HIDE DEF sum
  <2> QED BY <2>2
<1> HIDE DEF iter
<1>8. Nat \subseteq B
  <2>1. 0 \in B
    BY <1>5, <1>7
  <2>2. ASSUME NEW n \in Nat, n \in B PROVE n + 1 \in B
    <3> SUFFICES ASSUME NEW s \in Sub(n + 1) PROVE iter[s] \in Nat /\ (s # {} => iter[s] > 0)
      BY <2>2
    <3>1. s \in SUBSET S
      BY DEF Sub
    <3>2. CASE s = {}
      BY <1>7, <3>1, <3>2
    <3>3. CASE s # {}
      <4>1. s \ {least(s)} \in Sub(n) /\ least(s) \in S
        BY <1>3, <3>3
      <4>2. iter[s] = Width(least(s)) + iter[s \ {least(s)}]
        BY <1>7, <3>1, <3>3
      <4>3. iter[s \ {least(s)}] \in Nat /\ Width(least(s)) \in Nat \ {0}
        BY <2>2, <4>1
      <4> QED BY <4>2, <4>3
    <3> QED BY <3>2, <3>3
  <2> HIDE DEF B
  <2> QED BY <2>1, <2>2, Induction
<1>9. Cardinality(S) \in B /\ S \in Sub(Cardinality(S))
  BY <1>8, FS_CardinalityType DEF Sub
<1> QED BY <1>1, <1>9

(* Sets of a few fields are finite.                                         *)
LEMMA FewAreFinite ==
  \A a, b, c, d, e : IsFiniteSet({a, b, c, d, e}) /\ IsFiniteSet({a, b, c, d}) /\ IsFiniteSet({a, b})
<1> SUFFICES ASSUME NEW a, NEW b, NEW c, NEW d, NEW e
             PROVE  IsFiniteSet({a, b, c, d, e}) /\ IsFiniteSet({a, b, c, d}) /\ IsFiniteSet({a, b})
  OBVIOUS
<1>1. \A S, x, T : IsFiniteSet(S) /\ (\A y : y \in T <=> y \in S \/ y = x) => IsFiniteSet(T)
  <2> SUFFICES ASSUME NEW S, NEW x, NEW T, IsFiniteSet(S), \A y : y \in T <=> y \in S \/ y = x
               PROVE  IsFiniteSet(T)
    OBVIOUS
  <2>1. T = S \cup {x}
    OBVIOUS
  <2> QED BY <2>1, FS_AddElement
<1>2. IsFiniteSet({})
  BY FS_EmptySet
<1>3. IsFiniteSet({a})
  BY <1>1, <1>2, Zenon
<1>4. IsFiniteSet({a, b})
  BY <1>1, <1>3, Zenon
<1>5. IsFiniteSet({a, b, c})
  BY <1>1, <1>4, Zenon
<1>6. IsFiniteSet({a, b, c, d})
  BY <1>1, <1>5, Zenon
<1>7. IsFiniteSet({a, b, c, d, e})
  BY <1>1, <1>6, Zenon
<1> QED BY <1>4, <1>6, <1>7

(* Every struct has a size of at least a byte.                              *)
LEMMA SizesArePositive == \A kind \in DOMAIN State : SizeOf[kind] \in Nat \ {0}
<1>1. \A f : Width(f) \in Nat \ {0}
  BY DEF Width
<1>2. ASSUME NEW kind \in DOMAIN State PROVE IsFiniteSet(State[kind]) /\ State[kind] # {}
  <2>1. \A S, T : IsFiniteSet(S) /\ IsFiniteSet(T) => IsFiniteSet(S \cup T)
    BY FS_Union
  <2>2. \A a, b, c, d, e : IsFiniteSet({a, b, c, d, e}) /\ IsFiniteSet({a, b, c, d}) /\ IsFiniteSet({a, b})
    BY FewAreFinite
  <2>3. IsFiniteSet(BoardObjectState)
    <3>1. BoardObjectState = {"object_type", "event_type", "object_id", "owner_id", "room_time"} \cup
                               {"pos", "z", "r", "angle", "angle"}
      BY DEF BoardObjectState
    <3> QED BY <2>1, <2>2, <3>1
  <2>4. IsFiniteSet(LiveBoardObjectState)
    BY <2>1, <2>2, <2>3 DEF LiveBoardObjectState
  <2>5. IsFiniteSet(TankState)
    <3>1. IsFiniteSet({"user_id", "target_angle", "max_angle_speed", "angle_speed"})
      BY <2>2
    <3>2. IsFiniteSet({"target_range", "canon_angle", "remain_shot", "shot_damage"})
      BY <2>2
    <3> QED BY <2>1, <2>4, <3>1, <3>2 DEF TankState, UnitState
  <2>6. IsFiniteSet(MisleState)
    BY <2>1, <2>2, <2>4 DEF MisleState
  <2>7. IsFiniteSet(InputState)
    <3>1. InputState = {"size_of_data", "type", "tank_id", "trigger_step", "id"} \cup
                         {"client_id", "client_id", "client_id", "client_id", "client_id"}
      BY DEF InputState
    <3> QED BY <2>1, <2>2, <3>1
  <2>8. IsFiniteSet(InputFarmanState)
    <3>1. IsFiniteSet({"farman", "speed"})
      BY <2>2
    <3> QED BY <2>1, <2>7, <3>1 DEF InputFarmanState
  <2>9. IsFiniteSet(InputShotState)
    <3>1. IsFiniteSet({"shot", "shot_id", "targetet", "angle"})
      BY <2>2
    <3> QED BY <2>1, <2>7, <3>1 DEF InputShotState
  <2>10. TankState # {} /\ MisleState # {} /\ InputFarmanState # {} /\ InputShotState # {}
    BY DEF TankState, MisleState, InputFarmanState, InputShotState
  <2>11. kind \in {"tank", "misle", "farman", "shot"}
    BY <1>2 DEF State
  <2> HIDE DEF TankState, MisleState, InputFarmanState, InputShotState
  <2> QED BY <2>5, <2>6, <2>8, <2>9, <2>10, <2>11 DEF State
<1> QED BY <1>1, <1>2, SumIsPositive DEF SizeOf

(* The places that get_array gives to the structs of a packet: each begins  *)
(* where the one before it ends, behind all pointers.                       *)
Layout(p, q, offset, n, end) ==
  /\ end[offset] = TankState16Msg + MyPointer * n
  /\ \A i \in offset .. n - 1 : end[i + 1] = end[i] + q[i + 1].size
  /\ p.first = offset /\ p.size = n /\ p.size_of_data = end[n]
  /\ p.body = [a \in {end[i] : i \in offset .. n - 1} |->
                 q[(CHOOSE j \in offset .. n - 1 : end[j] = a) + 1]]
  /\ \A i \in offset .. n - 1 : /\ getIndex(p, i) = TankState16Msg + MyPointer * i
                                /\ getPtr(p, i) = end[i]

LEMMA Laid ==
  ASSUME NEW q, NEW offset \in Nat, NEW size \in Nat \ {0}, Len(q) \in Nat, offset < Len(q),
         \A i \in 1 .. Len(q) : q[i].size \in Nat \ {0},
         NEW n, n = IF Len(q) > offset + size THEN offset + size ELSE Len(q),
         NEW p, p = get_array(q, offset, size)
  PROVE  p.type = "states" /\ \E end \in [offset .. n -> Nat] : Layout(p, q, offset, n, end)
<1>1. n \in Nat /\ offset < n /\ n <= Len(q)
  OBVIOUS
<1> DEFINE next(g, i) == IF i = offset THEN TankState16Msg + MyPointer * Reserved(n, offset)
                         ELSE g[i - 1] + q[i].size
           end == CHOOSE g : g = [i \in offset .. n |-> next(g, i)]
           A == {k \in Nat : \E g : g = [i \in offset .. offset + k |-> next(g, i)]}
           B == {k \in Nat : k <= n - offset => end[offset + k] \in Nat}
<1>2. p = [type |-> "states", size_of_data |-> end[n], start |-> TankState16Msg - ArrayAt,
           first |-> offset, size |-> n,
           pointer |-> [i \in offset .. n - 1 |-> end[i] - (ArrayAt + (TankState16Msg - ArrayAt) + MyPointer * i)],
           body |-> [a \in {end[i] : i \in offset .. n - 1} |->
                       q[(CHOOSE j \in offset .. n - 1 : end[j] = a) + 1]]]
  BY DEF get_array
<1>3. Nat \subseteq A
  <2>1. 0 \in A
    <3> DEFINE g == [i \in offset .. offset + 0 |-> TankState16Msg + MyPointer * Reserved(n, offset)]
    <3>1. offset .. offset + 0 = {offset}
      OBVIOUS
    <3>2. g = [i \in offset .. offset + 0 |-> next(g, i)]
      BY <3>1
    <3> QED BY <3>2
  <2>2. ASSUME NEW k \in Nat, k \in A PROVE k + 1 \in A
    <3>1. PICK g : g = [i \in offset .. offset + k |-> next(g, i)]
      BY <2>2
    <3> DEFINE h == [i \in offset .. offset + (k + 1) |-> next(g, i)]
    <3>2. \A i \in offset .. offset + k : h[i] = g[i]
      <4>1. \A i \in offset .. offset + k : i \in offset .. offset + (k + 1)
        OBVIOUS
      <4>2. \A i \in offset .. offset + k : g[i] = next(g, i)
        BY <3>1
      <4> HIDE DEF next
      <4> QED BY <4>1, <4>2
    <3>3. \A i \in offset .. offset + (k + 1) : next(h, i) = next(g, i)
      <4> HIDE DEF h
      <4>1. \A i \in offset .. offset + (k + 1) : i # offset => i - 1 \in offset .. offset + k
        OBVIOUS
      <4> QED BY <3>2, <4>1
    <3>4. h = [i \in offset .. offset + (k + 1) |-> next(h, i)]
      <4> HIDE DEF next
      <4>1. h = [i \in offset .. offset + (k + 1) |-> next(g, i)]
        OBVIOUS
      <4> HIDE DEF h
      <4> QED BY <3>3, <4>1
    <3> HIDE DEF h
    <3> QED BY <3>4
  <2> HIDE DEF A
  <2> QED BY <2>1, <2>2, Induction
<1>4. end = [i \in offset .. n |-> next(end, i)]
  <2>1. n - offset \in A /\ offset + (n - offset) = n
    <3>1. n - offset \in Nat /\ offset + (n - offset) = n
      BY <1>1
    <3> HIDE DEF A
    <3> QED BY <1>3, <3>1
  <2>2. \E g : g = [i \in offset .. n |-> next(g, i)]
    <3> DEFINE d == n - offset
    <3>1. d \in A /\ offset + d = n
      BY <2>1
    <3> HIDE DEF d, next
    <3>2. \E g : g = [i \in offset .. offset + d |-> next(g, i)]
      BY <3>1
    <3> QED BY <3>1, <3>2
  <2> HIDE DEF next
  <2> QED BY <2>2
<1> HIDE DEF end
<1>5. TankState16Msg \in Nat /\ MyPointer = 4 /\ ArrayAt \in Nat /\ MyPointer * n \in Nat
  BY <1>1 DEF TankState16Msg, RoomMsg, BaseMessage, MyArray, MyPointer, ArrayAt
<1>6. end[offset] = TankState16Msg + MyPointer * n
  BY <1>1, <1>4 DEF Reserved
<1>7. \A i \in offset .. n - 1 : end[i + 1] = end[i] + q[i + 1].size
  <2> TAKE i \in offset .. n - 1
  <2>1. i + 1 \in offset .. n /\ i + 1 # offset /\ (i + 1) - 1 = i
    BY <1>1
  <2> QED BY <1>4, <2>1
<1>8. Nat \subseteq B
  <2>1. 0 \in B
    BY <1>5, <1>6
  <2>2. ASSUME NEW k \in Nat, k \in B PROVE k + 1 \in B
    <3> SUFFICES ASSUME k + 1 <= n - offset PROVE end[offset + (k + 1)] \in Nat
      BY <2>2
    <3>1. /\ offset + k \in offset .. n - 1 /\ (offset + k) + 1 = offset + (k + 1)
          /\ (offset + k) + 1 \in 1 .. Len(q) /\ k <= n - offset
      BY <1>1
    <3>2. end[offset + (k + 1)] = end[offset + k] + q[(offset + k) + 1].size
      BY <1>7, <3>1
    <3>3. end[offset + k] \in Nat
      BY <2>2, <3>1
    <3> QED BY <3>1, <3>2, <3>3
  <2> HIDE DEF B
  <2> QED BY <2>1, <2>2, Induction
<1>9. end \in [offset .. n -> Nat]
  <2>1. ASSUME NEW i \in offset .. n PROVE end[i] \in Nat
    <3>1. i - offset \in B /\ i - offset <= n - offset /\ offset + (i - offset) = i
      <4>1. i - offset \in Nat /\ i - offset <= n - offset /\ offset + (i - offset) = i
        BY <1>1
      <4> HIDE DEF B
      <4> QED BY <1>8, <4>1
    <3> QED BY <3>1
  <2>2. DOMAIN end = offset .. n /\ end = [i \in DOMAIN end |-> end[i]]
    BY <1>4
  <2> QED BY <2>1, <2>2
<1>10. /\ p.type = "states" /\ p.first = offset /\ p.size = n /\ p.size_of_data = end[n]
       /\ p.body = [a \in {end[i] : i \in offset .. n - 1} |->
                      q[(CHOOSE j \in offset .. n - 1 : end[j] = a) + 1]]
  BY <1>2
<1>11. ASSUME NEW i \in offset .. n - 1
       PROVE  getIndex(p, i) = TankState16Msg + MyPointer * i /\ getPtr(p, i) = end[i]
  <2>1. /\ p.start = TankState16Msg - ArrayAt
        /\ p.pointer[i] = end[i] - (ArrayAt + (TankState16Msg - ArrayAt) + MyPointer * i)
    BY <1>2
  <2>2. i \in offset .. n /\ i \in Nat
    BY <1>1
  <2>3. end[i] \in Nat
    BY <1>9, <2>2
  <2> QED BY <1>5, <2>1, <2>2, <2>3 DEF getIndex, getPtr
<1>12. Layout(p, q, offset, n, end)
  BY <1>6, <1>7, <1>10, <1>11 DEF Layout
<1> QED BY <1>9, <1>10, <1>12

(* Such a layout keeps its parts apart, and every struct is at its index.   *)
LEMMA LaidApart ==
  ASSUME NEW p, NEW q, NEW offset \in Nat, NEW n \in Nat, offset < n,
         NEW end \in [offset .. n -> Nat], Layout(p, q, offset, n, end),
         \A i \in offset .. n - 1 : q[i + 1].size \in Nat \ {0}
  PROVE  /\ Apart(p)
         /\ {p.body[getPtr(p, i)] : i \in p.first .. p.size - 1} = {p.body[a] : a \in DOMAIN p.body}
         /\ p.size - p.first = Cardinality(DOMAIN p.body)
<1> DEFINE C == {k \in Nat : \A i \in offset .. n - 1 : i + 1 + k <= n => end[i + 1] <= end[i + 1 + k]}
<1>1. \A i \in offset .. n - 1 : end[i + 1] = end[i] + q[i + 1].size /\ end[i] < end[i + 1]
  <2> TAKE i \in offset .. n - 1
  <2>1. i \in offset .. n /\ i + 1 \in offset .. n
    OBVIOUS
  <2>2. end[i] \in Nat /\ end[i + 1] \in Nat
    BY <2>1
  <2>3. end[i + 1] = end[i] + q[i + 1].size /\ q[i + 1].size \in Nat \ {0}
    BY DEF Layout
  <2> QED BY <2>2, <2>3
<1>2. Nat \subseteq C
  <2>1. 0 \in C
    <3>1. \A i \in offset .. n - 1 : i + 1 + 0 = i + 1 /\ end[i + 1] \in Nat
      OBVIOUS
    <3> QED BY <3>1
  <2>2. ASSUME NEW k \in Nat, k \in C PROVE k + 1 \in C
    <3> SUFFICES ASSUME NEW i \in offset .. n - 1, i + 1 + (k + 1) <= n
                 PROVE  end[i + 1] <= end[i + 1 + (k + 1)]
      BY <2>2
    <3>1. /\ i + 1 + k \in offset .. n - 1 /\ (i + 1 + k) + 1 = i + 1 + (k + 1)
          /\ i + 1 \in offset .. n /\ i + 1 + k \in offset .. n /\ i + 1 + (k + 1) \in offset .. n
          /\ i + 1 + k <= n
      BY <2>2
    <3>2. end[i + 1] <= end[i + 1 + k] /\ end[i + 1 + k] < end[i + 1 + (k + 1)]
      BY <1>1, <2>2, <3>1
    <3>3. end[i + 1] \in Nat /\ end[i + 1 + k] \in Nat /\ end[i + 1 + (k + 1)] \in Nat
      BY <3>1
    <3> QED BY <3>2, <3>3
  <2> HIDE DEF C
  <2> QED BY <2>1, <2>2, Induction
<1>3. ASSUME NEW i \in offset .. n - 1, NEW j \in offset .. n, i < j
      PROVE  end[i] + q[i + 1].size <= end[j] /\ end[i] < end[j]
  <2>1. j - (i + 1) \in Nat /\ i + 1 + (j - (i + 1)) = j /\ i \in offset .. n /\ i + 1 \in offset .. n
    BY <1>3
  <2> HIDE DEF C
  <2>2. j - (i + 1) \in C
    BY <1>2, <2>1
  <2> USE DEF C
  <2>3. end[i + 1] <= end[j]
    BY <2>1, <2>2
  <2>4. end[i] \in Nat /\ end[i + 1] \in Nat /\ end[j] \in Nat
    BY <2>1
  <2> QED BY <1>1, <2>3, <2>4
<1> HIDE DEF C
<1> DEFINE holder(a) == CHOOSE j \in offset .. n - 1 : end[j] = a
<1>4. \A i \in offset .. n - 1 : holder(end[i]) = i
  <2> TAKE i \in offset .. n - 1
  <2>1. ASSUME NEW j \in offset .. n - 1, end[j] = end[i] PROVE j = i
    <3>1. i \in offset .. n /\ j \in offset .. n
      OBVIOUS
    <3>2. end[i] \in Nat
      BY <3>1
    <3>3. ~(i < j) /\ ~(j < i)
      BY <1>3, <2>1, <3>1, <3>2
    <3> QED BY <3>1, <3>3
  <2> QED BY <2>1
<1> DEFINE begins == {end[i] : i \in offset .. n - 1}
<1>5. /\ DOMAIN p.body = begins
      /\ \A i \in offset .. n - 1 : /\ p.body[end[i]] = q[i + 1] /\ getPtr(p, i) = end[i]
                                    /\ getIndex(p, i) = TankState16Msg + MyPointer * i
      /\ p.first = offset /\ p.size = n /\ p.size_of_data = end[n]
  <2>1. p.body = [a \in begins |-> q[holder(a) + 1]]
    BY DEF Layout
  <2>2. \A i \in offset .. n - 1 : end[i] \in begins
    OBVIOUS
  <2> HIDE DEF begins, holder
  <2>3. \A i \in offset .. n - 1 : p.body[end[i]] = q[i + 1]
    BY <1>4, <2>1, <2>2
  <2> QED BY <2>1, <2>3 DEF Layout
<1> HIDE DEF begins, holder
<1>6. {p.body[getPtr(p, i)] : i \in p.first .. p.size - 1} = {p.body[a] : a \in DOMAIN p.body}
  BY <1>5 DEF begins
<1>7. Cardinality(begins) = n - offset
  <2> DEFINE f == [i \in offset .. n - 1 |-> end[i]]
  <2>1. f \in Bijection(offset .. n - 1, begins)
    <3>1. \A i, j \in offset .. n - 1 : end[i] = end[j] => i = j
      BY <1>4
    <3>2. f \in [offset .. n - 1 -> begins]
      BY DEF begins
    <3>3. f \in Injection(offset .. n - 1, begins)
      BY <3>1, <3>2 DEF Injection, IsInjective
    <3>4. f \in Surjection(offset .. n - 1, begins)
      BY <3>2 DEF Surjection, begins
    <3> QED BY <3>3, <3>4 DEF Bijection
  <2>2. IsFiniteSet(offset .. n - 1) /\ Cardinality(offset .. n - 1) = n - offset
    <3> DEFINE m == n - 1
    <3>1. m \in Int /\ offset \in Int /\ ~(offset > m) /\ m - offset + 1 = n - offset
      OBVIOUS
    <3> HIDE DEF m
    <3>2. IsFiniteSet(offset .. m) /\ Cardinality(offset .. m) = n - offset
      BY <3>1, FS_Interval
    <3> QED BY <3>2 DEF m
  <2> HIDE DEF f
  <2>3. ExistsBijection(offset .. n - 1, begins)
    BY <2>1 DEF ExistsBijection
  <2> QED BY <2>2, <2>3, FS_Bijection
<1>8. Apart(p)
  <2> DEFINE bodies == {[from |-> a, to |-> a + p.body[a].size] : a \in DOMAIN p.body}
             pointers == {[from |-> getIndex(p, i), to |-> getIndex(p, i) + MyPointer] :
                            i \in p.first .. p.size - 1}
             parts == bodies \cup pointers \cup {[from |-> 0, to |-> TankState16Msg]}
             Body(a) == \E i \in offset .. n - 1 : a.from = end[i] /\ a.to = end[i + 1]
             Pointer(a) == \E i \in offset .. n - 1 :
                              /\ a.from = TankState16Msg + MyPointer * i
                              /\ a.to = TankState16Msg + MyPointer * i + MyPointer
             Header(a) == a.from = 0 /\ a.to = TankState16Msg
  <2>1. \A i \in offset .. n - 1 : end[i] + p.body[end[i]].size = end[i + 1]
    BY <1>1, <1>5
  <2>2. ASSUME NEW a \in parts
        PROVE  (Body(a) \/ Pointer(a) \/ Header(a)) /\ a = [from |-> a.from, to |-> a.to]
    <3>1. CASE a \in bodies
      <4>1. PICK b \in DOMAIN p.body : a = [from |-> b, to |-> b + p.body[b].size]
        BY <3>1
      <4>2. PICK i \in offset .. n - 1 : b = end[i]
        BY <1>5 DEF begins
      <4>3. a.from = end[i] /\ a.to = end[i + 1]
        BY <2>1, <4>1, <4>2
      <4> QED BY <4>1, <4>3
    <3>2. CASE a \in pointers
      <4>1. PICK i \in offset .. n - 1 : a = [from |-> getIndex(p, i), to |-> getIndex(p, i) + MyPointer]
        BY <1>5, <3>2
      <4> QED BY <1>5, <4>1
    <3>3. CASE a = [from |-> 0, to |-> TankState16Msg]
      BY <3>3
    <3> QED BY <2>2, <3>1, <3>2, <3>3
  <2>3. \E a \in parts : a.to = end[n]
    <3>1. n - 1 \in offset .. n - 1 /\ (n - 1) + 1 = n
      OBVIOUS
    <3>2. end[n - 1] \in DOMAIN p.body
      BY <1>5, <3>1 DEF begins
    <3>3. end[n - 1] + p.body[end[n - 1]].size = end[n]
      BY <2>1, <3>1
    <3> DEFINE a == [from |-> end[n - 1], to |-> end[n - 1] + p.body[end[n - 1]].size]
    <3>4. a \in parts /\ a.to = end[n]
      BY <3>2, <3>3
    <3> QED BY <3>4
  <2>4. TankState16Msg \in Nat /\ end[offset] = TankState16Msg + 4 * n
    BY DEF Layout, TankState16Msg, RoomMsg, BaseMessage, MyArray, MyPointer
  <2>5. \A i \in offset .. n : end[i] \in Nat /\ end[offset] <= end[i] /\ (i < n => end[i + 1] <= end[n])
    <3> TAKE i \in offset .. n
    <3>1. end[i] \in Nat /\ offset \in offset .. n - 1 /\ end[offset] \in Nat /\ n \in offset .. n /\ end[n] \in Nat
      OBVIOUS
    <3>2. offset < i => end[offset] < end[i]
      BY <1>3, <3>1
    <3>3. i < n => end[i + 1] <= end[n]
      <4> HAVE i < n
      <4>1. i \in offset .. n - 1
        OBVIOUS
      <4> QED BY <1>1, <1>3, <3>1, <4>1
    <3> QED BY <3>1, <3>2, <3>3
  <2> HIDE DEF parts
  <2>6. \A a \in parts : a.to <= end[n]
    <3> TAKE a \in parts
    <3>1. end[n] \in Nat /\ end[offset] <= end[n] /\ end[offset] \in Nat
      BY <2>5
    <3>2. CASE Body(a)
      BY <2>5, <3>2
    <3>3. CASE Pointer(a)
      BY <2>4, <3>1, <3>3 DEF MyPointer
    <3>4. CASE Header(a)
      BY <2>4, <3>1, <3>4
    <3> QED BY <2>2, <3>2, <3>3, <3>4
  <2>7. ASSUME NEW a \in parts, NEW b \in parts
        PROVE  a = b \/ a.to <= b.from \/ b.to <= a.from
    <3> DEFINE Before(c, d) == c.to <= d.from
    <3>1. ASSUME NEW c \in parts, NEW d \in parts, Body(c), Body(d)
          PROVE  c = d \/ Before(c, d) \/ Before(d, c)
      <4>1. PICK i \in offset .. n - 1 : c.from = end[i] /\ c.to = end[i + 1]
        BY <3>1
      <4>2. PICK j \in offset .. n - 1 : d.from = end[j] /\ d.to = end[j + 1]
        BY <3>1
      <4>3. CASE i = j
        BY <2>2, <4>1, <4>2, <4>3
      <4>4. CASE i < j
        BY <1>1, <1>3, <4>1, <4>2, <4>4
      <4>5. CASE j < i
        BY <1>1, <1>3, <4>1, <4>2, <4>5
      <4> QED BY <4>3, <4>4, <4>5
    <3>2. ASSUME NEW c \in parts, NEW d \in parts, Pointer(c), Pointer(d)
          PROVE  c = d \/ Before(c, d) \/ Before(d, c)
      <4>1. PICK i \in offset .. n - 1 : c.from = TankState16Msg + 4 * i /\ c.to = TankState16Msg + 4 * i + 4
        BY <3>2 DEF MyPointer
      <4>2. PICK j \in offset .. n - 1 : d.from = TankState16Msg + 4 * j /\ d.to = TankState16Msg + 4 * j + 4
        BY <3>2 DEF MyPointer
      <4>3. CASE i = j
        BY <2>2, <4>1, <4>2, <4>3
      <4>4. CASE i # j
        BY <2>4, <4>1, <4>2, <4>4
      <4> QED BY <4>3, <4>4
    <3>3. ASSUME NEW c \in parts, NEW d \in parts, Pointer(c), Body(d)
          PROVE  Before(c, d)
      <4>1. PICK i \in offset .. n - 1 : c.to = TankState16Msg + 4 * i + 4
        BY <3>3 DEF MyPointer
      <4>2. PICK j \in offset .. n - 1 : d.from = end[j]
        BY <3>3
      <4>3. j \in offset .. n
        OBVIOUS
      <4>4. end[j] \in Nat /\ end[offset] <= end[j]
        BY <2>5, <4>3
      <4> QED BY <2>4, <4>1, <4>2, <4>4
    <3>4. ASSUME NEW c \in parts, NEW d \in parts, Header(c), Body(d) \/ Pointer(d)
          PROVE  Before(c, d)
      <4>1. CASE Body(d)
        <5>1. PICK j \in offset .. n - 1 : d.from = end[j]
          BY <4>1
        <5>2. j \in offset .. n
          OBVIOUS
        <5>3. end[j] \in Nat /\ end[offset] <= end[j]
          BY <2>5, <5>2
        <5> QED BY <2>4, <3>4, <5>1, <5>3
      <4>2. CASE Pointer(d)
        BY <2>4, <3>4, <4>2 DEF MyPointer
      <4> QED BY <3>4, <4>1, <4>2
    <3>5. ASSUME NEW c \in parts, NEW d \in parts, Header(c), Header(d)
          PROVE  c = d
      BY <2>2, <3>5
    <3> HIDE DEF Body, Pointer, Header
    <3> QED BY <2>2, <2>7, <3>1, <3>2, <3>3, <3>4, <3>5
  <2> QED BY <1>5, <2>3, <2>6, <2>7 DEF Apart, parts
<1> QED BY <1>5, <1>6, <1>7, <1>8

(* Every struct of a packet is one of those it was made for.                *)
LEMMA BodyFrom ==
  ASSUME NEW q, NEW offset \in Nat, NEW size \in Nat, Len(q) \in Nat,
         NEW a \in DOMAIN get_array(q, offset, size).body
  PROVE  \E j \in 1 .. Len(q) : get_array(q, offset, size).body[a] = q[j]
<1> DEFINE n == IF Len(q) > offset + size THEN offset + size ELSE Len(q)
           end[i \in offset .. n] ==
             IF i = offset THEN TankState16Msg + MyPointer * Reserved(n, offset)
             ELSE end[i - 1] + q[i].size
           body == get_array(q, offset, size).body
           holder(b) == CHOOSE j \in offset .. n - 1 : end[j] = b
<1>1. body = [b \in {end[i] : i \in offset .. n - 1} |-> q[holder(b) + 1]]
  BY DEF get_array
<1>2. n \in Nat /\ n <= Len(q)
  OBVIOUS
<1> HIDE DEF n, end, body
<1>3. \E j \in offset .. n - 1 : end[j] = a
  BY <1>1 DEF body
<1>4. holder(a) \in offset .. n - 1
  BY <1>3
<1>5. body[a] = q[holder(a) + 1]
  BY <1>1 DEF body
<1> HIDE DEF holder
<1>6. holder(a) + 1 \in 1 .. Len(q)
  BY <1>2, <1>4
<1> QED BY <1>5, <1>6 DEF body

-----------------------------------------------------------------------------
(* What get_data writes of an object of this kind at version v.             *)
Fields(kind, v) == [f \in State[kind] |-> IF f \in Gets[kind] THEN v ELSE Unset]

(* What get_removed_data writes of it.                                      *)
Remains(kind, v) == [f \in State[kind] |-> IF f \in BoardObject_get \cup {"event_type"} THEN v ELSE Unset]

(* s was written by get_data of its object, at one version or another, or   *)
(* by get_removed_data.                                                     *)
Written(s) ==
  /\ s.obj \in Objects /\ s.kind = board[s.obj].kind
  /\ s.event \in {"state", "remove"} /\ (s.event = "remove" => InGame(s.obj))
  /\ \E v \in 0 .. board[s.obj].version :
       s.data = IF s.event = "state" THEN Fields(s.kind, v) ELSE Remains(s.kind, v)

IsCopy(copy) ==
  \/ copy = None
  \/ copy = [time |-> copy.time, kind |-> copy.kind, removed |-> copy.removed, data |-> copy.data]

BoardTypeOK ==
  /\ \E n \in Nat : Objects = 1 .. n
  /\ board \in [Objects -> [kind : Kinds, version : Nat, removed : BOOLEAN]]
  /\ copies = [o \in Objects |-> copies[o]]
  /\ \A o \in Objects : IsCopy(copies[o])

PacketsWritten ==
  \A p \in packets :
    /\ p.type \in {"states", "action"}
    /\ p.type = "action" => Written(p.body) /\ p.body.event = "state"
    /\ p.type = "states" => \A a \in DOMAIN p.body : Written(p.body[a])

PacketsInv == BoardTypeOK /\ PacketsWritten /\ CopiesAreWhole

(* A room begins with no packet and no copy that anything was read into.    *)
LEMMA PacketsInit == InitPackets => PacketsInv
<1> SUFFICES ASSUME InitPackets PROVE PacketsInv
  OBVIOUS
<1>1. PICK made \in Boards :
        board = [o \in DOMAIN (Walls(FALSE) \o made) |->
                   [kind |-> (Walls(FALSE) \o made)[o], version |-> 0, removed |-> FALSE]]
  BY DEF InitPackets
<1>2. made \in Seq(Kinds)
  BY PacketsAssumption DEF PacketsAssumption, Kinds
<1>3. Walls(FALSE) \o made = made
  BY <1>2, ConcatEmptySeq DEF Walls
<1>4. board = [o \in 1 .. Len(made) |-> [kind |-> made[o], version |-> 0, removed |-> FALSE]]
  <2> DEFINE kinds == Walls(FALSE) \o made
  <2>1. board = [o \in DOMAIN kinds |-> [kind |-> kinds[o], version |-> 0, removed |-> FALSE]]
    BY <1>1
  <2>2. kinds = made
    BY <1>3
  <2> HIDE DEF kinds
  <2>3. DOMAIN made = 1 .. Len(made)
    BY <1>2
  <2> QED BY <2>1, <2>2, <2>3
<1>5. BoardTypeOK
  <2>1. Len(made) \in Nat /\ \A o \in 1 .. Len(made) : made[o] \in Kinds
    BY <1>2
  <2>2. copies = [o \in Objects |-> copies[o]] /\ \A o \in Objects : IsCopy(copies[o])
    BY DEF InitPackets, IsCopy
  <2> QED BY <1>4, <2>1, <2>2 DEF BoardTypeOK, Objects
<1>6. PacketsWritten /\ CopiesAreWhole
  BY DEF InitPackets, PacketsWritten, CopiesAreWhole
<1> QED BY <1>5, <1>6 DEF PacketsInv

(* An object is written from its present version.                           *)
LEMMA DueIsWritten ==
  ASSUME BoardTypeOK, NEW o \in Objects
  PROVE  /\ Written(get_data(o)) /\ get_data(o).event = "state"
         /\ InGame(o) => Written(Due(o))
<1>1. board[o].version \in 0 .. board[o].version /\ board[o].version \in Nat
  BY DEF BoardTypeOK
<1>2. Written(get_data(o)) /\ get_data(o).event = "state"
  BY <1>1 DEF get_data, Block, Written, Fields
<1>3. InGame(o) => Written(get_removed_data(o))
  BY <1>1 DEF get_removed_data, Block, Written, Remains
<1> QED BY <1>2, <1>3 DEF Due

(* What was written stays so: objects keep their kinds and their versions   *)
(* grow.                                                                    *)
LEMMA WrittenStays ==
  ASSUME NEW s, Written(s), Objects' = Objects,
         \A o \in Objects : /\ board'[o].kind = board[o].kind
                            /\ board[o].version \in Nat /\ board'[o].version \in Nat
                            /\ board[o].version <= board'[o].version
  PROVE  Written(s)'
<1>1. s.obj \in Objects' /\ s.kind = board'[s.obj].kind /\ (s.event = "remove" => InGame(s.obj)')
  BY DEF Written, InGame
<1>2. PICK v \in 0 .. board[s.obj].version :
        s.data = IF s.event = "state" THEN Fields(s.kind, v) ELSE Remains(s.kind, v)
  BY DEF Written
<1>3. v \in 0 .. board'[s.obj].version
  BY <1>1
<1>4. s.data = IF s.event = "state" THEN Fields(s.kind, v)' ELSE Remains(s.kind, v)'
  BY <1>2 DEF Fields, Remains
<1>5. s.event \in {"state", "remove"}
  BY DEF Written
<1> HIDE DEF Objects
<1> QED BY <1>1, <1>3, <1>4, <1>5 DEF Written, Fields, Remains

(* What SendStates sends: a packet of some of the due objects.              *)
Packed(p, q, offset) ==
  /\ Len(q) \in Nat /\ offset < Len(q) /\ p = get_array(q, offset, Batch)
  /\ \A i \in 1 .. Len(q) : \E o \in Objects : InGame(o) /\ q[i] = Due(o)

LEMMA PackedFrom ==
  ASSUME BoardTypeOK, NEW due \in SUBSET {o \in Objects : InGame(o)}, NEW p \in Pack(due)
  PROVE  \E q : \E offset \in Nat : Packed(p, q, offset)
<1> DEFINE place(i) == CHOOSE o \in due : Cardinality({other \in due : other < o}) = i - 1
           forSend == [i \in 1 .. Cardinality(due) |-> Due(place(i))]
<1>1. due \in SUBSET Nat /\ IsFiniteSet(due)
  <2>1. PICK n \in Nat : Objects = 1 .. n
    BY DEF BoardTypeOK
  <2>2. IsFiniteSet(1 .. n)
    BY FS_Interval
  <2>3. due \in SUBSET (1 .. n)
    BY <2>1
  <2>4. IsFiniteSet(due)
    BY <2>2, <2>3, FS_Subset
  <2> QED BY <2>3, <2>4
<1>2. Cardinality(due) \in Nat
  BY <1>1, FS_CardinalityType
<1>3. \A i \in 1 .. Cardinality(due) : place(i) \in due
  <2> TAKE i \in 1 .. Cardinality(due)
  <2>1. i - 1 \in 0 .. (Cardinality(due) - 1)
    BY <1>2
  <2>2. \E o \in due : Cardinality({other \in due : other < o}) = i - 1
    BY <1>1, <2>1, Placed
  <2> QED BY <2>2
<1>4. \E offset \in 0 .. Len(forSend) - 1 : p = get_array(forSend, offset, Batch)
  BY DEF Pack
<1> HIDE DEF place
<1>5. Len(forSend) = Cardinality(due)
  BY <1>2
<1>6. \A i \in 1 .. Cardinality(due) :
        forSend[i] = Due(place(i)) /\ place(i) \in Objects /\ InGame(place(i))
  BY <1>3
<1> HIDE DEF forSend
<1>7. PICK offset \in 0 .. Len(forSend) - 1 : p = get_array(forSend, offset, Batch)
  BY <1>4
<1>8. offset \in Nat /\ offset < Len(forSend) /\ Len(forSend) \in Nat
  BY <1>2, <1>5, <1>7
<1>9. \A i \in 1 .. Len(forSend) : \E o \in Objects : InGame(o) /\ forSend[i] = Due(o)
  BY <1>5, <1>6
<1>10. Packed(p, forSend, offset)
  BY <1>7, <1>8, <1>9 DEF Packed
<1> QED BY <1>8, <1>10

(* A change of the game leaves packets and copies alone.                    *)
LEMMA AlterKeeps ==
  ASSUME PacketsInv, NEW o \in Objects, Alter(o) \/ Die(o)
  PROVE  PacketsInv'
<1>1. UNCHANGED <<packets, copies>>
  BY DEF Alter, Die
<1>2. \/ board' = [board EXCEPT ![o].version = @ + 1]
      \/ board' = [board EXCEPT ![o].removed = TRUE]
  BY DEF Alter, Die
<1>3. board \in [Objects -> [kind : Kinds, version : Nat, removed : BOOLEAN]]
  BY DEF PacketsInv, BoardTypeOK
<1>4. /\ board' \in [Objects -> [kind : Kinds, version : Nat, removed : BOOLEAN]]
      /\ Objects' = Objects
      /\ \A q \in Objects : /\ board'[q].kind = board[q].kind
                            /\ board[q].version \in Nat /\ board'[q].version \in Nat
                            /\ board[q].version <= board'[q].version
  <2>1. CASE board' = [board EXCEPT ![o].version = @ + 1]
    <3>1. board' = [board EXCEPT ![o] = [board[o] EXCEPT !.version = board[o].version + 1]]
      BY <2>1
    <3>2. [board[o] EXCEPT !.version = board[o].version + 1] \in [kind : Kinds, version : Nat, removed : BOOLEAN]
      BY <1>3
    <3>3. board' \in [Objects -> [kind : Kinds, version : Nat, removed : BOOLEAN]]
      BY <1>3, <3>1, <3>2
    <3>4. \A q \in Objects : q # o => board'[q] = board[q]
      BY <1>3, <3>1
    <3>5. board'[o].kind = board[o].kind /\ board'[o].version = board[o].version + 1
      BY <1>3, <3>1
    <3>6. \A q \in Objects : board[q].version \in Nat
      BY <1>3
    <3>7. Objects' = Objects
      BY <3>3 DEF Objects
    <3>8. \A q \in Objects : board'[q].kind = board[q].kind /\ board'[q].version \in Nat
                           /\ board[q].version <= board'[q].version
      BY <3>4, <3>5, <3>6
    <3> QED BY <3>3, <3>6, <3>7, <3>8
  <2>2. CASE board' = [board EXCEPT ![o].removed = TRUE]
    <3>1. board' = [board EXCEPT ![o] = [board[o] EXCEPT !.removed = TRUE]]
      BY <2>2
    <3>2. [board[o] EXCEPT !.removed = TRUE] \in [kind : Kinds, version : Nat, removed : BOOLEAN]
      BY <1>3
    <3>3. board' \in [Objects -> [kind : Kinds, version : Nat, removed : BOOLEAN]]
      BY <1>3, <3>1, <3>2
    <3>4. \A q \in Objects : q # o => board'[q] = board[q]
      BY <1>3, <3>1
    <3>5. board'[o].kind = board[o].kind /\ board'[o].version = board[o].version
      BY <1>3, <3>1
    <3>6. \A q \in Objects : board[q].version \in Nat
      BY <1>3
    <3>7. Objects' = Objects
      BY <3>3 DEF Objects
    <3>8. \A q \in Objects : board'[q].kind = board[q].kind /\ board'[q].version \in Nat
                           /\ board[q].version <= board'[q].version
      BY <3>4, <3>5, <3>6
    <3> QED BY <3>3, <3>6, <3>7, <3>8
  <2> QED BY <1>2, <2>1, <2>2
<1>5. BoardTypeOK'
  BY <1>1, <1>4 DEF PacketsInv, BoardTypeOK
<1>6. PacketsWritten'
  BY <1>1, <1>4, WrittenStays DEF PacketsInv, PacketsWritten
<1>7. CopiesAreWhole'
  <2> SUFFICES ASSUME NEW q \in Objects, copies[q] # None
               PROVE  ReadWhole(q, copies[q])'
    BY <1>1, <1>4 DEF CopiesAreWhole, None
  <2>1. PICK v \in 0 .. board[q].version :
          \/ copies[q].data = [f \in Sets[board[q].kind] |-> v]
          \/ copies[q].removed /\ \A f \in BoardObject_set : copies[q].data[f] = v
    BY DEF PacketsInv, CopiesAreWhole, ReadWhole
  <2>2. v \in 0 .. board'[q].version /\ board'[q].kind = board[q].kind
    BY <1>4
  <2> QED BY <1>1, <2>1, <2>2 DEF ReadWhole
<1> QED BY <1>5, <1>6, <1>7 DEF PacketsInv

(* What is sent was written now, from the objects as they are.              *)
LEMMA SendKeeps ==
  ASSUME PacketsInv, SendStates \/ (\E o \in Objects : SendReply(o))
  PROVE  PacketsInv'
<1>1. UNCHANGED <<board, copies>> /\ Objects' = Objects
  BY DEF SendStates, SendReply, Objects
<1>2. BoardTypeOK' /\ CopiesAreWhole'
  BY <1>1 DEF PacketsInv, BoardTypeOK, CopiesAreWhole, ReadWhole, IsCopy
<1>3. ASSUME NEW p, Written(p) PROVE Written(p)'
  BY <1>1, <1>3 DEF Written, Fields, Remains, InGame
<1>4. ASSUME NEW p \in packets' \ packets
      PROVE  /\ p.type \in {"states", "action"}
             /\ p.type = "action" => Written(p.body) /\ p.body.event = "state"
             /\ p.type = "states" => \A a \in DOMAIN p.body : Written(p.body[a])
  <2>1. CASE \E o \in Objects : SendReply(o)
    <3>1. PICK o \in Objects : p = Reply(o)
      BY <2>1, <1>4 DEF SendReply
    <3>2. p.type = "action" /\ p.body = get_data(o)
      BY <3>1 DEF Reply
    <3> QED BY <3>2, DueIsWritten DEF PacketsInv
  <2>2. CASE SendStates
    <3>1. PICK due \in SUBSET {o \in Objects : InGame(o)} : p \in Pack(due)
      BY <2>2, <1>4 DEF SendStates
    <3>2. PICK q : \E offset \in Nat : Packed(p, q, offset)
      BY <3>1, PackedFrom DEF PacketsInv
    <3>3. PICK offset \in Nat : Packed(p, q, offset)
      BY <3>2
    <3>4. /\ Len(q) \in Nat /\ p = get_array(q, offset, Batch)
          /\ \A i \in 1 .. Len(q) : \E o \in Objects : InGame(o) /\ q[i] = Due(o)
      BY <3>3 DEF Packed
    <3>5. p.type = "states"
      BY <3>4 DEF get_array
    <3>6. \A a \in DOMAIN p.body : \E j \in 1 .. Len(q) : p.body[a] = q[j]
      <4>1. Batch \in Nat
        BY PacketsAssumption DEF PacketsAssumption
      <4> QED BY <3>4, <4>1, BodyFrom
    <3>7. \A i \in 1 .. Len(q) : Written(q[i])
      BY <3>4, DueIsWritten DEF PacketsInv
    <3> QED BY <3>5, <3>6, <3>7
  <2>3. packets' \subseteq packets \/ SendStates \/ \E o \in Objects : SendReply(o)
    OBVIOUS
  <2> QED BY <2>1, <2>2
<1>5. PacketsWritten'
  BY <1>3, <1>4 DEF PacketsInv, PacketsWritten
<1> QED BY <1>2, <1>5 DEF PacketsInv

(* What is read of a struct that was written is whole, or it is a removal.  *)
LEMMA WholeCopy ==
  ASSUME BoardTypeOK, NEW s, Written(s), NEW copy, ~Overtaken(copy, s),
         s.event = "remove" => copy.removed
  PROVE  ReadWhole(s.obj, set_data(copy, s))
<1>1. PICK v \in 0 .. board[s.obj].version :
        s.data = IF s.event = "state" THEN Fields(s.kind, v) ELSE Remains(s.kind, v)
  BY DEF Written
<1>2. s.kind = board[s.obj].kind /\ s.kind \in Kinds /\ s.event \in {"state", "remove"}
  BY DEF Written, BoardTypeOK
<1>3. /\ set_data(copy, s).data = [f \in Sets[s.kind] |-> s.data[f]]
      /\ set_data(copy, s).removed = copy.removed
  BY DEF set_data
<1>4. CASE s.event = "state"
  <2>1. \A f \in Sets[s.kind] : s.data[f] = v
    BY <1>1, <1>2, <1>4, ReadsWhatIsWritten DEF Fields
  <2> QED BY <1>2, <1>3, <2>1 DEF ReadWhole
<1>5. CASE s.event = "remove"
  <2>1. s.kind \in {"tank", "misle"}
    BY <1>2, <1>5 DEF Written, InGame, Inputs, Kinds
  <2>2. /\ BoardObject_set \subseteq Sets[s.kind] /\ BoardObject_set \subseteq State[s.kind]
        /\ BoardObject_set \subseteq BoardObject_get
    BY <2>1 DEF Sets, State, Tank_set, Unit_set, Live_set, Misle_set, BoardObject_set, BoardObject_get,
                TankState, MisleState, UnitState, LiveBoardObjectState, BoardObjectState
  <2>3. s.data = Remains(s.kind, v)
    BY <1>1, <1>5
  <2>4. \A f \in BoardObject_set : s.data[f] = v
    BY <2>2, <2>3 DEF Remains
  <2>5. \A f \in BoardObject_set : set_data(copy, s).data[f] = v
    BY <1>3, <2>2, <2>4
  <2> QED BY <1>3, <1>5, <2>5 DEF ReadWhole
<1> QED BY <1>2, <1>4, <1>5

(* What set_data returns is a copy, of the one it was given or of s.        *)
LEMMA SetData ==
  ASSUME NEW s, NEW copy, IsCopy(copy)
  PROVE  /\ Overtaken(copy, s) => set_data(copy, s) = copy
         /\ IsCopy(set_data(copy, s))
<1>1. CASE Overtaken(copy, s)
  BY <1>1 DEF set_data
<1>2. CASE ~Overtaken(copy, s)
  <2>1. set_data(copy, s) = [time |-> s.time, kind |-> s.kind, removed |-> copy.removed,
                             data |-> [f \in Sets[s.kind] |-> s.data[f]]]
    BY <1>2 DEF set_data
  <2> QED BY <1>2, <2>1 DEF IsCopy
<1> QED BY <1>1, <1>2

(* One copy is replaced by another.                                         *)
LEMMA CopyKeeps ==
  ASSUME PacketsInv, NEW o \in Objects, NEW new, IsCopy(new),
         copies' = [copies EXCEPT ![o] = new],
         UNCHANGED <<board, packets>>,
         new = None \/ ReadWhole(o, new)
  PROVE  PacketsInv'
<1>1. Objects' = Objects
  BY DEF Objects
<1>2. copies = [q \in Objects |-> copies[q]]
  BY DEF PacketsInv, BoardTypeOK
<1>5. \A q \in Objects : copies'[q] = IF q = o THEN new ELSE copies[q]
  BY <1>2
<1>3. BoardTypeOK'
  BY <1>1, <1>2, <1>5 DEF PacketsInv, BoardTypeOK, IsCopy
<1>4. PacketsWritten'
  BY <1>1 DEF PacketsInv, PacketsWritten, Written, Fields, Remains, InGame
<1>6. CopiesAreWhole'
  <2> SUFFICES ASSUME NEW q \in Objects, copies'[q] # None
               PROVE  ReadWhole(q, copies'[q])
    BY <1>1 DEF CopiesAreWhole, ReadWhole, None
  <2>1. copies[q] # None => ReadWhole(q, copies[q])
    BY DEF PacketsInv, CopiesAreWhole
  <2> QED BY <1>5, <2>1
<1> QED BY <1>3, <1>4, <1>6 DEF PacketsInv

(* What is delivered was written, so the copy that reads it is whole.       *)
LEMMA DeliverKeeps ==
  ASSUME PacketsInv, NEW p \in packets, DeliverStates(p) \/ DeliverReply(p)
  PROVE  PacketsInv'
<1>0. UNCHANGED <<board, packets>> /\ IsCopy(None)
  BY DEF DeliverStates, DeliverReply, IsCopy
<1>1. CASE DeliverReply(p)
  <2> DEFINE s == p.body
  <2>1. /\ Written(s) /\ s.event = "state" /\ s.obj \in Objects
        /\ copies' = [copies EXCEPT ![s.obj] = set_data(None, s)]
    BY <1>1 DEF DeliverReply, PacketsInv, PacketsWritten, Written
  <2> HIDE DEF s
  <2>2. IsCopy(set_data(None, s)) /\ (Overtaken(None, s) => set_data(None, s) = None)
    BY <1>0, SetData
  <2>3. ~Overtaken(None, s) => ReadWhole(s.obj, set_data(None, s))
    BY <2>1, WholeCopy DEF PacketsInv
  <2> QED BY <1>0, <2>1, <2>2, <2>3, CopyKeeps
<1>2. CASE DeliverStates(p)
  <2>1. PICK i \in p.first .. p.size - 1 :
          getPtr(p, i) \in DOMAIN p.body /\ Receive(p.body[getPtr(p, i)])
    BY <1>2 DEF DeliverStates
  <2> DEFINE s == p.body[getPtr(p, i)]
             old == copies[s.obj]
             ended == [old EXCEPT !.removed = TRUE]
  <2>2. Written(s) /\ s.obj \in Objects /\ Receive(s)
    BY <1>2, <2>1 DEF DeliverStates, PacketsInv, PacketsWritten, Written
  <2>3. IsCopy(old) /\ (old # None => ReadWhole(s.obj, old))
    BY <2>2 DEF PacketsInv, BoardTypeOK, CopiesAreWhole
  <2>4. s.event \in {"state", "remove"}
    BY <2>2 DEF Written
  <2> HIDE DEF s
  <2>5. \/ old = None /\ copies' = [copies EXCEPT ![s.obj] = None]
        \/ old = None /\ s.event # "remove" /\ copies' = [copies EXCEPT ![s.obj] = set_data(None, s)]
        \/ old # None /\ s.event # "remove" /\ copies' = [copies EXCEPT ![s.obj] = set_data(old, s)]
        \/ old # None /\ s.event = "remove" /\ copies' = [copies EXCEPT ![s.obj] = set_data(ended, s)]
    BY <2>2 DEF Receive
  <2>6. old # None => /\ ended = [time |-> old.time, kind |-> old.kind, removed |-> TRUE, data |-> old.data]
                      /\ IsCopy(ended) /\ ended.removed /\ ReadWhole(s.obj, ended)
    <3>1. SUFFICES ASSUME old # None
                   PROVE  /\ ended = [time |-> old.time, kind |-> old.kind, removed |-> TRUE, data |-> old.data]
                          /\ IsCopy(ended) /\ ended.removed /\ ReadWhole(s.obj, ended)
      OBVIOUS
    <3>2. old = [time |-> old.time, kind |-> old.kind, removed |-> old.removed, data |-> old.data]
      BY <2>3, <3>1 DEF IsCopy
    <3> HIDE DEF old
    <3>6. ended = [old EXCEPT !.removed = TRUE]
      OBVIOUS
    <3> HIDE DEF ended
    <3>3. ended = [time |-> old.time, kind |-> old.kind, removed |-> TRUE, data |-> old.data]
      BY <3>2, <3>6
    <3>4. IsCopy(ended) /\ ended.removed /\ ended.data = old.data
      BY <3>3 DEF IsCopy
    <3>5. ReadWhole(s.obj, ended)
      BY <2>3, <3>1, <3>4 DEF ReadWhole
    <3> QED BY <3>3, <3>4, <3>5
  <2> HIDE DEF old, ended
  <2>7. CASE old = None /\ copies' = [copies EXCEPT ![s.obj] = None]
    BY <1>0, <2>2, <2>7, CopyKeeps
  <2>8. ASSUME NEW copy, IsCopy(copy), copy = None \/ ReadWhole(s.obj, copy), s.event = "remove" => copy.removed,
               copies' = [copies EXCEPT ![s.obj] = set_data(copy, s)]
        PROVE  PacketsInv'
    <3>1. IsCopy(set_data(copy, s)) /\ (Overtaken(copy, s) => set_data(copy, s) = copy)
      BY <2>8, SetData
    <3>2. ~Overtaken(copy, s) => ReadWhole(s.obj, set_data(copy, s))
      BY <2>2, <2>8, WholeCopy DEF PacketsInv
    <3> QED BY <1>0, <2>2, <2>8, <3>1, <3>2, CopyKeeps
  <2> QED BY <1>0, <2>3, <2>5, <2>6, <2>7, <2>8
<1> QED BY <1>1, <1>2

(* The other side's update makes no copy.                                   *)
LEMMA EraseKeeps ==
  ASSUME PacketsInv, Erase
  PROVE  PacketsInv'
<1>1. /\ UNCHANGED <<board, packets>> /\ Objects' = Objects
      /\ copies' = [o \in Objects |-> IF copies[o].removed THEN None ELSE copies[o]]
  BY DEF Erase, Objects
<1>2. \A o \in Objects : copies'[o] = None \/ copies'[o] = copies[o]
  BY <1>1
<1>3. BoardTypeOK'
  BY <1>1, <1>2 DEF PacketsInv, BoardTypeOK, IsCopy
<1>4. PacketsWritten'
  BY <1>1 DEF PacketsInv, PacketsWritten, Written, Fields, Remains, InGame
<1>5. CopiesAreWhole'
  BY <1>1, <1>2 DEF PacketsInv, CopiesAreWhole, ReadWhole, None
<1> QED BY <1>3, <1>4, <1>5 DEF PacketsInv

(* Every step keeps the invariant.                                          *)
LEMMA PacketsStep ==
  ASSUME PacketsInv, [NextPackets]_packetVars
  PROVE  PacketsInv'
<1>1. CASE UNCHANGED packetVars
  <2>1. UNCHANGED <<board, packets, copies>> /\ Objects' = Objects
    BY <1>1 DEF packetVars, Objects
  <2>2. BoardTypeOK' /\ CopiesAreWhole'
    BY <2>1 DEF PacketsInv, BoardTypeOK, CopiesAreWhole, ReadWhole, IsCopy, None
  <2>3. PacketsWritten'
    BY <2>1 DEF PacketsInv, PacketsWritten, Written, Fields, Remains, InGame
  <2> QED BY <2>2, <2>3 DEF PacketsInv
<1> QED BY <1>1, AlterKeeps, SendKeeps, DeliverKeeps, EraseKeeps DEF NextPackets

(* No class reads a field that its counterpart does not write, whatever the *)
(* kinds of the objects, the sizes of the packets and their order.          *)
THEOREM CopiesStayWhole == InitPackets /\ [][NextPackets]_packetVars => []CopiesAreWhole
<1>1. PacketsInv => CopiesAreWhole
  BY DEF PacketsInv
<1> QED BY <1>1, PacketsInit, PacketsStep, PTL

-----------------------------------------------------------------------------
AtItsIndex(p) ==
  IF p.type = "action" THEN p.size_of_data = p.start_states + p.body.size
  ELSE /\ Apart(p)
       /\ {p.body[getPtr(p, i)] : i \in p.first .. p.size - 1} = {p.body[a] : a \in DOMAIN p.body}
       /\ p.size - p.first = Cardinality(DOMAIN p.body) /\ p.size - p.first \in 1 .. Batch

LEMMA DueSize ==
  ASSUME BoardTypeOK, NEW o \in Objects
  PROVE  Due(o).size \in Nat \ {0}
<1>1. board[o].kind \in DOMAIN State /\ "tank" \in DOMAIN State
  BY KindsAre DEF BoardTypeOK, Kinds
<1>2. Due(o).size = SizeOf[board[o].kind] \/ Due(o).size = SizeOf["tank"]
  BY DEF Due, get_data, get_removed_data, Block
<1> QED BY <1>1, <1>2, SizesArePositive

LEMMA SentAtItsIndex ==
  ASSUME PacketsInv, [NextPackets]_packetVars, NEW p \in packets' \ packets
  PROVE  AtItsIndex(p)
<1>1. CASE \E o \in Objects : SendReply(o)
  <2>1. PICK o \in Objects : p = Reply(o)
    BY <1>1 DEF SendReply
  <2> QED BY <2>1 DEF Reply, AtItsIndex
<1>2. CASE SendStates
  <2>1. PICK due \in SUBSET {o \in Objects : InGame(o)} : p \in Pack(due)
    BY <1>2 DEF SendStates
  <2>2. PICK q : \E offset \in Nat : Packed(p, q, offset)
    BY <2>1, PackedFrom DEF PacketsInv
  <2>3. PICK offset \in Nat : Packed(p, q, offset)
    BY <2>2
  <2>4. /\ Len(q) \in Nat /\ offset < Len(q) /\ p = get_array(q, offset, Batch)
        /\ \A i \in 1 .. Len(q) : \E o \in Objects : q[i] = Due(o)
    BY <2>3 DEF Packed
  <2>5. \A i \in 1 .. Len(q) : q[i].size \in Nat \ {0}
    BY <2>4, DueSize DEF PacketsInv
  <2> DEFINE n == IF Len(q) > offset + Batch THEN offset + Batch ELSE Len(q)
  <2>6. Batch \in Nat \ {0}
    BY PacketsAssumption DEF PacketsAssumption
  <2>7. n \in Nat /\ offset < n /\ n <= Len(q) /\ n - offset \in 1 .. Batch
    BY <2>4, <2>6
  <2>8. p.type = "states" /\ \E end \in [offset .. n -> Nat] : Layout(p, q, offset, n, end)
    BY <2>4, <2>5, <2>6, Laid
  <2> HIDE DEF n
  <2>9. PICK end \in [offset .. n -> Nat] : Layout(p, q, offset, n, end)
    BY <2>8
  <2>10. \A i \in offset .. n - 1 : q[i + 1].size \in Nat \ {0}
    <3>1. \A i \in offset .. n - 1 : i + 1 \in 1 .. Len(q)
      BY <2>4, <2>7
    <3> QED BY <2>5, <3>1
  <2>11. /\ Apart(p)
        /\ {p.body[getPtr(p, i)] : i \in p.first .. p.size - 1} = {p.body[a] : a \in DOMAIN p.body}
        /\ p.size - p.first = Cardinality(DOMAIN p.body)
    BY <2>7, <2>9, <2>10, LaidApart
  <2>12. p.size - p.first = n - offset
    BY <2>9 DEF Layout
  <2> QED BY <2>7, <2>8, <2>11, <2>12 DEF AtItsIndex
<1>3. packets' = packets \/ SendStates \/ \E o \in Objects : SendReply(o)
  BY DEF NextPackets, packetVars, Alter, Die, Erase, DeliverStates, DeliverReply
<1> QED BY <1>1, <1>2, <1>3

(* The pointers of every packet lead to its structs, which do not overlap,  *)
(* for rooms and packets of any size and structs of any fields: MyArray::   *)
(* init and get_array agree on where they lie.                              *)
THEOREM StructsAreFound == InitPackets /\ [][NextPackets]_packetVars => []EachAtItsIndex
<1>1. InitPackets => EachAtItsIndex
  BY DEF InitPackets, EachAtItsIndex
<1>2. ASSUME PacketsInv, EachAtItsIndex, [NextPackets]_packetVars PROVE EachAtItsIndex'
  <2>1. \A p \in packets : AtItsIndex(p)
    BY <1>2 DEF EachAtItsIndex, AtItsIndex
  <2>2. \A p \in packets' : AtItsIndex(p)
    BY <1>2, <2>1, SentAtItsIndex
  <2> QED BY <2>2 DEF EachAtItsIndex, AtItsIndex
<1> QED BY <1>1, <1>2, PacketsInit, PacketsStep, PTL

-----------------------------------------------------------------------------
(* The patrol.                                                              *)
USE PatrolAssumption DEF PatrolAssumption

Point == course[currentTargetIndex]

(* The tank has one input at a time, which runs in the next step.           *)
OneOrder ==
  /\ step = 0 => orders = {} /\ speed = 0
  /\ step > 0 => \E angle \in {1, -1} :
       /\ orders = {[trigger_step |-> step, angle |-> angle, speed |-> 1000]}
       /\ taken > 0 => angle = Towards(pos, Point)

(* From the second step on it comes nearer by its speed in each, and in the *)
(* first it still may go the other way.                                     *)
Nearer ==
  /\ taken = 0 => distance = Away(pos, Point)
  /\ taken > 0 => Away(pos, Point) <= distance - MaxSpeed * (taken - 2)

PatrolInv ==
  /\ course \in Courses /\ currentTargetIndex \in 1 .. Len(course)
  /\ step \in Nat /\ my_step = step
  /\ pos \in -Edge .. Edge /\ target_angle \in {1, -1} /\ speed \in Int
  /\ taken \in Nat /\ distance \in Nat /\ (step = 0 => taken = 0)
  /\ OneOrder
  /\ Nearer

(* Squares of numbers are in their order.                                   *)
LEMMA SquareGrows ==
  ASSUME NEW a \in Nat, NEW b \in Nat, a <= b
  PROVE  a * a <= b * b
OBVIOUS

(* What fits MaxSpeed times is at most the quotient.                        *)
LEMMA QuotientBound ==
  ASSUME NEW d \in Nat, NEW q \in Int, MaxSpeed * q <= d
  PROVE  q <= d \div MaxSpeed
OBVIOUS

(* The tank stands still and has no input yet.                              *)
LEMMA PatrolInit == InitPatrol => PatrolInv
<1> SUFFICES ASSUME InitPatrol PROVE PatrolInv
  OBVIOUS
<1>1. course \in Seq(Int) /\ course # <<>> /\ Len(course) \in Nat \ {0}
  BY DEF InitPatrol
<1>2. course[1] \in Int /\ pos \in -Edge .. Edge
  BY <1>1 DEF InitPatrol
<1> QED BY <1>1, <1>2 DEF InitPatrol, PatrolInv, OneOrder, Nearer, Point, Away

(* And those of different numbers differ.                                   *)
LEMMA SquareGrowsStrictly ==
  ASSUME NEW a \in Nat, NEW b \in Nat, a < b
  PROVE  a * a < b * b
<1>1. a * a <= a * b /\ a * b <= b * b /\ (b > 0 => a * b < b * b)
  OBVIOUS
<1>2. a * a \in Int /\ a * b \in Int /\ b * b \in Int
  OBVIOUS
<1> QED BY <1>1, <1>2

(* The point the tank drives to is on the map.                              *)
LEMMA PointIn ==
  ASSUME PatrolInv
  PROVE  /\ pos \in -Edge .. Edge /\ Point \in Int /\ Away(pos, Point) \in Nat
         /\ \A p \in {Point, -Point} :
              p <= Edge \/ (p - Edge + MaxSpeed) * (p - Edge + MaxSpeed) <= Reach2
<1>1. course \in Courses /\ course \in Seq(Int) /\ currentTargetIndex \in DOMAIN course
  BY DEF PatrolInv
<1>2. pos \in -Edge .. Edge
  BY DEF PatrolInv
<1>3. Point \in Int
  BY <1>1 DEF Point
<1> QED BY <1>1, <1>2, <1>3 DEF Point, Away

(* A tank that is not near its point has room ahead.                        *)
LEMMA RoomAhead ==
  ASSUME PatrolInv, ~Reached
  PROVE  /\ Away(pos, Point) > MaxSpeed
         /\ Point > pos => pos + MaxSpeed <= Edge
         /\ Point < pos => pos - MaxSpeed >= -Edge
<1> DEFINE d == Away(pos, Point)
<1>1. /\ pos \in -Edge .. Edge /\ Point \in Int /\ d \in Nat
      /\ \A p \in {Point, -Point} :
           p <= Edge \/ (p - Edge + MaxSpeed) * (p - Edge + MaxSpeed) <= Reach2
  BY PointIn
<1>2. d * d >= Reach2
  BY <1>1 DEF Reached, Point
<1>3. d > MaxSpeed
  <2>1. d <= MaxSpeed => d * d <= MaxSpeed * MaxSpeed
    BY <1>1, SquareGrows
  <2>2. d * d \in Int /\ MaxSpeed * MaxSpeed \in Int
    BY <1>1
  <2> HIDE DEF d
  <2> QED BY <1>1, <1>2, <2>1, <2>2
<1>4. ASSUME NEW x \in Nat, x * x <= Reach2 PROVE x <= d
  <2>1. d < x => d * d < x * x
    BY <1>1, SquareGrowsStrictly
  <2>2. d * d \in Int /\ x * x \in Int
    BY <1>1
  <2> HIDE DEF d
  <2> QED BY <1>1, <1>2, <1>4, <2>1, <2>2
<1>5. ASSUME NEW p \in {Point, -Point}, p > Edge PROVE p - Edge + MaxSpeed <= d
  <2> DEFINE x == p - Edge + MaxSpeed
  <2>1. x \in Nat /\ x * x <= Reach2
    BY <1>1, <1>5
  <2> HIDE DEF x
  <2>2. x <= d
    BY <1>4, <2>1
  <2> QED BY <2>2 DEF x
<1>6. Point > pos => pos + MaxSpeed <= Edge
  <2> SUFFICES ASSUME Point > pos, pos + MaxSpeed > Edge PROVE FALSE
    BY <1>1
  <2>1. d = Point - pos
    BY <1>1 DEF Away
  <2>2. Point > Edge
    BY <1>1, <1>3, <2>1
  <2>3. Point - Edge + MaxSpeed <= d
    BY <1>5, <2>2
  <2> QED BY <1>1, <2>1, <2>3
<1>7. Point < pos => pos - MaxSpeed >= -Edge
  <2> SUFFICES ASSUME Point < pos, pos - MaxSpeed < -Edge PROVE FALSE
    BY <1>1
  <2>1. d = pos - Point
    BY <1>1 DEF Away
  <2>2. -Point > Edge
    BY <1>1, <1>3, <2>1
  <2>3. -Point - Edge + MaxSpeed <= d
    BY <1>5, <2>2
  <2> QED BY <1>1, <2>1, <2>3
<1> QED BY <1>3, <1>6, <1>7

(* One step at full speed of a tank that is not near its point.             *)
LEMMA OneMove ==
  ASSUME PatrolInv, ~Reached, NEW angle \in {1, -1}, NEW next \in Int,
         next = clear_collision(Moved(angle, MaxSpeed))
  PROVE  /\ next \in -Edge .. Edge
         /\ Towards(next, Point) = Towards(pos, Point)
         /\ Away(next, Point) <= Away(pos, Point) + MaxSpeed
         /\ angle = Towards(pos, Point) => Away(next, Point) = Away(pos, Point) - MaxSpeed
<1>1. pos \in -Edge .. Edge /\ Point \in Int
  BY PointIn
<1>2. /\ Away(pos, Point) > MaxSpeed
      /\ Point > pos => pos + MaxSpeed <= Edge
      /\ Point < pos => pos - MaxSpeed >= -Edge
  BY RoomAhead
<1>3. \/ angle = 1 /\ Moved(angle, MaxSpeed) = pos + MaxSpeed
      \/ angle = -1 /\ Moved(angle, MaxSpeed) = pos - MaxSpeed
  <2>1. 1 * MaxSpeed = MaxSpeed /\ (-1) * MaxSpeed = -MaxSpeed
    OBVIOUS
  <2>2. CASE angle = 1
    BY <1>1, <2>1, <2>2 DEF Moved
  <2>3. CASE angle = -1
    BY <1>1, <2>1, <2>3 DEF Moved
  <2> QED BY <2>2, <2>3
<1>4. next \in -Edge .. Edge /\ next <= pos + MaxSpeed /\ next >= pos - MaxSpeed
  BY <1>1, <1>3 DEF clear_collision
<1>5. CASE Point > pos
  BY <1>1, <1>2, <1>3, <1>4, <1>5 DEF Away, Towards, clear_collision
<1>6. CASE Point < pos
  BY <1>1, <1>2, <1>3, <1>4, <1>6 DEF Away, Towards, clear_collision
<1>7. CASE Point = pos
  BY <1>1, <1>2, <1>7 DEF Away
<1> QED BY <1>1, <1>5, <1>6, <1>7

(* What a step does to the inputs and to the place.                         *)
LEMMA OrderRuns ==
  ASSUME PatrolInv, Drive
  PROVE  /\ step' = step + 1 /\ my_step' = my_step + 1
         /\ orders' = {[trigger_step |-> step + 1, angle |-> Towards(pos, Point), speed |-> 1000]}
         /\ target_angle' \in {1, -1} /\ speed' \in Int
         /\ pos' = clear_collision(Moved(target_angle', speed'))
         /\ step = 0 => speed' = 0
         /\ step > 0 => speed' = MaxSpeed /\ orders = {[trigger_step |-> step, angle |-> target_angle', speed |-> 1000]}
<1> DEFINE new == [trigger_step |-> step + 1, angle |-> Towards(pos, Point), speed |-> 1000]
           all == Remaining(Ordered(step'))
           due == {i \in all : i.trigger_step = my_step}
<1>1. step \in Nat /\ my_step = step /\ step' = step + 1 /\ step + 1 # step
  BY DEF PatrolInv, Drive
<1>2. all = {i \in orders \cup {new} : i.trigger_step >= step}
  BY <1>1 DEF Remaining, Ordered, add_action, Point
<1>3. /\ orders' = all \ due
      /\ IF due = {} THEN UNCHANGED <<target_angle, speed>>
         ELSE \E i \in due : target_angle' = i.angle /\ speed' = Capped(i.speed)
      /\ pos' = clear_collision(Moved(target_angle', speed')) /\ my_step' = my_step + 1
  BY <1>1 DEF Drive
<1>4. new.trigger_step = step + 1
  OBVIOUS
<1> HIDE DEF all, new
<1>5. CASE step = 0
  <2>1. orders = {} /\ speed = 0 /\ target_angle \in {1, -1}
    BY <1>5 DEF PatrolInv, OneOrder
  <2>2. all = {new} /\ due = {}
    BY <1>1, <1>2, <1>4, <2>1
  <2>3. orders' = {new} /\ target_angle' = target_angle /\ speed' = 0
    BY <1>3, <2>1, <2>2
  <2> QED BY <1>1, <1>3, <1>5, <2>1, <2>3 DEF new
<1>6. CASE step > 0
  <2>1. PICK angle \in {1, -1} : orders = {[trigger_step |-> step, angle |-> angle, speed |-> 1000]}
    BY <1>6 DEF PatrolInv, OneOrder
  <2> DEFINE old == [trigger_step |-> step, angle |-> angle, speed |-> 1000]
  <2>2. old.trigger_step = step /\ old.angle = angle /\ Capped(old.speed) = MaxSpeed
    BY DEF Capped
  <2> HIDE DEF old
  <2>3. all = {old, new}
    BY <1>1, <1>2, <1>4, <2>1, <2>2 DEF old
  <2>4. due = {old} /\ all \ due = {new}
    BY <1>1, <1>4, <2>2, <2>3
  <2>5. orders' = {new} /\ target_angle' = angle /\ speed' = MaxSpeed
    BY <1>3, <2>2, <2>4
  <2> QED BY <1>1, <1>3, <1>6, <2>1, <2>5 DEF new
<1> QED BY <1>1, <1>5, <1>6

(* Every step of the tank keeps the invariant.                              *)
LEMMA PatrolStep == ASSUME PatrolInv, [NextPatrol]_patrolVars PROVE PatrolInv'
<1>1. CASE UNCHANGED patrolVars
  BY <1>1 DEF PatrolInv, OneOrder, Nearer, Point, patrolVars
<1>2. CASE Drive
  <2> DEFINE angle == Towards(pos, Point)
  <2>1. /\ step \in Nat /\ my_step = step /\ step' = step + 1 /\ my_step' = my_step + 1
        /\ orders' = {[trigger_step |-> step + 1, angle |-> angle, speed |-> 1000]}
        /\ target_angle' \in {1, -1} /\ speed' \in Int
        /\ pos' = clear_collision(Moved(target_angle', speed'))
        /\ angle \in {1, -1}
    BY <1>2, OrderRuns DEF PatrolInv, Towards
  <2>2. /\ course' = course /\ course \in Courses /\ course \in Seq(Int)
        /\ currentTargetIndex \in 1 .. Len(course)
        /\ currentTargetIndex' = NextIndex /\ NextIndex \in 1 .. Len(course)
        /\ pos \in -Edge .. Edge /\ Point \in Int
    <3>1. course' = course /\ course \in Courses /\ course \in Seq(Int) /\ course # <<>> /\ currentTargetIndex \in 1 .. Len(course)
      BY <1>2 DEF PatrolInv, Drive
    <3>2. NextIndex \in 1 .. Len(course)
      BY <3>1 DEF NextIndex
    <3> QED BY <1>2, <3>1, <3>2, PointIn DEF Drive
  <2>3. pos' \in -Edge .. Edge
    <3>1. Moved(target_angle', speed') \in Int
      BY <2>1, <2>2 DEF Moved
    <3> QED BY <2>1, <3>1 DEF clear_collision
  <2>4. Point' = course[NextIndex] /\ Point' \in Int
    BY <2>2 DEF Point
  <2>5. taken \in Nat /\ distance \in Nat
    BY DEF PatrolInv
  <2>6. CASE Reached
    <3>1. taken' = 0 /\ distance' = Away(pos', Point')
      BY <1>2, <2>2, <2>4, <2>6 DEF Drive
    <3>2. distance' \in Nat
      BY <2>3, <2>4, <3>1 DEF Away
    <3>3. OneOrder'
      BY <2>1, <3>1 DEF OneOrder
    <3>4. Nearer'
      BY <3>1 DEF Nearer
    <3> QED BY <2>1, <2>2, <2>3, <3>1, <3>2, <3>3, <3>4 DEF PatrolInv
  <2>7. CASE ~Reached
    <3>1. taken' = taken + 1 /\ distance' = distance /\ Point' = Point
      BY <1>2, <2>2, <2>4, <2>7 DEF Drive, NextIndex, Point
    <3>2. /\ Towards(pos', Point) = angle
          /\ taken = 0 => Away(pos', Point) <= Away(pos, Point) + MaxSpeed
          /\ taken > 0 => Away(pos', Point) <= Away(pos, Point) - MaxSpeed
      <4>1. CASE step = 0
        <5>1. speed' = 0 /\ taken = 0
          BY <1>2, <4>1, OrderRuns DEF PatrolInv
        <5>2. pos' = pos
          <6>1. 1 * 0 = 0 /\ (-1) * 0 = 0
            OBVIOUS
          <6>2. Moved(target_angle', speed') = pos
            <7>1. target_angle' \in {1, -1} /\ pos + 0 = pos
              BY <2>1, <2>2
            <7>2. Moved(target_angle', 0) = pos + target_angle' * 0
              BY DEF Moved
            <7>3. target_angle' * 0 = 0
              BY <6>1, <7>1
            <7> QED BY <5>1, <7>1, <7>2, <7>3
          <6> QED BY <2>1, <2>2, <6>2 DEF clear_collision
        <5> QED BY <2>2, <5>1, <5>2 DEF Away
      <4>2. CASE step > 0
        <5>1. /\ speed' = MaxSpeed
              /\ orders = {[trigger_step |-> step, angle |-> target_angle', speed |-> 1000]}
          BY <1>2, <4>2, OrderRuns
        <5>2. /\ Towards(pos', Point) = angle
              /\ Away(pos', Point) <= Away(pos, Point) + MaxSpeed
              /\ target_angle' = angle => Away(pos', Point) = Away(pos, Point) - MaxSpeed
          BY <2>1, <2>3, <2>7, <5>1, OneMove
        <5>3. taken > 0 => target_angle' = angle
          <6>1. PICK a \in {1, -1} : /\ orders = {[trigger_step |-> step, angle |-> a, speed |-> 1000]}
                                     /\ taken > 0 => a = angle
            BY <4>2 DEF PatrolInv, OneOrder
          <6>2. a = target_angle'
            <7> DEFINE o == [trigger_step |-> step, angle |-> a, speed |-> 1000]
                       p == [trigger_step |-> step, angle |-> target_angle', speed |-> 1000]
            <7>1. o.angle = a /\ p.angle = target_angle'
              OBVIOUS
            <7>2. {o} = {p}
              BY <5>1, <6>1
            <7> HIDE DEF o, p
            <7>3. o = p
              BY <7>2
            <7> QED BY <7>1, <7>3
          <6> QED BY <6>1, <6>2
        <5>4. Away(pos, Point) \in Int /\ Away(pos', Point) \in Int
          BY <2>2, <2>3 DEF Away
        <5> HIDE DEF angle
        <5> QED BY <5>2, <5>3, <5>4
      <4> QED BY <2>1, <4>1, <4>2
    <3>3. OneOrder'
      BY <2>1, <3>1, <3>2 DEF OneOrder
    <3>4. Nearer'
      <4>1. /\ taken = 0 => distance = Away(pos, Point)
            /\ taken > 0 => Away(pos, Point) <= distance - MaxSpeed * (taken - 2)
        BY DEF PatrolInv, Nearer
      <4>2. MaxSpeed * (taken' - 2) = MaxSpeed * (taken - 2) + MaxSpeed
        BY <2>5, <3>1
      <4>3. taken = 0 => MaxSpeed * (taken' - 2) = -MaxSpeed
        BY <3>1
      <4>4. MaxSpeed * (taken - 2) \in Int /\ Away(pos, Point) \in Int /\ Away(pos', Point) \in Int
        BY <2>2, <2>3, <2>5 DEF Away
      <4>5. Away(pos', Point) <= distance - MaxSpeed * (taken' - 2)
        <5> DEFINE w == MaxSpeed * (taken - 2)
                   v == MaxSpeed * (taken' - 2)
        <5>1. /\ v = w + MaxSpeed /\ w \in Int /\ (taken = 0 => v = -MaxSpeed)
              /\ (taken > 0 => Away(pos, Point) <= distance - w)
          BY <4>1, <4>2, <4>3, <4>4
        <5> HIDE DEF w, v
        <5>2. Away(pos', Point) <= distance - v
          BY <2>5, <3>2, <4>1, <4>4, <5>1
        <5> QED BY <5>2 DEF v
      <4> QED BY <2>5, <3>1, <4>5 DEF Nearer
    <3> QED BY <2>1, <2>2, <2>3, <2>5, <3>1, <3>3, <3>4 DEF PatrolInv
  <2> QED BY <2>6, <2>7
<1> QED BY <1>1, <1>2 DEF NextPatrol

(* A driven tank gets to each of its points in the steps that the way takes *)
(* at full speed, and two more: it never drives past a point and never      *)
(* circles around it, for every course, edge and speed                      *)
(* (ConstantTankAi::step, Tank::update, Tank::update_inputs).               *)
THEOREM TankGetsToItsPoints == InitPatrol /\ [][NextPatrol]_patrolVars => []OnCourse
<1>1. PatrolInv => OnCourse
  <2> SUFFICES ASSUME PatrolInv PROVE OnCourse
    OBVIOUS
  <2>1. taken \in Nat /\ distance \in Nat /\ Away(pos, Point) >= 0
    BY PointIn DEF PatrolInv
  <2>2. CASE taken = 0
    <3>1. distance \div MaxSpeed >= 0 /\ distance \div MaxSpeed \in Int
      BY <2>1, QuotientBound
    <3> QED BY <2>2, <3>1 DEF OnCourse
  <2>3. CASE taken > 0
    <3>0. MaxSpeed * (taken - 2) \in Int /\ Away(pos, Point) \in Int
      BY <2>1, PointIn
    <3>1. MaxSpeed * (taken - 2) <= distance
      <4> DEFINE w == MaxSpeed * (taken - 2)
      <4>1. Away(pos, Point) <= distance - w
        BY <2>3 DEF PatrolInv, Nearer
      <4>2. w \in Int
        BY <3>0
      <4> HIDE DEF w
      <4>3. w <= distance
        BY <2>1, <3>0, <4>1, <4>2
      <4> QED BY <4>3 DEF w
    <3>2. taken - 2 <= distance \div MaxSpeed /\ distance \div MaxSpeed \in Int
      BY <2>1, <3>1, QuotientBound
    <3> QED BY <2>1, <3>2 DEF OnCourse
  <2> QED BY <2>1, <2>2, <2>3
<1> QED BY <1>1, PatrolInit, PatrolStep, PTL

HIDE PatrolAssumption DEF PatrolAssumption

-----------------------------------------------------------------------------
(* The map graph.                                                           *)

(* What the assumption says without the product: no edge is as long as Far. *)
LEMMA MapConstants ==
  /\ N \in Nat \ {0} /\ Near \in Nat /\ Far \in Nat
  /\ \A l \in Lengths : l \in Nat \ {0} /\ l < Far
  /\ Locations \subseteq [Nodes -> Nat]
<1> SUFFICES ASSUME NEW l \in Lengths PROVE l < Far
  BY MapAssumption DEF MapAssumption
<1>1. l \in Nat \ {0} /\ N \in Nat \ {0} /\ 2 * N * l < Far /\ Far \in Nat
  BY MapAssumption DEF MapAssumption
<1>2. l <= N * l
  BY <1>1
<1> DEFINE m == N * l
<1>3. m \in Nat /\ 2 * m < Far
  <2>1. 2 * N * l = 2 * m
    BY <1>1
  <2> QED BY <1>1, <2>1
<1> HIDE DEF m
<1>4. l <= m
  BY <1>2 DEF m
<1> QED BY <1>1, <1>3, <1>4

(* The fields of an entry of the table.                                     *)
Dist(i, j) == belman[<<i, j>>][1]
NextV(i, j) == belman[<<i, j>>][2]

(* The table after a round with k in the middle.                            *)
Better(t, k, p) ==
  IF t[p][1] > t[<<p[1], k>>][1] + t[<<k, p[2]>>][1]
  THEN <<t[<<p[1], k>>][1] + t[<<k, p[2]>>][1], t[<<p[1], k>>][2]>>
  ELSE t[p]

(* The tables that belMan may have.                                         *)
Pairs == Nodes \X Nodes
Tables == [Pairs -> (0 .. Far) \X (0 .. N)]

(* A set of numbers up to n has a greatest one.                             *)
LEMMA Greatest ==
  ASSUME NEW n \in Nat, NEW S \in SUBSET (1 .. n), S # {}
  PROVE  Max(S) \in S /\ \A x \in S : x <= Max(S)
<1> DEFINE T == {t \in Nat : \E x \in S : t = n - x}
<1>1. T \in SUBSET Nat /\ T # {}
  <2>1. PICK x \in S : TRUE
    OBVIOUS
  <2>2. n - x \in T
    OBVIOUS
  <2> QED BY <2>2
<1>2. PICK y \in T : \A z \in T : y <= z
  BY <1>1, LeastNat
<1>3. PICK x \in S : y = n - x
  BY <1>2
<1>4. \A z \in S : z <= x
  <2> TAKE z \in S
  <2>1. n - z \in T
    OBVIOUS
  <2>2. y <= n - z
    BY <1>2, <2>1
  <2> QED BY <1>3, <2>2
<1>5. \E m \in S : \A z \in S : m >= z
  BY <1>3, <1>4
<1> QED BY <1>5 DEF Max

USE MapConstants

(* Every pair has its place in the rows.                                    *)
LEMMA PairsInRows ==
  /\ N * N \in Nat
  /\ Rows \in [1 .. (N * N) -> Pairs]
  /\ \A p \in Pairs : \E c \in 1 .. (N * N) : Rows[c] = p
<1>1. N * N \in Nat
  OBVIOUS
<1>2. ASSUME NEW c \in 1 .. (N * N)
      PROVE  (c - 1) \div N \in Nodes /\ (c - 1) % N \in Nodes
  <2> DEFINE q == (c - 1) \div N
             r == (c - 1) % N
  <2>1. q \in Int /\ r \in 0 .. (N - 1) /\ c - 1 = N * q + r /\ c - 1 >= 0 /\ c - 1 < N * N
    OBVIOUS
  <2> HIDE DEF q, r
  <2>2. q >= 0
    <3>1. CASE q <= -1
      <4>1. N * q <= -N
        BY <3>1, <2>1
      <4> QED BY <4>1, <2>1
    <3> QED BY <3>1, <2>1
  <2>3. q <= N - 1
    <3>1. CASE q >= N
      <4>1. N * q >= N * N
        BY <3>1, <2>1
      <4> QED BY <4>1, <2>1
    <3> QED BY <3>1, <2>1
  <2>4. q \in Nodes /\ r \in Nodes
    BY <2>1, <2>2, <2>3 DEF Nodes
  <2> QED BY <2>4 DEF q, r
<1>3. ASSUME NEW p \in Pairs PROVE \E c \in 1 .. (N * N) : Rows[c] = p
  <2> DEFINE i == p[1]
             j == p[2]
             c == N * i + j + 1
  <2>1. i \in 0 .. (N - 1) /\ j \in 0 .. (N - 1) /\ p = <<i, j>>
    BY DEF Pairs, Nodes
  <2> HIDE DEF i, j
  <2>2. c \in 1 .. (N * N)
    <3>1. N * i >= 0 /\ N * i \in Int
      BY <2>1
    <3>2. N * i <= N * (N - 1)
      BY <2>1
    <3>3. N * (N - 1) = N * N - N
      OBVIOUS
    <3> QED BY <2>1, <3>1, <3>2, <3>3
  <2>3. (c - 1) \div N = i /\ (c - 1) % N = j
    <3>1. c - 1 = N * i + j /\ N * i \in Int
      BY <2>1
    <3> DEFINE m == c - 1
               q == m \div N
               r == m % N
    <3>2. q \in Int /\ r \in 0 .. (N - 1) /\ m = N * q + r
      BY <2>1
    <3>3. N * q + r = N * i + j
      BY <3>1, <3>2
    <3> HIDE DEF q, r, c, m
    <3>4. q = i
      <4>1. CASE q <= i - 1
        <5>1. N * q <= N * (i - 1) /\ N * (i - 1) = N * i - N
          BY <4>1, <2>1, <3>2
        <5> QED BY <5>1, <2>1, <3>1, <3>2, <3>3
      <4>2. CASE q >= i + 1
        <5>1. N * q >= N * (i + 1) /\ N * (i + 1) = N * i + N
          BY <4>2, <2>1, <3>2
        <5> QED BY <5>1, <2>1, <3>1, <3>2, <3>3
      <4> QED BY <4>1, <4>2, <2>1, <3>2
    <3>5. r = j
      BY <2>1, <3>1, <3>2, <3>3, <3>4
    <3> QED BY <3>4, <3>5 DEF q, r, m
  <2> HIDE DEF c
  <2>4. Rows[c] = p
    BY <2>1, <2>2, <2>3 DEF Rows
  <2> QED BY <2>2, <2>4
<1>4. Rows \in [1 .. (N * N) -> Pairs]
  <2>1. \A c \in 1 .. (N * N) : <<(c - 1) \div N, (c - 1) % N>> \in Pairs
    BY <1>2 DEF Pairs
  <2> QED BY <2>1 DEF Rows
<1> QED BY <1>1, <1>3, <1>4

HIDE MapConstants

(* The table while a round goes on, behind the first c pairs.               *)
InRound(t, t0, k, c) ==
  /\ t \in Tables
  /\ \A p \in Pairs : t[p] \in {t0[p], Better(t0, k, p)}
  /\ \A b \in 1 .. c : t[Rows[b]] = Better(t0, k, Rows[b])

(* An entry of a table.                                                     *)
LEMMA TableEntry ==
  ASSUME NEW t \in Tables, NEW p \in Pairs
  PROVE  /\ t[p][1] \in 0 .. Far /\ t[p][2] \in 0 .. N /\ t[p] = <<t[p][1], t[p][2]>>
BY DEF Tables

(* A pair of nodes.                                                         *)
LEMMA PairParts ==
  ASSUME NEW p \in Pairs
  PROVE  p[1] \in Nodes /\ p[2] \in Nodes /\ p = <<p[1], p[2]>>
BY DEF Pairs

(* In a round the ways from and to the node in the middle stay.             *)
LEMMA BetterIs ==
  ASSUME NEW t \in Tables, NEW k \in Nodes, NEW p \in Pairs
  PROVE  /\ Better(t, k, p) \in (0 .. Far) \X (0 .. N)
         /\ Better(t, k, p)[1] <= t[<<p[1], k>>][1] + t[<<k, p[2]>>][1]
         /\ p[1] = k \/ p[2] = k => Better(t, k, p) = t[p]
<1> DEFINE i == p[1]
           j == p[2]
           a == t[p]
           b == t[<<i, k>>]
           c == t[<<k, j>>]
           d == t[<<k, k>>]
<1>1. i \in Nodes /\ j \in Nodes /\ p = <<i, j>>
  BY PairParts
<1>2. <<i, k>> \in Pairs /\ <<k, j>> \in Pairs /\ <<k, k>> \in Pairs
  BY <1>1 DEF Pairs
<1>3. /\ a[1] \in 0 .. Far /\ b[1] \in 0 .. Far /\ c[1] \in 0 .. Far /\ d[1] \in 0 .. Far
      /\ a \in (0 .. Far) \X (0 .. N) /\ b[2] \in 0 .. N
  BY <1>2, TableEntry DEF Tables
<1>4. i = k => b = d /\ c = a
  BY <1>1
<1>5. j = k => c = d /\ b = a
  BY <1>1
<1>6. Better(t, k, p) = IF a[1] > b[1] + c[1] THEN <<b[1] + c[1], b[2]>> ELSE a
  BY DEF Better
<1> HIDE DEF a, b, c, d, i, j
<1>7. Better(t, k, p) \in (0 .. Far) \X (0 .. N)
  <2>1. CASE a[1] > b[1] + c[1]
    <3>1. b[1] + c[1] \in 0 .. Far
      BY <1>3, <2>1, MapConstants
    <3> QED BY <1>3, <1>6, <2>1, <3>1
  <2> QED BY <1>3, <1>6, <2>1
<1>8. Better(t, k, p)[1] <= b[1] + c[1]
  <2>1. CASE a[1] > b[1] + c[1]
    <3>1. Better(t, k, p)[1] = b[1] + c[1]
      BY <1>6, <2>1
    <3> QED BY <1>3, <3>1
  <2>2. CASE ~(a[1] > b[1] + c[1])
    <3>1. Better(t, k, p)[1] = a[1]
      BY <1>6, <2>2
    <3> QED BY <1>3, <2>2, <3>1
  <2> QED BY <2>1, <2>2
<1>9. i = k \/ j = k => Better(t, k, p) = a
  BY <1>3, <1>4, <1>5, <1>6
<1> QED BY <1>7, <1>8, <1>9 DEF a, b, c, i, j

(* The step for the next pair makes the table of a round of one pair more.  *)
LEMMA RelaxedIs ==
  ASSUME NEW t0 \in Tables, NEW k \in Nodes, NEW t, NEW c \in Nat, c + 1 \in 1 .. (N * N),
         InRound(t, t0, k, c)
  PROVE  InRound(Relaxed(t, k, Rows[c + 1][1], Rows[c + 1][2]), t0, k, c + 1)
<1> DEFINE p == Rows[c + 1]
           i == p[1]
           j == p[2]
           u == Relaxed(t, k, i, j)
           new == Better(t0, k, p)
<1>1. p \in Pairs /\ i \in Nodes /\ j \in Nodes /\ p = <<i, j>>
  BY PairsInRows, PairParts
<1>2. <<i, k>> \in Pairs /\ <<k, j>> \in Pairs
  BY <1>1 DEF Pairs
<1>3. t[<<i, k>>] = t0[<<i, k>>] /\ t[<<k, j>>] = t0[<<k, j>>]
  <2>1. Better(t0, k, <<i, k>>) = t0[<<i, k>>] /\ Better(t0, k, <<k, j>>) = t0[<<k, j>>]
    <3>1. <<i, k>>[2] = k /\ <<k, j>>[1] = k
      OBVIOUS
    <3> QED BY <1>2, <3>1, BetterIs
  <2> QED BY <1>2, <2>1 DEF InRound
<1>4. /\ new \in (0 .. Far) \X (0 .. N) /\ new[1] <= t0[<<i, k>>][1] + t0[<<k, j>>][1]
      /\ t \in Tables /\ t[p] \in {t0[p], new}
      /\ new = IF t0[p][1] > t0[<<i, k>>][1] + t0[<<k, j>>][1]
               THEN <<t0[<<i, k>>][1] + t0[<<k, j>>][1], t0[<<i, k>>][2]>> ELSE t0[p]
  BY <1>1, BetterIs DEF InRound, Better
<1>5. u = IF t[p][1] > t0[<<i, k>>][1] + t0[<<k, j>>][1]
          THEN [t EXCEPT ![p] = <<t0[<<i, k>>][1] + t0[<<k, j>>][1], t0[<<i, k>>][2]>>]
          ELSE t
  BY <1>1, <1>3 DEF Relaxed
<1>6. \A b \in 1 .. c : Rows[b] \in Pairs
  BY PairsInRows
<1> DEFINE far == t0[<<i, k>>][1] + t0[<<k, j>>][1]
<1>7. far \in Nat /\ t0[p][1] \in Nat /\ new[1] \in Nat
  <2> DEFINE q == <<i, k>>
             r == <<k, j>>
  <2>1. t0 \in Tables /\ q \in Pairs /\ r \in Pairs
    BY <1>2
  <2> HIDE DEF q, r
  <2>2. t0[q][1] \in 0 .. Far /\ t0[r][1] \in 0 .. Far /\ t0[p][1] \in 0 .. Far
    BY <1>1, <2>1, TableEntry
  <2>3. new[1] \in 0 .. Far
    BY <1>4
  <2>4. t0[q][1] + t0[r][1] \in Nat /\ t0[p][1] \in Nat
    BY <2>2
  <2> QED BY <2>3, <2>4 DEF q, r
<1>8. u = [t EXCEPT ![p] = new]
  <2> DEFINE q == t0[p]
             r == <<far, t0[<<i, k>>][2]>>
  <2>1. u = (IF t[p][1] > far THEN [t EXCEPT ![p] = r] ELSE t) /\ new = IF q[1] > far THEN r ELSE q
    BY <1>4, <1>5
  <2>2. t = [t EXCEPT ![p] = t[p]]
    BY <1>1, <1>4 DEF Tables
  <2>3. t[p] = q \/ t[p] = new
    BY <1>4
  <2>4. new[1] <= far /\ far \in Nat /\ new[1] \in Nat /\ q[1] \in Nat
    BY <1>4, <1>7
  <2> HIDE DEF u, new, far, q, r, p
  <2>5. CASE t[p][1] > far
    <3>1. t[p] = q
      BY <2>3, <2>4, <2>5
    <3> QED BY <2>1, <2>5, <3>1
  <2>6. CASE ~(t[p][1] > far)
    <3>1. t[p] = new
      BY <2>1, <2>3, <2>6
    <3> QED BY <2>1, <2>2, <2>6, <3>1
  <2> QED BY <2>5, <2>6
<1> HIDE DEF new, u, p
<1>9. u \in Tables
  BY <1>1, <1>4, <1>8 DEF Tables
<1>10. /\ u[p] = new
       /\ \A q \in Pairs : q # p => u[q] = t[q]
  BY <1>1, <1>4, <1>8 DEF Tables
<1>11. \A q \in Pairs : u[q] \in {t0[q], Better(t0, k, q)}
  BY <1>10 DEF InRound, new
<1>12. \A b \in 1 .. (c + 1) : u[Rows[b]] = Better(t0, k, Rows[b])
  <2> TAKE b \in 1 .. (c + 1)
  <2>1. CASE Rows[b] = p
    BY <1>10, <2>1 DEF new
  <2>2. CASE Rows[b] # p
    <3>1. b \in 1 .. c
      BY <2>2 DEF p
    <3> QED BY <1>6, <1>10, <2>2, <3>1 DEF InRound
  <2> QED BY <2>1, <2>2
<1>13. InRound(u, t0, k, c + 1)
  BY <1>9, <1>11, <1>12 DEF InRound
<1> QED BY <1>13 DEF u, p

(* A round of belMan: every pair gets the better of its way and that over k.*)
LEMMA RoundIs ==
  ASSUME NEW t0 \in Tables, NEW k \in Nodes
  PROVE  \E t \in Tables : /\ t = FoldLeft(LAMBDA u, p : Relaxed(u, k, p[1], p[2]), t0, Rows)
                           /\ \A p \in Pairs : t[p] = Better(t0, k, p)
<1> DEFINE M == N * N
           last(g, s) == IF s = {} THEN t0
                         ELSE Relaxed(g[s \ {Max(s)}], k, Rows[Max(s)][1], Rows[Max(s)][2])
           iter == CHOOSE g : g = [s \in SUBSET (1 .. M) |-> last(g, s)]
           A == {n \in Nat : \E g : g = [s \in SUBSET (1 .. n) |-> last(g, s)]}
           B == {n \in Nat : n <= M => InRound(iter[1 .. n], t0, k, n)}
<1>1. M \in Nat /\ DOMAIN Rows = 1 .. M
  BY PairsInRows DEF Rows
<1>2. iter[1 .. M] = FoldLeft(LAMBDA u, p : Relaxed(u, k, p[1], p[2]), t0, Rows)
  BY <1>1 DEF FoldLeft, MapThenFoldSet
<1> HIDE DEF M
<1>3. ASSUME NEW n \in Nat, NEW s \in SUBSET (1 .. (n + 1)), s # {}
      PROVE  s \ {Max(s)} \in SUBSET (1 .. n)
  <2>0. n + 1 \in Nat
    OBVIOUS
  <2>1. Max(s) \in s /\ \A x \in s : x <= Max(s)
    BY <1>3, <2>0, Greatest, Zenon
  <2> DEFINE m == Max(s)
  <2>2. ASSUME NEW x \in s \ {m} PROVE x \in 1 .. n
    <3>1. x \in s /\ x # m /\ m \in s /\ x <= m
      BY <2>1, <2>2
    <3>2. x \in 1 .. (n + 1) /\ m \in 1 .. (n + 1)
      BY <3>1
    <3> HIDE DEF m
    <3> QED BY <3>1, <3>2
  <2> QED BY <2>2
<1>4. Nat \subseteq A
  <2>1. 0 \in A
    <3> DEFINE g == [s \in SUBSET (1 .. 0) |-> t0]
    <3>1. SUBSET (1 .. 0) = {{}}
      OBVIOUS
    <3>2. g = [s \in SUBSET (1 .. 0) |-> last(g, s)]
      BY <3>1
    <3> QED BY <3>2
  <2>2. ASSUME NEW n \in Nat, n \in A PROVE n + 1 \in A
    <3>1. PICK g : g = [s \in SUBSET (1 .. n) |-> last(g, s)]
      BY <2>2
    <3> DEFINE h == [s \in SUBSET (1 .. (n + 1)) |-> last(g, s)]
    <3>2. \A s \in SUBSET (1 .. n) : h[s] = g[s]
      <4>1. \A s \in SUBSET (1 .. n) : s \in SUBSET (1 .. (n + 1))
        OBVIOUS
      <4>2. \A s \in SUBSET (1 .. n) : g[s] = last(g, s)
        BY <3>1
      <4> HIDE DEF last
      <4> QED BY <4>1, <4>2
    <3>3. \A s \in SUBSET (1 .. (n + 1)) : last(h, s) = last(g, s)
      <4> HIDE DEF h
      <4> TAKE s \in SUBSET (1 .. (n + 1))
      <4>1. CASE s = {}
        BY <4>1
      <4>2. CASE s # {}
        BY <1>3, <3>2, <4>2
      <4> QED BY <4>1, <4>2
    <3>4. h = [s \in SUBSET (1 .. (n + 1)) |-> last(h, s)]
      <4> HIDE DEF last
      <4>1. h = [s \in SUBSET (1 .. (n + 1)) |-> last(g, s)]
        OBVIOUS
      <4> HIDE DEF h
      <4> QED BY <3>3, <4>1
    <3> HIDE DEF h, last
    <3>5. \E f : f = [s \in SUBSET (1 .. (n + 1)) |-> last(f, s)]
      BY <3>4
    <3> QED BY <3>5
  <2> HIDE DEF A
  <2> QED BY <2>1, <2>2, Induction
<1>5. iter = [s \in SUBSET (1 .. M) |-> last(iter, s)]
  <2>1. \E g : g = [s \in SUBSET (1 .. M) |-> last(g, s)]
    BY <1>1, <1>4
  <2> HIDE DEF last
  <2> QED BY <2>1
<1> HIDE DEF iter
<1>6. Nat \subseteq B
  <2>1. 0 \in B
    <3>1. 1 .. 0 = {} /\ 1 .. 0 \in SUBSET (1 .. M)
      OBVIOUS
    <3>2. iter[1 .. 0] = t0
      BY <1>5, <3>1
    <3>3. InRound(t0, t0, k, 0)
      BY DEF InRound
    <3> QED BY <3>2, <3>3
  <2>2. ASSUME NEW n \in Nat, n \in B PROVE n + 1 \in B
    <3> SUFFICES ASSUME n + 1 <= M PROVE InRound(iter[1 .. (n + 1)], t0, k, n + 1)
      BY <2>2
    <3>1. InRound(iter[1 .. n], t0, k, n)
      BY <1>1, <2>2
    <3>2. Max(1 .. (n + 1)) = n + 1
      <4>1. 1 .. (n + 1) \in SUBSET (1 .. (n + 1)) /\ n + 1 \in 1 .. (n + 1)
        OBVIOUS
      <4>2. Max(1 .. (n + 1)) \in 1 .. (n + 1) /\ n + 1 <= Max(1 .. (n + 1))
        <5>1. n + 1 \in Nat
          OBVIOUS
        <5> QED BY <4>1, <5>1, Greatest, Zenon
      <4> QED BY <4>2
    <3>3. /\ 1 .. (n + 1) \in SUBSET (1 .. M) /\ 1 .. (n + 1) # {} /\ (1 .. (n + 1)) \ {n + 1} = 1 .. n
      <4>1. \A x \in 1 .. (n + 1) : x \in 1 .. M
        BY <1>1
      <4>2. 1 .. (n + 1) # {}
        OBVIOUS
      <4>3. (1 .. (n + 1)) \ {n + 1} = 1 .. n
        OBVIOUS
      <4> QED BY <4>1, <4>2, <4>3
    <3>4. iter[1 .. (n + 1)] = Relaxed(iter[1 .. n], k, Rows[n + 1][1], Rows[n + 1][2])
      BY <1>5, <3>2, <3>3
    <3>5. n + 1 \in 1 .. (N * N)
      BY <1>1 DEF M
    <3> QED BY <3>1, <3>4, <3>5, RelaxedIs
  <2> HIDE DEF B
  <2> QED BY <2>1, <2>2, Induction
<1>7. InRound(iter[1 .. M], t0, k, M)
  BY <1>1, <1>6
<1>8. ASSUME NEW p \in Pairs PROVE iter[1 .. M][p] = Better(t0, k, p)
  <2>1. PICK c \in 1 .. (N * N) : Rows[c] = p
    BY PairsInRows
  <2> QED BY <1>7, <2>1 DEF InRound, M
<1>9. iter[1 .. M] \in Tables
  BY <1>7 DEF InRound
<1> QED BY <1>2, <1>8, <1>9, Zenon

-----------------------------------------------------------------------------
(* What is left of a way to j at v.                                         *)
Rest(v, j) == IF v = j THEN 0 ELSE Dist(v, j)

(* No edge leads from a node to itself.                                     *)
EdgesTypeOK ==
  /\ DOMAIN edges \subseteq Pairs
  /\ \A e \in DOMAIN edges : e[1] # e[2] /\ edges[e] \in 1 .. (Far - 1)

(* No way is longer than the edge.                                          *)
Direct == \A i, j \in Nodes : <<i, j>> \in DOMAIN edges => Dist(i, j) <= edges[<<i, j>>]

(* And none is longer than two ways that meet in a node of a round before.  *)
Through ==
  \A i, m, j \in Nodes :
    i # j /\ i # m /\ m # j /\ m < round => Dist(i, j) <= Dist(i, m) + Dist(m, j)

(* The next node of a way: an edge leads there, and the rest is known.      *)
OnTheWay(i, v, j) ==
  /\ <<i, v>> \in DOMAIN edges /\ (v = j \/ v < round)
  /\ Dist(i, j) = edges[<<i, v>>] + Rest(v, j)

NextIsOn == \A i, j \in Nodes : i # j /\ Dist(i, j) < Far => OnTheWay(i, NextV(i, j), j)

Ways == EdgesTypeOK /\ Direct /\ Through /\ NextIsOn

MapInv ==
  /\ round \in -1 .. N
  /\ belman \in Tables
  /\ round = -1 => \A p \in Pairs : belman[p] = <<Far, N>>
  /\ round >= 0 => Ways

(* The graph begins without edges.                                          *)
LEMMA MapInit == InitMap => MapInv
BY MapConstants DEF InitMap, MapInv, Tables, Pairs

(* createEdges: the edges are ways, and no round is done.                   *)
LEMMA CreateKeeps == ASSUME MapInv, CreateEdges PROVE MapInv'
<1>0. PICK pairs \in SUBSET {p \in Pairs : p[1] < p[2]} : \E len \in [pairs -> Lengths] :
        edges' = [p \in pairs \cup {<<p[2], p[1]>> : p \in pairs} |->
                    IF p \in pairs THEN len[p] ELSE len[<<p[2], p[1]>>]]
  BY DEF CreateEdges, Pairs
<1>1. PICK len \in [pairs -> Lengths] :
        edges' = [p \in pairs \cup {<<p[2], p[1]>> : p \in pairs} |->
                    IF p \in pairs THEN len[p] ELSE len[<<p[2], p[1]>>]]
  BY <1>0
<1>2. /\ belman' = [p \in Pairs |-> IF p \in DOMAIN edges' THEN <<edges'[p], p[2]>> ELSE belman[p]]
      /\ round = -1 /\ round' = 0
  BY DEF CreateEdges, Pairs
<1>3. \A p \in Pairs : belman[p] = <<Far, N>>
  BY <1>2 DEF MapInv
<1>4. ASSUME NEW e \in DOMAIN edges' PROVE e \in Pairs /\ e[1] # e[2] /\ edges'[e] \in 1 .. (Far - 1)
  <2>1. CASE e \in pairs
    <3>1. e \in Pairs /\ e[1] < e[2] /\ edges'[e] = len[e] /\ len[e] \in Lengths
      BY <1>1, <2>1
    <3>2. e[1] \in Int /\ e[2] \in Int
      BY <3>1, PairParts, MapConstants DEF Nodes
    <3> QED BY <3>1, <3>2, MapConstants
  <2>2. CASE e \notin pairs
    <3>1. PICK p \in pairs : e = <<p[2], p[1]>>
      BY <1>1, <2>2
    <3>2. edges'[e] = len[<<e[2], e[1]>>]
      BY <1>1, <2>2
    <3>3. p \in Pairs /\ p[1] < p[2] /\ len[p] \in Lengths
      BY <1>1
    <3>4. p = <<p[1], p[2]>> /\ p[1] \in Nodes /\ p[2] \in Nodes
      BY <3>3, PairParts
    <3>5. edges'[e] = len[p]
      BY <3>1, <3>2, <3>4
    <3>6. e \in Pairs
      BY <3>1, <3>4 DEF Pairs
    <3>7. e[1] # e[2]
      BY <3>1, <3>3, <3>4, MapConstants DEF Nodes
    <3> QED BY <3>3, <3>5, <3>6, <3>7, MapConstants
  <2> QED BY <2>1, <2>2
<1>5. EdgesTypeOK'
  BY <1>4 DEF EdgesTypeOK
<1>6. belman' \in Tables
  <2>1. ASSUME NEW p \in Pairs, p \in DOMAIN edges' PROVE <<edges'[p], p[2]>> \in (0 .. Far) \X (0 .. N)
    <3>1. p[2] \in 0 .. N
      BY PairParts, MapConstants DEF Nodes
    <3>2. edges'[p] \in 0 .. Far
      BY <1>4, <2>1, MapConstants
    <3> QED BY <3>1, <3>2
  <2>2. <<Far, N>> \in (0 .. Far) \X (0 .. N)
    BY MapConstants
  <2> QED BY <1>2, <1>3, <2>1, <2>2 DEF Tables
<1>7. ASSUME NEW i \in Nodes, NEW j \in Nodes
      PROVE  /\ <<i, j>> \in DOMAIN edges' => Dist(i, j)' = edges'[<<i, j>>] /\ NextV(i, j)' = j
             /\ <<i, j>> \notin DOMAIN edges' => Dist(i, j)' = Far
  <2>1. <<i, j>> \in Pairs
    BY DEF Pairs
  <2> QED BY <1>2, <1>3, <2>1 DEF Dist, NextV
<1>8. Direct'
  <2> SUFFICES ASSUME NEW i \in Nodes, NEW j \in Nodes, <<i, j>> \in DOMAIN edges'
               PROVE  Dist(i, j)' <= edges'[<<i, j>>]
    BY DEF Direct
  <2> QED BY <1>4, <1>7
<1>9. Through'
  BY <1>2, MapConstants DEF Through, Nodes
<1>10. NextIsOn'
  <2> SUFFICES ASSUME NEW i \in Nodes, NEW j \in Nodes, Dist(i, j)' < Far
               PROVE  OnTheWay(i, NextV(i, j), j)'
    BY DEF NextIsOn
  <2>1. <<i, j>> \in DOMAIN edges'
    BY <1>7, MapConstants
  <2>2. NextV(i, j)' = j /\ Dist(i, j)' = edges'[<<i, j>>] /\ edges'[<<i, j>>] \in Int
    BY <1>4, <1>7, <2>1
  <2>3. Rest(NextV(i, j), j)' = 0
    BY <2>2 DEF Rest
  <2> QED BY <2>1, <2>2, <2>3 DEF OnTheWay
<1> QED BY <1>2, <1>5, <1>6, <1>8, <1>9, <1>10, MapConstants DEF MapInv, Ways

(* The length of a way.                                                     *)
LEMMA DistType ==
  ASSUME belman \in Tables
  PROVE  \A i, j \in Nodes : Dist(i, j) \in Nat /\ Dist(i, j) <= Far
<1> SUFFICES ASSUME NEW i \in Nodes, NEW j \in Nodes
             PROVE  Dist(i, j) \in 0 .. Far
  BY MapConstants
<1>1. <<i, j>> \in Pairs
  BY DEF Pairs
<1> QED BY <1>1, TableEntry DEF Dist

(* Every pair has the better of its way and the one over k.                 *)
Shortened(k) ==
  /\ \A i, j \in Nodes :
       LET over == Dist(i, k) + Dist(k, j) IN
       \/ Dist(i, j) > over /\ Dist(i, j)' = over /\ NextV(i, j)' = NextV(i, k)
       \/ Dist(i, j) <= over /\ Dist(i, j)' = Dist(i, j) /\ NextV(i, j)' = NextV(i, j)
  /\ \A i, j \in Nodes : i = k \/ j = k => Dist(i, j)' = Dist(i, j) /\ NextV(i, j)' = NextV(i, j)

(* A round of belMan in terms of ways: each is the better of two.           *)
LEMMA BelManShortens ==
  ASSUME MapInv, belMan
  PROVE  /\ round \in Nodes /\ round' = round + 1 /\ edges' = edges
         /\ belman' \in Tables /\ Shortened(round)
<1>1. round \in Nodes /\ round' = round + 1 /\ edges' = edges /\ belman \in Tables
  BY DEF belMan, MapInv
<1>2. belman' = FoldLeft(LAMBDA u, p : Relaxed(u, round, p[1], p[2]), belman, Rows)
  BY DEF belMan
<1>3. belman' \in Tables /\ \A p \in Pairs : belman'[p] = Better(belman, round, p)
  BY <1>1, <1>2, RoundIs, Zenon
<1>4. ASSUME NEW i \in Nodes, NEW j \in Nodes
      PROVE  /\ \/ /\ Dist(i, j) > Dist(i, round) + Dist(round, j)
                   /\ Dist(i, j)' = Dist(i, round) + Dist(round, j) /\ NextV(i, j)' = NextV(i, round)
                \/ /\ Dist(i, j) <= Dist(i, round) + Dist(round, j)
                   /\ Dist(i, j)' = Dist(i, j) /\ NextV(i, j)' = NextV(i, j)
             /\ i = round \/ j = round => Dist(i, j)' = Dist(i, j) /\ NextV(i, j)' = NextV(i, j)
  <2> DEFINE p == <<i, j>>
             over == Dist(i, round) + Dist(round, j)
  <2>1. p \in Pairs /\ p[1] = i /\ p[2] = j
    BY DEF Pairs
  <2>2. belman'[p] = IF Dist(i, j) > over THEN <<over, NextV(i, round)>> ELSE belman[p]
    BY <1>3, <2>1 DEF Better, Dist, NextV
  <2>3. i = round \/ j = round => belman'[p] = belman[p]
    BY <1>1, <1>3, <2>1, BetterIs
  <2>4. Dist(i, j) \in Nat /\ over \in Nat
    BY <1>1, DistType
  <2>5. Dist(i, j)' = belman'[p][1] /\ NextV(i, j)' = belman'[p][2] /\ Dist(i, j) = belman[p][1] /\ NextV(i, j) = belman[p][2]
    BY DEF Dist, NextV
  <2>6. CASE Dist(i, j) > over
    BY <2>2, <2>3, <2>5, <2>6
  <2>7. CASE ~(Dist(i, j) > over)
    BY <2>2, <2>4, <2>5, <2>7
  <2> QED BY <2>6, <2>7
<1>5. Shortened(round)
  BY <1>4 DEF Shortened
<1> QED BY <1>1, <1>3, <1>5

(* After a round with k two ways that meet in k are not shorter either, and *)
(* the next node is the way's own or that of the way to k.                  *)
LEMMA BelManKeeps == ASSUME MapInv, belMan PROVE MapInv'
<1>0. PICK k : k = round
  OBVIOUS
<1> DEFINE d(i, j) == Dist(i, j)
           e(i, j) == Dist(i, j)'
<1>1. /\ k \in Nodes /\ round = k /\ round' = k + 1 /\ edges' = edges /\ belman' \in Tables /\ belman \in Tables
      /\ Shortened(k) /\ k \in Nat /\ round' \in 0 .. N /\ Ways
  BY <1>0, BelManShortens, MapConstants DEF MapInv, Nodes
<1>2. \A i, j \in Nodes : /\ d(i, j) \in Nat /\ e(i, j) \in Nat /\ d(i, j) <= Far /\ e(i, j) <= d(i, j)
                          /\ e(i, j) <= d(i, k) + d(k, j)
                          /\ e(i, j) = d(i, j) \/ e(i, j) = d(i, k) + d(k, j)
                          /\ i = k \/ j = k => e(i, j) = d(i, j)
  <2>1. \A i, j \in Nodes : d(i, j) \in Nat /\ d(i, j) <= Far
    BY <1>1, DistType
  <2> QED BY <1>1, <2>1 DEF Shortened
<1>3. EdgesTypeOK'
  BY <1>1 DEF Ways, EdgesTypeOK
<1>4. Direct'
  <2> SUFFICES ASSUME NEW i \in Nodes, NEW j \in Nodes, <<i, j>> \in DOMAIN edges
               PROVE  e(i, j) <= edges[<<i, j>>]
    BY <1>1 DEF Direct
  <2>1. edges[<<i, j>>] \in Int /\ d(i, j) <= edges[<<i, j>>]
    BY <1>1, MapConstants DEF Ways, EdgesTypeOK, Direct
  <2> QED BY <1>2, <2>1
<1>5. Through'
  <2> SUFFICES ASSUME NEW i \in Nodes, NEW m \in Nodes, NEW j \in Nodes,
                      i # j, i # m, m # j, m < k + 1
               PROVE  e(i, j) <= e(i, m) + e(m, j)
    BY <1>1 DEF Through
  <2>0. m \in Int /\ k \in Int /\ (m = k \/ m < k)
    BY <1>1, MapConstants DEF Nodes
  <2>1. CASE m = k
    BY <1>1, <1>2, <2>1
  <2>2. CASE m < k
    <3>1. \A a, b \in Nodes : a # b /\ a # m /\ b # m => d(a, b) <= d(a, m) + d(m, b)
      BY <1>1, <2>2 DEF Ways, Through
    <3>2. d(i, j) <= d(i, m) + d(m, j)
      BY <3>1
    <3>3. j # k => d(k, j) <= d(k, m) + d(m, j)
      BY <1>1, <2>0, <2>2, <3>1
    <3>4. i # k => d(i, k) <= d(i, m) + d(m, k)
      BY <1>1, <2>0, <2>2, <3>1
    <3> QED
      <4>1. /\ d(i, m) \in Nat /\ d(m, j) \in Nat /\ d(i, k) \in Nat /\ d(k, j) \in Nat
            /\ d(k, m) \in Nat /\ d(m, k) \in Nat /\ d(i, j) \in Nat
            /\ e(i, j) <= d(i, j) /\ e(i, j) <= d(i, k) + d(k, j) /\ e(i, j) \in Nat
        BY <1>1, <1>2
      <4>2. /\ e(i, m) = d(i, m) \/ e(i, m) = d(i, k) + d(k, m)
            /\ e(m, j) = d(m, j) \/ e(m, j) = d(m, k) + d(k, j)
            /\ i = k => e(i, m) = d(i, m)
            /\ j = k => e(m, j) = d(m, j)
            /\ i = k => e(i, j) = d(i, j)
            /\ j = k => e(i, j) = d(i, j)
        BY <1>2
      <4> HIDE DEF d, e
      <4> QED BY <3>2, <3>3, <3>4, <4>1, <4>2
  <2> QED BY <2>0, <2>1, <2>2
<1>6. NextIsOn'
  <2> SUFFICES ASSUME NEW i \in Nodes, NEW j \in Nodes, i # j, e(i, j) < Far
               PROVE  OnTheWay(i, NextV(i, j), j)'
    BY DEF NextIsOn
  <2>1. ASSUME NEW x \in Nodes, NEW v, <<x, v>> \in DOMAIN edges
        PROVE  v \in Nodes /\ v # x /\ edges[<<x, v>>] \in Nat \ {0} /\ d(x, v) <= edges[<<x, v>>]
    <3>1. <<x, v>> \in Pairs
      BY <1>1, <2>1 DEF Ways, EdgesTypeOK
    <3>2. v \in Nodes
      BY <3>1 DEF Pairs
    <3> QED BY <1>1, <2>1, <3>2, MapConstants DEF Ways, EdgesTypeOK, Direct
  <2>2. \A a, m, b \in Nodes : a # b /\ a # m /\ b # m /\ m < k => d(a, b) <= d(a, m) + d(m, b)
    BY <1>1 DEF Ways, Through
  <2>3. CASE d(i, j) > d(i, k) + d(k, j)
    <3>0. PICK v : v = NextV(i, k)
      OBVIOUS
    <3>1. e(i, j) = d(i, k) + d(k, j) /\ NextV(i, j)' = v /\ i # k /\ j # k /\ d(i, k) < Far
      <4>1. /\ d(i, j) \in Nat /\ d(i, k) \in Nat /\ d(k, j) \in Nat /\ d(k, k) \in Nat
            /\ d(i, j) <= Far
        BY <1>1, <1>2
      <4>2. i # k /\ j # k
        BY <2>3, <4>1
      <4>3. ~(d(i, j) <= d(i, k) + d(k, j)) /\ d(i, k) < Far
        BY <2>3, <4>1, MapConstants
      <4>4. e(i, j) = d(i, k) + d(k, j) /\ NextV(i, j)' = NextV(i, k)
        BY <1>1, <4>3 DEF Shortened
      <4> QED BY <3>0, <4>2, <4>3, <4>4
    <3>2. <<i, v>> \in DOMAIN edges /\ (v = k \/ v < k) /\ d(i, k) = edges[<<i, v>>] + Rest(v, k)
      BY <1>1, <3>0, <3>1 DEF Ways, NextIsOn, OnTheWay
    <3>3. v \in Nodes /\ v # i /\ edges[<<i, v>>] \in Nat \ {0} /\ d(i, v) <= edges[<<i, v>>]
      BY <2>1, <3>2
    <3>4. v # j
      <4> SUFFICES ASSUME v = j PROVE FALSE
        OBVIOUS
      <4>1. d(i, k) = edges[<<i, j>>] + d(j, k) /\ d(i, j) <= edges[<<i, j>>]
        BY <3>1, <3>2, <3>3 DEF Rest
      <4>2. d(i, j) \in Nat /\ d(j, k) \in Nat /\ d(k, j) \in Nat /\ edges[<<i, j>>] \in Nat
        BY <1>1, <1>2, <3>3
      <4> QED BY <2>3, <4>1, <4>2
    <3>5. e(i, j) = edges[<<i, v>>] + e(v, j)
      <4>1. CASE v = k
        <5>1. e(v, j) = d(k, j)
          BY <1>1, <1>2, <4>1
        <5>2. d(i, k) = edges[<<i, v>>]
          BY <3>2, <3>3, <4>1 DEF Rest
        <5> QED BY <3>1, <5>1, <5>2
      <4>2. CASE v # k
        <5>1. d(i, k) = edges[<<i, v>>] + d(v, k)
          BY <3>2, <4>2 DEF Rest
        <5>2. v < k /\ d(i, j) <= d(i, v) + d(v, j)
          BY <2>2, <3>2, <3>3, <3>4, <4>2
        <5>3. /\ d(v, j) \in Nat /\ d(v, k) \in Nat /\ d(k, j) \in Nat /\ d(i, v) \in Nat /\ d(i, k) \in Nat /\ d(i, j) \in Nat
          BY <1>1, <1>2, <3>3
        <5>4. d(v, j) > d(v, k) + d(k, j)
          BY <2>3, <3>3, <5>1, <5>2, <5>3
        <5>5. e(v, j) = d(v, k) + d(k, j)
          BY <1>1, <1>2, <3>3, <5>3, <5>4
        <5> QED BY <3>1, <3>3, <5>1, <5>3, <5>5
      <4> QED BY <4>1, <4>2
    <3>6. Rest(v, j)' = e(v, j)
      BY <3>4 DEF Rest
    <3>7. v < round'
      BY <1>1, <3>2, <3>3, MapConstants DEF Nodes
    <3> QED BY <1>1, <3>1, <3>2, <3>5, <3>6, <3>7 DEF OnTheWay, Rest
  <2>4. CASE ~(d(i, j) > d(i, k) + d(k, j))
    <3>0. PICK v : v = NextV(i, j)
      OBVIOUS
    <3>1. e(i, j) = d(i, j) /\ NextV(i, j)' = v /\ d(i, j) < Far
      BY <1>1, <1>2, <2>4, <3>0 DEF Shortened
    <3>2. <<i, v>> \in DOMAIN edges /\ (v = j \/ v < k) /\ d(i, j) = edges[<<i, v>>] + Rest(v, j)
      BY <1>1, <3>0, <3>1 DEF Ways, NextIsOn, OnTheWay
    <3>3. v \in Nodes /\ v # i /\ edges[<<i, v>>] \in Nat \ {0} /\ d(i, v) <= edges[<<i, v>>]
      BY <2>1, <3>2
    <3>4. v # j => e(v, j) = d(v, j)
      <4> SUFFICES ASSUME v # j PROVE d(v, j) <= d(v, k) + d(k, j) \/ j = k \/ v = k
        BY <1>1, <1>2, <3>3
      <4> SUFFICES ASSUME j # k, v # k PROVE d(v, j) <= d(v, k) + d(k, j)
        OBVIOUS
      <4>1. v < k /\ d(i, j) = edges[<<i, v>>] + d(v, j)
        BY <3>2 DEF Rest
      <4>2. /\ d(v, j) \in Nat /\ d(v, k) \in Nat /\ d(k, j) \in Nat /\ d(i, v) \in Nat /\ d(i, k) \in Nat /\ d(i, j) \in Nat
        BY <1>1, <1>2, <3>3
      <4>3. CASE i = k
        BY <3>3, <4>1, <4>2, <4>3
      <4>4. CASE i # k
        <5>1. d(i, k) <= d(i, v) + d(v, k)
          BY <1>1, <2>2, <3>3, <4>1, <4>4
        <5> QED BY <2>4, <3>3, <4>1, <4>2, <5>1
      <4> QED BY <4>3, <4>4
    <3>5. Rest(v, j)' = Rest(v, j)
      BY <3>4 DEF Rest
    <3>6. v = j \/ v < round'
      BY <1>1, <3>2, <3>3, MapConstants DEF Nodes
    <3> QED BY <1>1, <3>1, <3>2, <3>5, <3>6 DEF OnTheWay, Rest
  <2> QED BY <2>3, <2>4
<1> QED BY <1>1, <1>3, <1>4, <1>5, <1>6 DEF MapInv, Ways

(* Every step of the map graph keeps the invariant.                         *)
LEMMA MapStep == ASSUME MapInv, [NextMap]_mapVars PROVE MapInv'
<1>1. CASE UNCHANGED mapVars
  BY <1>1 DEF mapVars, MapInv, Ways, EdgesTypeOK, Direct, Through, NextIsOn, OnTheWay, Rest, Dist, NextV
<1> QED BY <1>1, CreateKeeps, BelManKeeps DEF NextMap

-----------------------------------------------------------------------------
(* The sum that LengthOf speaks of exists.                                  *)
LEMMA LengthIs ==
  ASSUME NEW w, Len(w) \in Nat \ {0}
  PROVE  \E sum : /\ sum[1] = 0
                  /\ \A n \in 1 .. (Len(w) - 1) : sum[n + 1] = sum[n] + edges[<<w[n], w[n + 1]>>]
                  /\ LengthOf(w) = IF \A n \in 1 .. (Len(w) - 1) : <<w[n], w[n + 1]>> \in DOMAIN edges
                                   THEN sum[Len(w)] ELSE Far
<1> DEFINE L == Len(w)
           next(g, n) == IF n = 1 THEN 0 ELSE g[n - 1] + edges[<<w[n - 1], w[n]>>]
           sum == CHOOSE g : g = [n \in 1 .. L |-> next(g, n)]
           A == {m \in Nat : \E g : g = [n \in 1 .. m |-> next(g, n)]}
<1>1. LengthOf(w) = IF \A n \in 1 .. (L - 1) : <<w[n], w[n + 1]>> \in DOMAIN edges THEN sum[L] ELSE Far
  BY DEF LengthOf
<1>2. Nat \subseteq A
  <2>1. 0 \in A
    <3> DEFINE g == [n \in 1 .. 0 |-> 0]
    <3>1. g = [n \in 1 .. 0 |-> next(g, n)]
      OBVIOUS
    <3> QED BY <3>1
  <2>2. ASSUME NEW m \in Nat, m \in A PROVE m + 1 \in A
    <3>1. PICK g : g = [n \in 1 .. m |-> next(g, n)]
      BY <2>2
    <3> DEFINE h == [n \in 1 .. (m + 1) |-> next(g, n)]
    <3>2. \A n \in 1 .. m : h[n] = g[n]
      <4>1. \A n \in 1 .. m : n \in 1 .. (m + 1)
        OBVIOUS
      <4>2. \A n \in 1 .. m : g[n] = next(g, n)
        BY <3>1
      <4> HIDE DEF next
      <4> QED BY <4>1, <4>2
    <3>3. \A n \in 1 .. (m + 1) : next(h, n) = next(g, n)
      <4> HIDE DEF h
      <4>1. \A n \in 1 .. (m + 1) : n # 1 => n - 1 \in 1 .. m
        OBVIOUS
      <4> QED BY <3>2, <4>1
    <3>4. h = [n \in 1 .. (m + 1) |-> next(h, n)]
      <4> HIDE DEF next
      <4>1. h = [n \in 1 .. (m + 1) |-> next(g, n)]
        OBVIOUS
      <4> HIDE DEF h
      <4> QED BY <3>3, <4>1
    <3> HIDE DEF h, next
    <3>5. \E f : f = [n \in 1 .. (m + 1) |-> next(f, n)]
      BY <3>4
    <3> QED BY <3>5
  <2> HIDE DEF A
  <2> QED BY <2>1, <2>2, Induction
<1>3. sum = [n \in 1 .. L |-> next(sum, n)]
  <2>1. \E g : g = [n \in 1 .. L |-> next(g, n)]
    BY <1>2
  <2> HIDE DEF next
  <2> QED BY <2>1
<1> HIDE DEF sum
<1>4. sum[1] = 0
  BY <1>3
<1>5. ASSUME NEW n \in 1 .. (L - 1) PROVE sum[n + 1] = sum[n] + edges[<<w[n], w[n + 1]>>]
  <2>1. n + 1 \in 1 .. L /\ n + 1 # 1 /\ (n + 1) - 1 = n
    OBVIOUS
  <2> QED BY <1>3, <2>1
<1> QED BY <1>1, <1>4, <1>5

(* A walk is a sequence of nodes without repetition.                        *)
LEMMA WalkIs ==
  ASSUME NEW k \in 0 .. N, NEW w \in Walks[k]
  PROVE  w \in Seq(Nodes) /\ Len(w) \in 0 .. k /\ \A a \in 1 .. Len(w) : w[a] \in Nodes /\ w[a] < k
<1>1. PICK n \in 0 .. k : w \in [1 .. n -> 0 .. (k - 1)]
  BY DEF Walks
<1>2. n \in Nat /\ 0 .. (k - 1) \subseteq Nodes
  BY MapConstants DEF Nodes
<1>3. w \in Seq(0 .. (k - 1)) /\ Len(w) = n
  BY <1>1, <1>2
<1>4. \A a \in 1 .. Len(w) : w[a] \in 0 .. (k - 1)
  BY <1>1, <1>3
<1>5. w \in Seq(Nodes)
  BY <1>1, <1>2, <1>3
<1>6. \A x \in 0 .. (k - 1) : x < k
  BY MapConstants
<1> QED BY <1>2, <1>3, <1>4, <1>5, <1>6

(* The way from i over the nodes of a walk to j.                            *)
LEMMA WayIs ==
  ASSUME NEW i \in Nodes, NEW j \in Nodes, NEW w \in Seq(Nodes),
         NEW way, way = <<i>> \o w \o <<j>>
  PROVE  /\ Len(way) = Len(w) + 2 /\ Len(w) \in Nat
         /\ way[1] = i /\ way[Len(w) + 2] = j
         /\ \A n \in 1 .. Len(w) : way[n + 1] = w[n]
         /\ \A n \in 1 .. Len(way) : way[n] \in Nodes
<1>1. <<i>> \o w \in Seq(Nodes) /\ Len(<<i>> \o w) = Len(w) + 1 /\ Len(w) \in Nat
  OBVIOUS
<1>2. \A n \in 1 .. (Len(w) + 1) : (<<i>> \o w)[n] = IF n = 1 THEN i ELSE w[n - 1]
  <2> DEFINE p == <<i>>
             q == <<i>> \o w
             m == Len(w)
  <2>1. p \in Seq(Nodes) /\ Len(p) = 1 /\ p[1] = i /\ m \in Nat
    OBVIOUS
  <2>2. \A n \in 1 .. (Len(p) + m) : q[n] = IF n <= Len(p) THEN p[n] ELSE w[n - Len(p)]
    BY <2>1, ConcatProperties
  <2> SUFFICES ASSUME NEW n \in 1 .. (m + 1) PROVE q[n] = IF n = 1 THEN i ELSE w[n - 1]
    OBVIOUS
  <2> HIDE DEF p, q, m
  <2>3. n \in 1 .. (Len(p) + m) /\ (n <= Len(p) <=> n = 1) /\ n - Len(p) = n - 1
    BY <2>1
  <2>4. q[n] = IF n = 1 THEN p[n] ELSE w[n - 1]
    BY <2>2, <2>3
  <2> QED BY <2>1, <2>4
<1>3. way \in Seq(Nodes) /\ Len(way) = Len(w) + 2
  BY <1>1
<1>4. \A n \in 1 .. (Len(w) + 2) : way[n] = IF n = Len(w) + 2 THEN j ELSE (<<i>> \o w)[n]
  BY <1>1
<1>5. way[1] = i /\ way[Len(w) + 2] = j
  BY <1>1, <1>2, <1>4
<1>6. \A n \in 1 .. Len(w) : way[n + 1] = w[n]
  <2> TAKE n \in 1 .. Len(w)
  <2>1. n + 1 \in 1 .. (Len(w) + 1) /\ n + 1 \in 1 .. (Len(w) + 2) /\ n + 1 # 1 /\ n + 1 # Len(w) + 2 /\ (n + 1) - 1 = n
    BY <1>1
  <2> QED BY <1>2, <1>4, <2>1
<1>7. \A n \in 1 .. Len(way) : way[n] \in Nodes
  BY <1>3
<1> QED BY <1>1, <1>3, <1>5, <1>6, <1>7

(* No way is shorter than the table says.                                   *)
LEMMA NoneIsShorter ==
  ASSUME MapInv, round >= 0, NEW i \in Nodes, NEW j \in Nodes, i # j, NEW w \in Walks[round],
         NEW way, way = <<i>> \o w \o <<j>>
  PROVE  LengthOf(way) \in Nat /\ Dist(i, j) <= LengthOf(way)
<1>0. round \in 0 .. N /\ Ways /\ belman \in Tables
  BY DEF MapInv
<1>1. /\ w \in Seq(Nodes) /\ Len(w) \in 0 .. round
      /\ \A a \in 1 .. Len(w) : w[a] \in Nodes /\ w[a] < round
  BY <1>0, WalkIs
<1>2. /\ Len(way) = Len(w) + 2 /\ Len(w) \in Nat
      /\ way[1] = i /\ way[Len(w) + 2] = j
      /\ \A n \in 1 .. Len(w) : way[n + 1] = w[n]
      /\ \A n \in 1 .. Len(way) : way[n] \in Nodes
  BY <1>1, WayIs
<1>3. PICK sum : /\ sum[1] = 0
                 /\ \A n \in 1 .. (Len(way) - 1) : sum[n + 1] = sum[n] + edges[<<way[n], way[n + 1]>>]
                 /\ LengthOf(way) = IF \A n \in 1 .. (Len(way) - 1) : <<way[n], way[n + 1]>> \in DOMAIN edges
                                    THEN sum[Len(way)] ELSE Far
  <2>1. Len(way) \in Nat \ {0}
    BY <1>2
  <2> QED BY <2>1, LengthIs, Zenon
<1>4. CASE ~\A n \in 1 .. (Len(way) - 1) : <<way[n], way[n + 1]>> \in DOMAIN edges
  <2>1. LengthOf(way) = Far
    BY <1>3, <1>4
  <2> QED BY <1>0, <2>1, DistType, MapConstants
<1>5. CASE \A n \in 1 .. (Len(way) - 1) : <<way[n], way[n + 1]>> \in DOMAIN edges
  <2> DEFINE L == Len(w) + 2
             B == {m \in Nat : m + 1 <= L => /\ sum[m + 1] \in Nat
                                             /\ way[m + 1] # i => Dist(i, way[m + 1]) <= sum[m + 1]}
  <2>1. 0 \in B
    <3>1. sum[0 + 1] = 0 /\ way[0 + 1] = i
      BY <1>2, <1>3
    <3>2. /\ 0 + 1 <= L => /\ sum[0 + 1] \in Nat
                           /\ way[0 + 1] # i => Dist(i, way[0 + 1]) <= sum[0 + 1]
      BY <3>1
    <3> HIDE DEF L
    <3> QED BY <3>2
  <2>2. ASSUME NEW m \in Nat, m \in B PROVE m + 1 \in B
    <3> SUFFICES ASSUME (m + 1) + 1 <= L
                 PROVE  /\ sum[(m + 1) + 1] \in Nat
                        /\ way[(m + 1) + 1] # i => Dist(i, way[(m + 1) + 1]) <= sum[(m + 1) + 1]
      <4>1. m + 1 \in Nat
        OBVIOUS
      <4> HIDE DEF L
      <4> QED BY <4>1
    <3> DEFINE x == way[m + 1]
               y == way[(m + 1) + 1]
               e == edges[<<x, y>>]
               s == sum[m + 1]
    <3>1. m + 1 \in 1 .. (Len(way) - 1) /\ m + 1 \in 1 .. Len(way) /\ (m + 1) + 1 \in 1 .. Len(way) /\ m + 1 <= L
      BY <1>2
    <3>2. <<x, y>> \in DOMAIN edges /\ sum[(m + 1) + 1] = s + e /\ x \in Nodes /\ y \in Nodes
      BY <1>2, <1>3, <1>5, <3>1
    <3>3. x # y /\ e \in Nat /\ Dist(x, y) <= e
      <4>1. x # y /\ e \in Nat
        <5> DEFINE p == <<x, y>>
        <5>1. p[1] = x /\ p[2] = y /\ e = edges[p]
          OBVIOUS
        <5> HIDE DEF p, x, y, e
        <5>2. p \in DOMAIN edges
          BY <3>2 DEF p
        <5>3. p[1] # p[2] /\ edges[p] \in 1 .. (Far - 1)
          BY <1>0, <5>2 DEF Ways, EdgesTypeOK
        <5> QED BY <5>1, <5>3, MapConstants
      <4>2. Dist(x, y) <= e
        BY <1>0, <3>2 DEF Ways, Direct
      <4> QED BY <4>1, <4>2
    <3>4. s \in Nat /\ (x # i => Dist(i, x) <= s)
      BY <2>2, <3>1
    <3>5. x # i => x < round
      <4> SUFFICES ASSUME x # i PROVE x < round
        OBVIOUS
      <4>1. m # 0
        <5>1. m = 0 => x = way[1]
          OBVIOUS
        <5> QED BY <1>2, <5>1
      <4>2. m \in 1 .. Len(w)
        BY <1>2, <4>1
      <4>3. x = w[m]
        BY <1>2, <4>2
      <4> QED BY <1>1, <4>2, <4>3
    <3>6. /\ Dist(i, x) \in Nat /\ Dist(i, y) \in Nat /\ Dist(x, y) \in Nat
      BY <1>0, <3>2, DistType
    <3>7. ASSUME y # i PROVE Dist(i, y) <= s + e
      <4>1. CASE x = i
        <5> HIDE DEF x, y, e, s
        <5> QED BY <3>3, <3>4, <3>6, <4>1
      <4>2. CASE x # i
        <5>1. Dist(i, y) <= Dist(i, x) + Dist(x, y)
          BY <1>0, <3>2, <3>3, <3>5, <3>7, <4>2 DEF Ways, Through
        <5> HIDE DEF x, y, e, s
        <5> QED BY <3>3, <3>4, <3>6, <4>2, <5>1
      <4> QED BY <4>1, <4>2
    <3>8. s + e \in Nat
      <4>1. s \in Nat /\ e \in Nat
        BY <3>3, <3>4
      <4> HIDE DEF s, e
      <4> QED BY <4>1
    <3> HIDE DEF x, s, e
    <3> QED BY <3>2, <3>7, <3>8
  <2> HIDE DEF B
  <2>3. Nat \subseteq B
    BY <2>1, <2>2, Induction
  <2>4. L - 1 \in B /\ (L - 1) + 1 = L
    <3>1. L - 1 \in Nat /\ (L - 1) + 1 = L
      BY <1>2
    <3> QED BY <2>3, <3>1
  <2>5. sum[L] \in Nat /\ Dist(i, j) <= sum[L]
    <3>1. (L - 1) + 1 <= L
      BY <1>2
    <3>2. sum[(L - 1) + 1] \in Nat /\ (way[(L - 1) + 1] # i => Dist(i, way[(L - 1) + 1]) <= sum[(L - 1) + 1])
      BY <2>4, <3>1 DEF B
    <3> QED BY <1>2, <2>4, <3>2
  <2> QED BY <1>2, <1>3, <1>5, <2>5
<1> QED BY <1>4, <1>5

-----------------------------------------------------------------------------
(* A walk of nodes that come nearer and nearer to j.                        *)
Leads(i, w, j) ==
  LET way == <<i>> \o w \o <<j>> IN
  /\ \A a \in 1 .. Len(w) : w[a] # j /\ Dist(w[a], j) < Dist(i, j)
  /\ \A n \in 1 .. (Len(w) + 1) :
       /\ <<way[n], way[n + 1]>> \in DOMAIN edges
       /\ Rest(way[n], j) = edges[<<way[n], way[n + 1]>>] + Rest(way[n + 1], j)

(* Such a walk leads from i to j.                                           *)
Followed(i, j) == \E w \in Walks[round] : Leads(i, w, j)

(* The ends and the length of an edge.                                      *)
LEMMA EdgeIs ==
  ASSUME EdgesTypeOK, NEW x, NEW y, <<x, y>> \in DOMAIN edges
  PROVE  x \in Nodes /\ y \in Nodes /\ x # y /\ edges[<<x, y>>] \in Nat \ {0}
<1> DEFINE p == <<x, y>>
<1>1. p[1] = x /\ p[2] = y /\ p \in DOMAIN edges /\ p \in Pairs
  BY DEF EdgesTypeOK
<1>2. x \in Nodes /\ y \in Nodes
  BY <1>1, PairParts
<1> HIDE DEF p
<1>3. p[1] # p[2] /\ edges[p] \in 1 .. (Far - 1)
  BY <1>1 DEF EdgesTypeOK
<1>4. edges[p] \in Nat \ {0}
  BY <1>3, MapConstants
<1> QED BY <1>1, <1>2, <1>3, <1>4 DEF p

(* A walk without repetition, and one node before it.                       *)
LEMMA WalkOn ==
  ASSUME NEW k \in 0 .. N, NEW w \in Walks[k], NEW v \in Nodes, v < k,
         \A a \in 1 .. Len(w) : w[a] # v
  PROVE  /\ <<v>> \o w \in Walks[k] /\ <<v>> \o w \in Seq(Nodes) /\ Len(<<v>> \o w) = Len(w) + 1
         /\ (<<v>> \o w)[1] = v /\ \A a \in 1 .. Len(w) : (<<v>> \o w)[a + 1] = w[a]
<1> DEFINE u == <<v>> \o w
           m == Len(w)
<1>1. /\ w \in Seq(Nodes) /\ m \in 0 .. k /\ \A a \in 1 .. m : w[a] \in Nodes /\ w[a] < k
  BY WalkIs
<1>2. IsInjective(w) /\ DOMAIN w = 1 .. m
  BY <1>1 DEF Walks
<1>3. u \in Seq(Nodes) /\ Len(u) = m + 1 /\ u[1] = v /\ \A a \in 1 .. m : u[a + 1] = w[a]
  <2> DEFINE p == <<v>>
  <2>1. p \in Seq(Nodes) /\ Len(p) = 1 /\ p[1] = v /\ u = p \o w
    OBVIOUS
  <2> HIDE DEF p
  <2>2. /\ p \o w \in Seq(Nodes) /\ Len(p \o w) = 1 + m
        /\ \A n \in 1 .. (1 + m) : (p \o w)[n] = IF n <= 1 THEN p[n] ELSE w[n - 1]
    BY <1>1, <2>1, ConcatProperties
  <2> HIDE DEF u, m
  <2>3. 1 \in 1 .. (1 + m) /\ m \in Nat
    BY <1>1
  <2>4. u[1] = v
    <3>1. (p \o w)[1] = p[1]
      BY <2>2, <2>3
    <3> QED BY <2>1, <3>1
  <2>5. \A a \in 1 .. m : u[a + 1] = w[a]
    <3> TAKE a \in 1 .. m
    <3>1. a + 1 \in 1 .. (1 + m) /\ ~(a + 1 <= 1) /\ (a + 1) - 1 = a
      BY <2>3
    <3> QED BY <2>1, <2>2, <3>1
  <2> QED BY <2>1, <2>2, <2>3, <2>4, <2>5
<1> HIDE DEF u, m
<1>4. u \in [1 .. (m + 1) -> 0 .. (k - 1)]
  <2>1. \A n \in 1 .. (m + 1) : u[n] = v \/ \E a \in 1 .. m : u[n] = w[a]
    <3> TAKE n \in 1 .. (m + 1)
    <3>1. n = 1 \/ n - 1 \in 1 .. m
      BY <1>1
    <3>2. (n - 1) + 1 = n
      OBVIOUS
    <3> QED BY <1>3, <3>1, <3>2
  <2>2. \A x \in Nodes : x < k => x \in 0 .. (k - 1)
    BY MapConstants DEF Nodes
  <2>3. \A n \in 1 .. (m + 1) : u[n] \in 0 .. (k - 1)
    BY <1>1, <2>1, <2>2
  <2>4. DOMAIN u = 1 .. (m + 1) /\ u = [n \in DOMAIN u |-> u[n]]
    BY <1>1, <1>3
  <2> QED BY <2>3, <2>4
<1>5. IsInjective(u)
  <2> SUFFICES ASSUME NEW a \in 1 .. (m + 1), NEW b \in 1 .. (m + 1), u[a] = u[b] PROVE a = b
    BY <1>4 DEF IsInjective
  <2>1. \A n \in 1 .. (m + 1) : \/ n = 1 /\ u[n] = v
                                \/ n - 1 \in 1 .. m /\ u[n] = w[n - 1]
    <3> TAKE n \in 1 .. (m + 1)
    <3>1. n = 1 \/ n - 1 \in 1 .. m
      BY <1>1
    <3>2. (n - 1) + 1 = n
      OBVIOUS
    <3> QED BY <1>3, <3>1, <3>2
  <2>2. \A n \in 1 .. m : w[n] # v
    BY DEF m
  <2>3. CASE a = 1 \/ b = 1
    BY <2>1, <2>2, <2>3
  <2>4. CASE a # 1 /\ b # 1
    <3>1. a - 1 \in 1 .. m /\ b - 1 \in 1 .. m /\ w[a - 1] = w[b - 1]
      BY <2>1, <2>4
    <3>2. a - 1 = b - 1
      BY <1>2, <3>1 DEF IsInjective
    <3> QED BY <3>2
  <2> QED BY <2>3, <2>4
<1>6. m + 1 \in 0 .. k
  <2>1. k \in Nat /\ m \in Nat
    BY <1>1, MapConstants
  <2>2. /\ IsFiniteSet(0 .. (k - 1)) /\ Cardinality(0 .. (k - 1)) = k
        /\ IsFiniteSet(1 .. (m + 1)) /\ Cardinality(1 .. (m + 1)) = m + 1
    <3>1. 0 \in Int /\ k - 1 \in Int /\ 1 \in Int /\ m + 1 \in Int
      BY <2>1
    <3>2. Cardinality(0 .. (k - 1)) = IF 0 > k - 1 THEN 0 ELSE (k - 1) - 0 + 1
      BY <3>1, FS_Interval
    <3>3. Cardinality(1 .. (m + 1)) = IF 1 > m + 1 THEN 0 ELSE (m + 1) - 1 + 1
      BY <3>1, FS_Interval
    <3>4. IsFiniteSet(0 .. (k - 1)) /\ IsFiniteSet(1 .. (m + 1))
      BY <3>1, FS_Interval
    <3> QED BY <2>1, <3>2, <3>3, <3>4
  <2>3. u \in Injection(1 .. (m + 1), 0 .. (k - 1))
    BY <1>4, <1>5 DEF Injection
  <2>4. Cardinality(1 .. (m + 1)) <= Cardinality(0 .. (k - 1))
    BY <2>2, <2>3, FS_Injection
  <2> QED BY <2>1, <2>2, <2>4
<1>7. u \in Walks[k]
  BY <1>4, <1>5, <1>6 DEF Walks
<1> QED BY <1>3, <1>7 DEF u, m

(* The way over no node between.                                            *)
LEMMA StraightWay ==
  ASSUME NEW x \in Nodes, NEW y \in Nodes
  PROVE  LET way == <<x>> \o <<>> \o <<y>>
         IN  Len(way) = 2 /\ way[1] = x /\ way[2] = y
<1> DEFINE e == <<x>>
           f == <<y>>
<1>1. e \in Seq(Nodes) /\ f \in Seq(Nodes) /\ Len(e) = 1 /\ Len(f) = 1 /\ e[1] = x /\ f[1] = y
  OBVIOUS
<1> HIDE DEF e, f
<1>2. e \o <<>> = e
  BY <1>1, ConcatEmptySeq
<1>3. Len(e \o f) = 2 /\ (e \o f)[1] = x /\ (e \o f)[2] = y
  <2>1. \A n \in 1 .. Len(e) + Len(f) : (e \o f)[n] = IF n <= Len(e) THEN e[n] ELSE f[n - Len(e)]
    BY <1>1, ConcatProperties, Zenon
  <2>2. Len(e \o f) = Len(e) + Len(f)
    BY <1>1, ConcatProperties, Zenon
  <2>3. 1 \in 1 .. 1 + 1 /\ 2 \in 1 .. 1 + 1 /\ 2 - 1 = 1 /\ 1 <= 1 /\ ~(2 <= 1)
    OBVIOUS
  <2> QED BY <1>1, <2>1, <2>2, <2>3
<1> QED BY <1>2, <1>3 DEF e, f

(* The empty walk is one of every round.                                    *)
LEMMA EmptyWalk == \A k \in 0 .. N : <<>> \in Walks[k]
<1> TAKE k \in 0 .. N
<1>1. 0 \in 0 .. k
  BY MapConstants
<1>2. <<>> \in [1 .. 0 -> 0 .. (k - 1)] /\ IsInjective(<<>>)
  BY DEF IsInjective
<1> QED BY <1>1, <1>2 DEF Walks

(* The next nodes of the table lead to j.                                   *)
LEMMA TableLeads ==
  ASSUME MapInv, round >= 0, NEW i \in Nodes, NEW j \in Nodes, i # j, Dist(i, j) < Far
  PROVE  Followed(i, j)
<1> DEFINE B == {n \in Nat : \A x \in Nodes : x # j /\ Dist(x, j) < Far /\ Dist(x, j) <= n => Followed(x, j)}
<1>0. round \in 0 .. N /\ Ways /\ EdgesTypeOK /\ belman \in Tables
  BY DEF MapInv, Ways
<1>1. ASSUME NEW x \in Nodes, x # j, Dist(x, j) < Far
      PROVE  \E v \in Nodes : /\ <<x, v>> \in DOMAIN edges /\ (v = j \/ v < round) /\ v # x
                              /\ edges[<<x, v>>] \in Nat \ {0}
                              /\ Dist(x, j) = edges[<<x, v>>] + Rest(v, j)
  <2>1. OnTheWay(x, NextV(x, j), j)
    BY <1>0, <1>1 DEF Ways, NextIsOn
  <2> DEFINE v == NextV(x, j)
  <2>2. /\ <<x, v>> \in DOMAIN edges /\ (v = j \/ v < round)
        /\ Dist(x, j) = edges[<<x, v>>] + Rest(v, j)
    BY <2>1 DEF OnTheWay
  <2> HIDE DEF v
  <2>3. v \in Nodes /\ v # x /\ edges[<<x, v>>] \in Nat \ {0}
    BY <1>0, <2>2, EdgeIs
  <2> QED BY <2>2, <2>3
<1>2. \A x \in Nodes : Dist(x, j) \in Nat
  BY <1>0, DistType
<1>3. ASSUME NEW n \in Nat, n \in B, NEW x \in Nodes, x # j, Dist(x, j) < Far, Dist(x, j) <= n + 1
      PROVE  Followed(x, j)
  <2>1. PICK v \in Nodes : /\ <<x, v>> \in DOMAIN edges /\ (v = j \/ v < round) /\ v # x
                           /\ edges[<<x, v>>] \in Nat \ {0}
                           /\ Dist(x, j) = edges[<<x, v>>] + Rest(v, j)
    BY <1>1, <1>3
  <2>2. Rest(x, j) = Dist(x, j) /\ Rest(j, j) = 0
    BY <1>3 DEF Rest
  <2>3. CASE v = j
    <3>1. <<>> \in Walks[round]
      BY <1>0, EmptyWalk
    <3> DEFINE way == <<x>> \o <<>> \o <<j>>
    <3>2. way[1] = x /\ way[2] = j /\ Len(<<>>) = 0
      BY StraightWay
    <3> HIDE DEF way
    <3>3. \A m \in 1 .. (Len(<<>>) + 1) : m = 1 /\ m + 1 = 2
      BY <3>2
    <3>4. \A m \in 1 .. (Len(<<>>) + 1) : /\ <<way[m], way[m + 1]>> \in DOMAIN edges
                                          /\ Rest(way[m], j) = edges[<<way[m], way[m + 1]>>] + Rest(way[m + 1], j)
      <4> TAKE m \in 1 .. (Len(<<>>) + 1)
      <4>1. way[m] = x /\ way[m + 1] = j
        BY <3>2, <3>3
      <4> QED BY <2>1, <2>2, <2>3, <4>1
    <3>5. \A a \in 1 .. Len(<<>>) : FALSE
      BY <3>2
    <3>6. Leads(x, <<>>, j)
      BY <3>4, <3>5 DEF Leads, way
    <3> QED BY <3>1, <3>6 DEF Followed
  <2>4. CASE v # j
    <3>1. Rest(v, j) = Dist(v, j) /\ v < round
      BY <2>1, <2>4 DEF Rest
    <3>2. Dist(v, j) < Dist(x, j) /\ Dist(v, j) < Far /\ Dist(v, j) <= n
      BY <1>2, <1>3, <2>1, <3>1, MapConstants
    <3>3. PICK w \in Walks[round] : Leads(v, w, j)
      BY <1>3, <2>4, <3>2 DEF Followed
    <3> DEFINE u == <<v>> \o w
               m == Len(w)
               short == <<v>> \o w \o <<j>>
               long == <<x>> \o u \o <<j>>
    <3>4. w \in Seq(Nodes) /\ m \in Nat /\ \A a \in 1 .. m : w[a] \in Nodes
      BY <1>0, WalkIs
    <3>5. \A a \in 1 .. m : w[a] # j /\ Dist(w[a], j) < Dist(v, j)
      BY <3>3 DEF Leads
    <3>6. \A a \in 1 .. m : w[a] # v
      BY <1>2, <3>4, <3>5
    <3>7. /\ u \in Walks[round] /\ u \in Seq(Nodes) /\ Len(u) = m + 1
          /\ u[1] = v /\ \A a \in 1 .. m : u[a + 1] = w[a]
      BY <1>0, <3>1, <3>6, WalkOn
    <3>8. /\ short[1] = v /\ short[m + 2] = j /\ \A a \in 1 .. m : short[a + 1] = w[a]
      BY <3>4, WayIs
    <3>9. /\ long[1] = x /\ long[(m + 1) + 2] = j /\ \A a \in 1 .. (m + 1) : long[a + 1] = u[a]
      BY <3>7, WayIs
    <3>10. /\ \A a \in 1 .. (m + 1) :
                /\ <<short[a], short[a + 1]>> \in DOMAIN edges
                /\ Rest(short[a], j) = edges[<<short[a], short[a + 1]>>] + Rest(short[a + 1], j)
      BY <3>3 DEF Leads
    <3> HIDE DEF u, m, short, long
    <3>11. \A a \in 1 .. (m + 2) : long[a + 1] = short[a]
      <4> TAKE a \in 1 .. (m + 2)
      <4>1. CASE a = m + 2
        <5>1. a + 1 = (m + 1) + 2
          BY <3>4, <4>1
        <5> QED BY <3>8, <3>9, <4>1, <5>1
      <4>2. CASE a # m + 2
        <5>1. a \in 1 .. (m + 1) /\ (a = 1 \/ a - 1 \in 1 .. m) /\ (a - 1) + 1 = a
          BY <3>4, <4>2
        <5>2. long[a + 1] = u[a]
          BY <3>9, <5>1
        <5>3. u[a] = short[a]
          BY <3>7, <3>8, <5>1
        <5> QED BY <5>2, <5>3
      <4> QED BY <4>1, <4>2
    <3>12. \A a \in 1 .. (Len(u) + 1) :
                /\ <<long[a], long[a + 1]>> \in DOMAIN edges
                /\ Rest(long[a], j) = edges[<<long[a], long[a + 1]>>] + Rest(long[a + 1], j)
      <4> TAKE a \in 1 .. (Len(u) + 1)
      <4>1. CASE a = 1
        <5>1. long[1 + 1] = short[1]
          BY <3>4, <3>11
        <5> QED BY <2>1, <2>2, <3>8, <3>9, <4>1, <5>1
      <4>2. CASE a # 1
        <5>1. a - 1 \in 1 .. (m + 1) /\ a - 1 \in 1 .. (m + 2) /\ a \in 1 .. (m + 2) /\ (a - 1) + 1 = a
          BY <3>4, <3>7, <4>2
        <5>2. long[a] = short[a - 1] /\ long[a + 1] = short[a]
          BY <3>11, <5>1
        <5> QED BY <3>10, <5>1, <5>2
      <4> QED BY <4>1, <4>2
    <3>13. \A a \in 1 .. Len(u) : u[a] # j /\ Dist(u[a], j) < Dist(x, j)
      <4> TAKE a \in 1 .. Len(u)
      <4>1. CASE a = 1
        BY <2>4, <3>2, <3>7, <4>1
      <4>2. CASE a # 1
        <5>1. a - 1 \in 1 .. m /\ (a - 1) + 1 = a
          BY <3>4, <3>7, <4>2
        <5>2. u[a] = w[a - 1] /\ w[a - 1] # j /\ Dist(w[a - 1], j) < Dist(v, j) /\ w[a - 1] \in Nodes
          BY <3>4, <3>5, <3>7, <5>1
        <5>3. Dist(w[a - 1], j) \in Nat /\ Dist(v, j) \in Nat /\ Dist(x, j) \in Nat
          BY <1>2, <5>2
        <5> QED BY <3>2, <5>2, <5>3
      <4> QED BY <4>1, <4>2
    <3>14. Leads(x, u, j)
      BY <3>12, <3>13 DEF Leads, long
    <3> QED BY <3>7, <3>14 DEF Followed
  <2> QED BY <2>3, <2>4
<1>4. 0 \in B
  <2> SUFFICES ASSUME NEW x \in Nodes, x # j, Dist(x, j) < Far, Dist(x, j) <= 0 PROVE FALSE
    OBVIOUS
  <2>1. PICK v \in Nodes : edges[<<x, v>>] \in Nat \ {0} /\ Dist(x, j) = edges[<<x, v>>] + Rest(v, j)
    BY <1>1
  <2>2. Rest(v, j) \in Nat
    BY <1>2 DEF Rest
  <2> QED BY <2>1, <2>2
<1>5. Nat \subseteq B
  <2>1. ASSUME NEW n \in Nat, n \in B PROVE n + 1 \in B
    <3>1. \A x \in Nodes : x # j /\ Dist(x, j) < Far /\ Dist(x, j) <= n + 1 => Followed(x, j)
      BY <1>3, <2>1
    <3> QED BY <3>1
  <2> HIDE DEF B
  <2> QED BY <1>4, <2>1, Induction
<1> QED BY <1>2, <1>5

(* A way over walks that lead to j is as long as the table says.            *)
LEMMA LeadsLength ==
  ASSUME MapInv, round >= 0, NEW i \in Nodes, NEW j \in Nodes, i # j, NEW w \in Walks[round], Leads(i, w, j),
         NEW way, way = <<i>> \o w \o <<j>>
  PROVE  LengthOf(way) = Dist(i, j)
<1>0. round \in 0 .. N /\ EdgesTypeOK /\ belman \in Tables
  BY DEF MapInv, Ways
<1>1. w \in Seq(Nodes)
  BY <1>0, WalkIs
<1>2. /\ Len(way) = Len(w) + 2 /\ Len(w) \in Nat
      /\ way[1] = i /\ way[Len(w) + 2] = j
      /\ \A n \in 1 .. Len(way) : way[n] \in Nodes
  BY <1>1, WayIs
<1> DEFINE L == Len(w) + 2
<1>3. PICK sum : /\ sum[1] = 0
                 /\ \A n \in 1 .. (Len(way) - 1) : sum[n + 1] = sum[n] + edges[<<way[n], way[n + 1]>>]
                 /\ LengthOf(way) = IF \A n \in 1 .. (Len(way) - 1) : <<way[n], way[n + 1]>> \in DOMAIN edges
                                    THEN sum[Len(way)] ELSE Far
  <2>1. Len(way) \in Nat \ {0}
    BY <1>2
  <2> QED BY <2>1, LengthIs, Zenon
<1>4. \A n \in 1 .. (L - 1) :
        /\ <<way[n], way[n + 1]>> \in DOMAIN edges
        /\ Rest(way[n], j) = edges[<<way[n], way[n + 1]>>] + Rest(way[n + 1], j)
  <2>1. \A n \in 1 .. (Len(w) + 1) :
          /\ <<way[n], way[n + 1]>> \in DOMAIN edges
          /\ Rest(way[n], j) = edges[<<way[n], way[n + 1]>>] + Rest(way[n + 1], j)
    BY DEF Leads
  <2>2. L - 1 = Len(w) + 1
    BY <1>2
  <2> HIDE DEF L
  <2> QED BY <2>1, <2>2
<1>5. \A x \in Nodes : Rest(x, j) \in Nat
  BY <1>0, DistType DEF Rest
<1> DEFINE B == {m \in Nat : m + 1 <= L => sum[m + 1] = Dist(i, j) - Rest(way[m + 1], j)}
<1>6. 0 \in B
  <2>1. sum[0 + 1] = 0 /\ way[0 + 1] = i
    BY <1>2, <1>3
  <2>2. Dist(i, j) - Rest(i, j) = 0
    BY <1>0, DistType DEF Rest
  <2> HIDE DEF L
  <2> QED BY <2>1, <2>2
<1>7. ASSUME NEW m \in Nat, m \in B PROVE m + 1 \in B
  <2> SUFFICES ASSUME (m + 1) + 1 <= L PROVE sum[(m + 1) + 1] = Dist(i, j) - Rest(way[(m + 1) + 1], j)
    <3>1. m + 1 \in Nat
      OBVIOUS
    <3> HIDE DEF L
    <3> QED BY <3>1
  <2> DEFINE x == way[m + 1]
             y == way[(m + 1) + 1]
             e == edges[<<x, y>>]
  <2>1. /\ m + 1 \in 1 .. (L - 1) /\ m + 1 \in 1 .. (Len(way) - 1)
        /\ m + 1 \in 1 .. Len(way) /\ (m + 1) + 1 \in 1 .. Len(way) /\ m + 1 <= L
    BY <1>2
  <2>2. /\ <<x, y>> \in DOMAIN edges /\ Rest(x, j) = e + Rest(y, j)
        /\ sum[(m + 1) + 1] = sum[m + 1] + e
    BY <1>3, <1>4, <2>1
  <2>3. sum[m + 1] = Dist(i, j) - Rest(x, j)
    BY <1>7, <2>1
  <2>4. e \in Nat
    <3> HIDE DEF x, y
    <3> QED BY <1>0, <2>2, EdgeIs
  <2>5. Rest(x, j) \in Nat /\ Rest(y, j) \in Nat /\ Dist(i, j) \in Nat
    BY <1>0, <1>2, <1>5, <2>1, DistType
  <2> HIDE DEF x, y, e
  <2>6. sum[(m + 1) + 1] = Dist(i, j) - Rest(y, j)
    BY <2>2, <2>3, <2>4, <2>5
  <2> QED BY <2>6 DEF y
<1> HIDE DEF B
<1>8. Nat \subseteq B
  BY <1>6, <1>7, Induction
<1>9. L - 1 \in B /\ (L - 1) + 1 = L
  <2>1. L - 1 \in Nat /\ (L - 1) + 1 = L
    BY <1>2
  <2> QED BY <1>8, <2>1
<1>10. sum[L] = Dist(i, j)
  <2>1. (L - 1) + 1 <= L
    BY <1>2
  <2>2. sum[(L - 1) + 1] = Dist(i, j) - Rest(way[(L - 1) + 1], j)
    BY <1>9, <2>1 DEF B
  <2>3. Rest(j, j) = 0 /\ Dist(i, j) \in Nat
    BY <1>0, DistType DEF Rest
  <2> QED BY <1>2, <1>9, <2>2, <2>3
<1> QED BY <1>2, <1>3, <1>4, <1>10

(* The table has the lengths of shortest ways.                              *)
LEMMA TableIsShortest ==
  ASSUME MapInv, round >= 0, NEW i \in Nodes, NEW j \in Nodes, i # j
  PROVE  Dist(i, j) = Shortest(i, j, round)
<1> DEFINE lengths == {LengthOf(<<i>> \o w \o <<j>>) : w \in Walks[round]}
<1>0. round \in 0 .. N /\ Ways /\ EdgesTypeOK /\ belman \in Tables
  BY DEF MapInv, Ways
<1>1. \A l \in lengths : l \in Nat /\ Dist(i, j) <= l
  BY NoneIsShorter
<1>2. Dist(i, j) \in Nat /\ Dist(i, j) <= Far
  BY <1>0, DistType
<1>3. Dist(i, j) \in lengths
  <2>1. CASE Dist(i, j) < Far
    <3>1. PICK w \in Walks[round] : Leads(i, w, j)
      BY <2>1, TableLeads DEF Followed
    <3>2. LengthOf(<<i>> \o w \o <<j>>) = Dist(i, j)
      BY <3>1, LeadsLength
    <3> QED BY <3>2
  <2>2. CASE ~(Dist(i, j) < Far)
    <3>1. Dist(i, j) = Far
      BY <1>2, <2>2, MapConstants
    <3>2. <<i, j>> \notin DOMAIN edges
      <4> SUFFICES ASSUME <<i, j>> \in DOMAIN edges PROVE FALSE
        OBVIOUS
      <4>1. Dist(i, j) <= edges[<<i, j>>]
        BY <1>0 DEF Ways, Direct
      <4>2. edges[<<i, j>>] \in 1 .. (Far - 1)
        BY <1>0 DEF EdgesTypeOK
      <4> QED BY <3>1, <4>1, <4>2, MapConstants
    <3> DEFINE way == <<i>> \o <<>> \o <<j>>
    <3>3. way[1] = i /\ way[2] = j /\ Len(way) = 2
      BY StraightWay
    <3>4. LengthOf(way) = Far
      <4> HIDE DEF way
      <4>1. Len(way) \in Nat \ {0}
        BY <3>3
      <4>2. PICK sum : LengthOf(way) = IF \A n \in 1 .. (Len(way) - 1) : <<way[n], way[n + 1]>> \in DOMAIN edges
                                       THEN sum[Len(way)] ELSE Far
        BY <4>1, LengthIs, Zenon
      <4>3. 1 \in 1 .. (Len(way) - 1) /\ <<way[1], way[1 + 1]>> \notin DOMAIN edges
        BY <3>2, <3>3
      <4> QED BY <4>2, <4>3
    <3>5. <<>> \in Walks[round]
      BY <1>0, EmptyWalk
    <3> QED BY <3>1, <3>4, <3>5
  <2> QED BY <2>1, <2>2
<1> HIDE DEF lengths
<1>4. (CHOOSE l \in lengths : \A m \in lengths : l <= m) = Dist(i, j)
  <2>1. \A l \in lengths : (\A m \in lengths : l <= m) => l = Dist(i, j)
    BY <1>1, <1>2, <1>3
  <2> QED BY <1>1, <1>3, <2>1
<1> QED BY <1>4 DEF Shortest, lengths

(* What ShortestRoutes says of the rounds.                                  *)
LEMMA RoundsShorten == MapInv => (round \in 0 .. N => RoundShortens)
<1> SUFFICES ASSUME MapInv, round \in 0 .. N, NEW i \in Nodes, NEW j \in Nodes, i # j
             PROVE  /\ Dist(i, j) = Shortest(i, j, round)
                    /\ Dist(i, j) < Far =>
                         /\ <<i, NextV(i, j)>> \in DOMAIN edges
                         /\ Dist(i, j) = edges[<<i, NextV(i, j)>>]
                                           + (IF NextV(i, j) = j THEN 0 ELSE Dist(NextV(i, j), j))
  BY DEF RoundShortens, Dist, NextV
<1>1. round >= 0
  BY MapConstants
<1> QED BY <1>1, TableIsShortest DEF MapInv, Ways, NextIsOn, OnTheWay, Rest

-----------------------------------------------------------------------------
(* The pairs that findPath may go over.                                     *)
Linked == {p \in Pairs : p[1] = p[2] \/ belman[p][1] < Far}

(* The recursive function way of findPath.                                  *)
IsRoute(way) ==
  way = [p \in Linked |-> IF p[1] = p[2] THEN <<>> ELSE <<p[1]>> \o way[<<belman[p][2], p[2]>>]]

(* From the next node it is not as far to the goal.                         *)
LEMMA NextLinked ==
  ASSUME MapInv, round >= 0, NEW p \in Linked, p[1] # p[2]
  PROVE  \E q \in Linked : /\ q = <<belman[p][2], p[2]>> /\ q[1] = belman[p][2] /\ q[2] = p[2]
                           /\ <<p[1], q[1]>> \in DOMAIN edges /\ q[1] \in Nodes
                           /\ q[1] # q[2] => belman[q][1] < belman[p][1]
<1> DEFINE i == p[1]
           j == p[2]
           v == NextV(i, j)
           q == <<v, j>>
<1>0. Ways /\ EdgesTypeOK /\ belman \in Tables
  BY DEF MapInv, Ways
<1>1. i \in Nodes /\ j \in Nodes /\ p = <<i, j>> /\ belman[p][2] = v /\ belman[p][1] = Dist(i, j) /\ Dist(i, j) < Far
  BY PairParts DEF Linked, Dist, NextV
<1>2. OnTheWay(i, v, j)
  BY <1>0, <1>1 DEF Ways, NextIsOn
<1> HIDE DEF v, i, j
<1>3. /\ <<i, v>> \in DOMAIN edges /\ v \in Nodes /\ edges[<<i, v>>] \in Nat \ {0}
      /\ Dist(i, j) = edges[<<i, v>>] + Rest(v, j)
  BY <1>0, <1>2, EdgeIs DEF OnTheWay
<1>4. q[1] = v /\ q[2] = j /\ q \in Pairs /\ belman[q][1] = Dist(v, j) /\ Dist(v, j) \in Nat /\ Dist(i, j) \in Nat
  BY <1>0, <1>1, <1>3, DistType DEF Pairs, Dist
<1>5. v # j => Dist(v, j) < Dist(i, j)
  BY <1>3, <1>4 DEF Rest
<1>6. q \in Linked
  BY <1>1, <1>4, <1>5, MapConstants DEF Linked
<1> QED BY <1>1, <1>3, <1>4, <1>5, <1>6 DEF i, j

(* How far a pair is from its goal.                                         *)
Ahead(p) == IF p[1] = p[2] THEN 0 ELSE belman[p][1]

(* It is a number.                                                          *)
LEMMA AheadType ==
  ASSUME MapInv, NEW p \in Pairs
  PROVE  Ahead(p) \in Nat
BY TableEntry, MapConstants DEF MapInv, Ahead

(* It exists: by induction over the distance that is left.                  *)
LEMMA RouteExists ==
  ASSUME MapInv, round >= 0
  PROVE  \E way : IsRoute(way)
<1> DEFINE next(g, p) == IF p[1] = p[2] THEN <<>> ELSE <<p[1]>> \o g[<<belman[p][2], p[2]>>]
           Near0(n) == {p \in Linked : Ahead(p) <= n}
           A == {n \in Nat : \E g : g = [p \in Near0(n) |-> next(g, p)]}
<1>0. \A p \in Linked : p \in Pairs /\ Ahead(p) \in Nat
  BY AheadType DEF Linked
<1>1. ASSUME NEW n \in Nat, NEW p \in Near0(n + 1), p[1] # p[2]
      PROVE  <<belman[p][2], p[2]>> \in Near0(n)
  <2>1. PICK q \in Linked : /\ q = <<belman[p][2], p[2]>> /\ q[1] = belman[p][2] /\ q[2] = p[2]
                            /\ q[1] # q[2] => belman[q][1] < belman[p][1]
    BY <1>1, NextLinked
  <2>2. Ahead(p) = belman[p][1] /\ Ahead(p) \in Nat /\ Ahead(p) <= n + 1 /\ Ahead(q) \in Nat
    BY <1>0, <1>1 DEF Ahead
  <2>3. Ahead(q) <= n
    BY <2>1, <2>2 DEF Ahead
  <2> QED BY <2>1, <2>3
<1>2. ASSUME NEW n \in Nat, NEW p \in Near0(n) PROVE p \in Near0(n + 1)
  <2>1. Ahead(p) \in Nat /\ Ahead(p) <= n
    BY <1>0
  <2>2. Ahead(p) <= n + 1
    BY <2>1
  <2> QED BY <2>2
<1>3. Nat \subseteq A
  <2>1. 0 \in A
    <3> DEFINE g == [p \in Near0(0) |-> <<>>]
    <3>1. \A p \in Near0(0) : p[1] = p[2]
      <4> SUFFICES ASSUME NEW p \in Near0(0), p[1] # p[2] PROVE FALSE
        OBVIOUS
      <4>1. p \in Linked /\ Ahead(p) <= 0 /\ Ahead(p) \in Nat
        BY <1>0
      <4>2. PICK q \in Linked : q[1] = belman[p][2] /\ q[2] = p[2] /\ <<p[1], q[1]>> \in DOMAIN edges
        BY NextLinked
      <4>3. belman[p][1] > 0
        <5>1. OnTheWay(p[1], NextV(p[1], p[2]), p[2]) /\ EdgesTypeOK /\ p = <<p[1], p[2]>> /\ belman \in Tables
          BY <1>0, PairParts DEF MapInv, Ways, NextIsOn, Linked, Dist
        <5> DEFINE i == p[1]
                   j == p[2]
                   v == NextV(i, j)
        <5>2. belman[p][1] = Dist(i, j) /\ <<i, v>> \in DOMAIN edges /\ Dist(i, j) = edges[<<i, v>>] + Rest(v, j)
          BY <5>1 DEF OnTheWay, Dist
        <5>3. j \in Nodes
          BY <1>0, PairParts
        <5> HIDE DEF v, i, j
        <5>4. v \in Nodes /\ edges[<<i, v>>] \in Nat \ {0}
          BY <5>1, <5>2, EdgeIs
        <5>5. Rest(v, j) \in Nat
          BY <5>1, <5>3, <5>4, DistType DEF Rest
        <5> QED BY <5>2, <5>4, <5>5
      <4> QED BY <4>1, <4>3 DEF Ahead
    <3>2. g = [p \in Near0(0) |-> next(g, p)]
      BY <3>1
    <3> HIDE DEF g, next, Near0
    <3> QED BY <3>2
  <2>2. ASSUME NEW n \in Nat, n \in A PROVE n + 1 \in A
    <3>1. PICK g : g = [p \in Near0(n) |-> next(g, p)]
      BY <2>2
    <3> DEFINE h == [p \in Near0(n + 1) |-> next(g, p)]
    <3>2. \A p \in Near0(n) : h[p] = g[p]
      <4>1. \A p \in Near0(n) : p \in Near0(n + 1)
        BY <1>2
      <4>2. \A p \in Near0(n) : g[p] = next(g, p)
        BY <3>1
      <4> HIDE DEF next, Near0
      <4> QED BY <4>1, <4>2
    <3>3. \A p \in Near0(n + 1) : next(h, p) = next(g, p)
      <4> HIDE DEF h, Near0
      <4> QED BY <1>1, <3>2
    <3>4. h = [p \in Near0(n + 1) |-> next(h, p)]
      <4> HIDE DEF next, Near0
      <4>1. h = [p \in Near0(n + 1) |-> next(g, p)]
        OBVIOUS
      <4> HIDE DEF h
      <4> QED BY <3>3, <4>1
    <3> HIDE DEF h, next, Near0
    <3>5. \E f : f = [p \in Near0(n + 1) |-> next(f, p)]
      BY <3>4
    <3> QED BY <3>5
  <2> HIDE DEF A
  <2> QED BY <2>1, <2>2, Induction
<1>4. Far \in A /\ Near0(Far) = Linked
  <2>1. \A q \in Linked : Ahead(q) <= Far
    <3> TAKE q \in Linked
    <3>1. belman[q][1] < Far \/ q[1] = q[2]
      BY DEF Linked
    <3>2. belman \in Tables /\ q \in Pairs
      BY DEF MapInv, Linked
    <3>3. belman[q][1] \in 0 .. Far
      BY <3>2, TableEntry
    <3> QED BY <3>3, MapConstants DEF Ahead
  <2> HIDE DEF A
  <2> QED BY <1>3, <2>1, MapConstants
<1>5. \E g : g = [p \in Linked |-> next(g, p)]
  BY <1>4
<1> QED BY <1>5 DEF IsRoute

(* It leads over edges from the first node to a neighbour of the last.      *)
LEMMA RouteSteps ==
  ASSUME MapInv, round >= 0, NEW way, IsRoute(way), NEW p \in Linked
  PROVE  /\ way[p] \in Seq(Nodes)
         /\ way[p] # <<>> => way[p][1] = p[1] /\ <<way[p][Len(way[p])], p[2]>> \in DOMAIN edges
         /\ way[p] = <<>> => p[1] = p[2]
         /\ \A n \in 1 .. (Len(way[p]) - 1) : <<way[p][n], way[p][n + 1]>> \in DOMAIN edges
<1> DEFINE Good(q) ==
             /\ way[q] \in Seq(Nodes)
             /\ way[q] # <<>> => way[q][1] = q[1] /\ <<way[q][Len(way[q])], q[2]>> \in DOMAIN edges
             /\ way[q] = <<>> => q[1] = q[2]
             /\ \A n \in 1 .. (Len(way[q]) - 1) : <<way[q][n], way[q][n + 1]>> \in DOMAIN edges
           B == {n \in Nat : \A q \in Linked : Ahead(q) <= n => Good(q)}
<1>0. \A q \in Linked : q \in Pairs /\ Ahead(q) \in Nat
  BY AheadType DEF Linked
<1>1. ASSUME NEW q \in Linked, q[1] = q[2] PROVE Good(q)
  <2>1. way[q] = <<>>
    BY <1>1 DEF IsRoute
  <2> QED BY <1>1, <2>1
<1>2. ASSUME NEW q \in Linked, q[1] # q[2]
      PROVE  \E r \in Linked : Ahead(r) < Ahead(q) /\ (Good(r) => Good(q))
  <2>1. PICK r \in Linked : /\ r = <<belman[q][2], q[2]>> /\ r[1] = belman[q][2] /\ r[2] = q[2]
                            /\ <<q[1], r[1]>> \in DOMAIN edges /\ r[1] \in Nodes
                            /\ r[1] # r[2] => belman[r][1] < belman[q][1]
    BY <1>2, NextLinked
  <2>2. way[q] = <<q[1]>> \o way[r]
    BY <1>2, <2>1 DEF IsRoute
  <2>3. Ahead(r) < Ahead(q)
    <3>1. OnTheWay(q[1], NextV(q[1], q[2]), q[2]) /\ EdgesTypeOK /\ q = <<q[1], q[2]>> /\ belman \in Tables
      BY <1>0, <1>2, PairParts DEF MapInv, Ways, NextIsOn, Linked, Dist
    <3> DEFINE i == q[1]
               j == q[2]
               v == NextV(i, j)
    <3>2. belman[q][1] = Dist(i, j) /\ <<i, v>> \in DOMAIN edges /\ Dist(i, j) = edges[<<i, v>>] + Rest(v, j)
      BY <3>1 DEF OnTheWay, Dist
    <3>3. j \in Nodes
      BY <1>0, PairParts
    <3> HIDE DEF v, i, j
    <3>4. v \in Nodes /\ edges[<<i, v>>] \in Nat \ {0}
      BY <3>1, <3>2, EdgeIs
    <3>5. Rest(v, j) \in Nat
      BY <3>1, <3>3, <3>4, DistType DEF Rest
    <3>6. belman[q][1] > 0
      BY <3>2, <3>4, <3>5
    <3> QED BY <1>2, <2>1, <3>6 DEF Ahead
  <2>4. ASSUME Good(r) PROVE Good(q)
    <3> DEFINE w == way[r]
               u == way[q]
               x == q[1]
               m == Len(w)
               e == <<x>>
    <3>1. x \in Nodes
      BY <1>0, PairParts
    <3>2. e \in Seq(Nodes) /\ Len(e) = 1 /\ e[1] = x /\ w \in Seq(Nodes) /\ u = e \o w /\ m \in Nat /\ Len(w) = m
      BY <2>2, <2>4, <3>1
    <3>3. /\ w # <<>> => w[1] = r[1] /\ <<w[m], q[2]>> \in DOMAIN edges
          /\ w = <<>> => r[1] = q[2]
          /\ \A n \in 1 .. (m - 1) : <<w[n], w[n + 1]>> \in DOMAIN edges
          /\ <<x, r[1]>> \in DOMAIN edges
      BY <2>1, <2>4
    <3>4. w = <<>> <=> m = 0
      BY <3>2
    <3> HIDE DEF e, w, m
    <3>5. /\ e \o w \in Seq(Nodes) /\ Len(e \o w) = 1 + m
          /\ \A n \in 1 .. (1 + m) : (e \o w)[n] = IF n <= 1 THEN e[n] ELSE w[n - 1]
      <4>1. \A n \in 1 .. Len(e) + Len(w) : (e \o w)[n] = IF n <= Len(e) THEN e[n] ELSE w[n - Len(e)]
        BY <3>2, ConcatProperties, Zenon
      <4>2. e \o w \in Seq(Nodes) /\ Len(e \o w) = Len(e) + Len(w)
        BY <3>2, ConcatProperties, Zenon
      <4> QED BY <3>2, <4>1, <4>2
    <3> HIDE DEF u, x
    <3>6. u \in Seq(Nodes) /\ Len(u) = 1 + m /\ \A n \in 1 .. (1 + m) : u[n] = IF n <= 1 THEN e[n] ELSE w[n - 1]
      BY <3>2, <3>5
    <3>7. u[1] = x
      <4>1. 1 \in 1 .. (1 + m)
        BY <3>2
      <4> QED BY <3>2, <3>6, <4>1
    <3>8. \A n \in 1 .. m : u[n + 1] = w[n]
      <4> TAKE n \in 1 .. m
      <4>1. n + 1 \in 1 .. (1 + m) /\ ~(n + 1 <= 1) /\ (n + 1) - 1 = n
        BY <3>2
      <4> QED BY <3>6, <4>1
    <3>9. u # <<>>
      BY <3>2, <3>6
    <3>10. <<u[1 + m], q[2]>> \in DOMAIN edges
      <4>1. CASE m = 0
        <5>1. 1 + m = 1 /\ r[1] = q[2]
          BY <3>3, <3>4, <4>1
        <5> QED BY <3>3, <3>7, <5>1
      <4>2. CASE m # 0
        <5>1. m \in 1 .. m /\ 1 + m = m + 1
          BY <3>2, <4>2
        <5> QED BY <3>3, <3>4, <3>8, <4>2, <5>1
      <4> QED BY <4>1, <4>2
    <3>11. \A n \in 1 .. (Len(u) - 1) : <<u[n], u[n + 1]>> \in DOMAIN edges
      <4> TAKE n \in 1 .. (Len(u) - 1)
      <4>0. n \in 1 .. m
        BY <3>2, <3>6
      <4>1. CASE n = 1
        <5>1. m # 0 /\ w # <<>> /\ n \in 1 .. m
          BY <3>2, <3>4, <4>0
        <5>2. u[n] = x /\ u[n + 1] = r[1]
          BY <3>3, <3>7, <3>8, <4>1, <5>1
        <5> QED BY <3>3, <5>2
      <4>2. CASE n # 1
        <5>1. n - 1 \in 1 .. (m - 1) /\ n - 1 \in 1 .. m /\ (n - 1) + 1 = n
          BY <3>2, <4>0, <4>2
        <5>2. u[n] = w[n - 1] /\ u[n + 1] = w[n]
          BY <3>8, <4>0, <5>1
        <5> QED BY <3>3, <5>1, <5>2
      <4> QED BY <4>1, <4>2
    <3> QED BY <3>6, <3>7, <3>9, <3>10, <3>11 DEF u, x
  <2> QED BY <2>3, <2>4
<1> HIDE DEF Good
<1>3. 0 \in B
  <2> SUFFICES ASSUME NEW q \in Linked, Ahead(q) <= 0 PROVE Good(q)
    OBVIOUS
  <2>1. q[1] # q[2] => \E r \in Linked : Ahead(r) < Ahead(q)
    BY <1>2
  <2>2. q[1] = q[2]
    BY <1>0, <2>1
  <2> QED BY <1>1, <2>2
<1>4. ASSUME NEW n \in Nat, n \in B PROVE n + 1 \in B
  <2> SUFFICES ASSUME NEW q \in Linked, Ahead(q) <= n + 1 PROVE Good(q)
    OBVIOUS
  <2>1. CASE q[1] = q[2]
    BY <1>1, <2>1
  <2>2. CASE q[1] # q[2]
    <3>1. PICK r \in Linked : Ahead(r) < Ahead(q) /\ (Good(r) => Good(q))
      BY <1>2, <2>2
    <3>2. Ahead(r) <= n
      BY <1>0, <3>1
    <3> QED BY <1>4, <3>1, <3>2
  <2> QED BY <2>1, <2>2
<1>5. Nat \subseteq B
  <2> HIDE DEF B
  <2> QED BY <1>3, <1>4, Induction
<1>6. Good(p)
  <2>1. Ahead(p) \in B /\ Ahead(p) <= Ahead(p)
    <3>1. Ahead(p) \in Nat /\ Ahead(p) <= Ahead(p)
      BY <1>0
    <3> HIDE DEF B
    <3> QED BY <1>5, <3>1
  <2> QED BY <2>1
<1> QED BY <1>6 DEF Good

(* What ShortestRoutes says of the routes.                                  *)
LEMMA RoutesLead ==
  ASSUME MapInv, round = N, NEW s \in Locations, NEW f \in Locations
  PROVE  RouteLeads(s, f)
<1> DEFINE via(p) == s[p[1]] + f[p[2]] + belman[p][1]
           pairs == {p \in findNodes(s) \X findNodes(f) : via(p) < Far}
           best == CHOOSE p \in pairs : \A q \in pairs : via(p) <= via(q)
           way == CHOOSE g : g = [p \in Linked |-> IF p[1] = p[2] THEN <<>>
                                                  ELSE <<p[1]>> \o g[<<belman[p][2], p[2]>>]]
           r == findPath(s, f)
<1>0. round >= 0 /\ belman \in Tables /\ s \in [Nodes -> Nat] /\ f \in [Nodes -> Nat]
  BY MapConstants DEF MapInv
<1>1. r = IF pairs = {} THEN [nodes |-> <<>>, d |-> Far] ELSE [nodes |-> way[best], d |-> via(best)]
  BY DEF findPath, Linked, Pairs
<1>2. IsRoute(way)
  <2>1. \E g : IsRoute(g)
    BY <1>0, RouteExists
  <2> QED BY <2>1 DEF IsRoute
<1>3. findNodes(s) \subseteq Nodes /\ findNodes(f) \subseteq Nodes
  BY DEF findNodes
<1>4. \A p \in findNodes(s) \X findNodes(f) :
        /\ p \in Pairs /\ p[1] \in Nodes /\ p[2] \in Nodes /\ p[1] \in findNodes(s) /\ p[2] \in findNodes(f)
        /\ via(p) \in Nat /\ belman[p][1] <= via(p)
  <2> TAKE p \in findNodes(s) \X findNodes(f)
  <2>1. p \in Pairs /\ p[1] \in Nodes /\ p[2] \in Nodes /\ p[1] \in findNodes(s) /\ p[2] \in findNodes(f)
    BY <1>3 DEF Pairs
  <2>2. belman[p][1] \in Nat
    BY <1>0, <2>1, TableEntry, MapConstants
  <2>3. s[p[1]] \in Nat /\ f[p[2]] \in Nat
    BY <1>0, <2>1
  <2> QED BY <2>1, <2>2, <2>3
<1> HIDE DEF way, r
<1>5. pairs # {} => best \in pairs /\ \A q \in pairs : via(best) <= via(q)
  <2> HAVE pairs # {}
  <2> DEFINE T == {via(p) : p \in pairs}
  <2>1. T \in SUBSET Nat /\ T # {}
    BY <1>4
  <2>2. PICK x \in T : \A y \in T : x <= y
    BY <2>1, LeastNat
  <2>3. PICK p \in pairs : x = via(p)
    BY <2>2
  <2>4. \A q \in pairs : via(p) <= via(q)
    BY <2>2, <2>3
  <2> HIDE DEF via, pairs
  <2> QED BY <2>3, <2>4
<1>6. ASSUME NEW i \in findNodes(s), NEW j \in findNodes(f), i # j
      PROVE  r.d <= s[i] + f[j] + Shortest(i, j, N)
  <2> DEFINE p == <<i, j>>
  <2>1. p \in findNodes(s) \X findNodes(f) /\ p[1] = i /\ p[2] = j /\ i \in Nodes /\ j \in Nodes
    BY <1>3
  <2>2. belman[p][1] = Shortest(i, j, N)
    BY <1>0, <1>6, <2>1, TableIsShortest DEF Dist
  <2>3. via(p) = s[i] + f[j] + Shortest(i, j, N) /\ via(p) \in Nat
    BY <1>4, <2>1, <2>2
  <2>4. r.d <= via(p)
    <3>1. CASE pairs = {}
      <4>1. ~(via(p) < Far)
        BY <2>1, <3>1
      <4> HIDE DEF via, pairs
      <4>2. r.d = Far
        BY <1>1, <3>1
      <4> QED BY <2>3, <4>1, <4>2, MapConstants
    <3>2. CASE pairs # {}
      <4>1. best \in findNodes(s) \X findNodes(f) /\ via(best) < Far /\ via(best) \in Nat
        BY <1>4, <1>5, <3>2
      <4>2. p \in pairs => via(best) <= via(p)
        BY <1>5, <3>2
      <4>3. p \notin pairs => ~(via(p) < Far)
        BY <2>1
      <4> HIDE DEF via, pairs, best
      <4>4. r.d = via(best)
        BY <1>1, <3>2
      <4> QED BY <2>3, <4>1, <4>2, <4>3, <4>4, MapConstants
    <3> QED BY <3>1, <3>2
  <2> QED BY <2>3, <2>4
<1>7. CASE pairs = {}
  <2>1. r.nodes = <<>>
    BY <1>1, <1>7
  <2> QED BY <1>6, <2>1 DEF RouteLeads, r
<1>8. CASE pairs # {}
  <2>1. best \in findNodes(s) \X findNodes(f) /\ via(best) < Far
    BY <1>5, <1>8
  <2>2. best \in Linked
    <3> HIDE DEF best
    <3>1. via(best) \in Nat /\ belman[best][1] <= via(best) /\ best \in Pairs
      <4> HIDE DEF via
      <4> QED BY <1>4, <2>1
    <3>2. belman[best][1] \in Nat
      <4> HIDE DEF via
      <4>1. belman[best][1] \in 0 .. Far
        BY <1>0, <3>1, TableEntry
      <4> QED BY <4>1, MapConstants
    <3> HIDE DEF via
    <3> QED BY <2>1, <3>1, <3>2, MapConstants DEF Linked
  <2>3. r.nodes = way[best]
    BY <1>1, <1>8
  <2>4. best[1] \in findNodes(s) /\ best[2] \in findNodes(f)
    BY <1>4, <2>1
  <2> HIDE DEF best, via, pairs
  <2>5. /\ way[best] # <<>> => /\ way[best][1] = best[1]
                               /\ <<way[best][Len(way[best])], best[2]>> \in DOMAIN edges
        /\ \A n \in 1 .. (Len(way[best]) - 1) : <<way[best][n], way[best][n + 1]>> \in DOMAIN edges
    BY <1>0, <1>2, <2>2, RouteSteps
  <2> QED BY <1>6, <2>3, <2>4, <2>5 DEF RouteLeads, r
<1> QED BY <1>7, <1>8

(* Every way in the table of belMan is a shortest one, in each of its       *)
(* rounds, and the routes of findPath lead over edges and are not longer    *)
(* than any other, on every map (MapGraph::belMan, findPath).               *)
THEOREM RoutesAreShortest == InitMap /\ [][NextMap]_mapVars => []ShortestRoutes
<1>1. MapInv => ShortestRoutes
  BY RoundsShorten, RoutesLead DEF ShortestRoutes
<1> QED BY <1>1, MapInit, MapStep, PTL

HIDE MapConstants

=============================================================================
