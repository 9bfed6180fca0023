----------------------------- MODULE TankInputs -----------------------------
(***************************************************************************)
(* The actions of one player in one room: packets that the network loses,  *)
(* repeats and reorders, Room::get_msg on the io thread, the fixed-step    *)
(* simulation GameCore::update, which the io thread and the rooms thread   *)
(* both drive under the room's mutex, and the closing of idle rooms.       *)
(*                                                                         *)
(* Steps are those of the game (20 ms); wall is the step the clock has     *)
(* reached.  Positions and angles are left out; a hit by a missile may     *)
(* come at any step, for another player may always fire one.               *)
(***************************************************************************)
EXTENDS Integers, FiniteSets

CONSTANTS
  ClientIds,    (* the client ids of the actions, ordered as cinps is      *)
  Types,        (* the action types                                        *)
  Shot,         (* the type whose run costs ammunition                     *)
  Triggers,     (* the trigger steps a client may ask for                  *)
  NoPacket,
  Window,       (* steps for which cinps remembers, 1000 in the code       *)
  Idle,         (* steps without an action that close a room, 600          *)
  MaxHealt,     (* health of a new tank, 100                               *)
  Damage,       (* health a missile takes, 30                              *)
  ShotCost,     (* what a shot costs, in what a step regains: 1 / 0.03     *)
  MaxRemain,    (* ammunition of a full tank in that unit: 3 / 0.03        *)
  MaxWall,      (* bound: the last step of the clock                       *)
  MaxLag,       (* bound: how far the simulation falls behind the clock    *)
  LastReceive,  (* bound: the last step in which packets are handled       *)
  MaxLate       (* bound: steps made while a tank is being added           *)

ASSUME TankAssumption ==
  /\ ClientIds \subseteq Nat
  /\ Shot \in Types
  /\ Triggers \subseteq Nat
  /\ Window \in Nat
  /\ Idle \in Nat
  /\ MaxHealt \in Nat
  /\ Damage \in Nat
  /\ ShotCost \in Nat \ {0}
  /\ MaxRemain \in Nat
  /\ MaxWall \in Nat
  /\ MaxLag \in Nat
  /\ LastReceive \in Nat
  /\ MaxLate \in Nat

Packet == [client_id: ClientIds, type: Types, trigger_step: Triggers]

NoInput == -1

VARIABLES
  wall,        (* get_step_with_time(server->total_time)                   *)
  total_time,  (* GameCore::total_time                                     *)
  last_action, (* Room::last_action                                        *)
  room,        (* "open", or "erased" from MainServer::rooms               *)
  mutex,       (* the holder of Room::mutex                                *)
  pc,          (* where the io and rooms threads are                       *)
  stepping,    (* Room::update passed its early returns                    *)
  net,         (* packets the client has sent; they may arrive at any time *)
  packet,      (* the packet get_msg is handling                           *)
  tank,        (* the player's tank: "none", "new" (made, and not yet in   *)
               (* tanks), "live" (in tanks) or "dead"                      *)
  my_step, healt, remain_shot,
  inps,        (* the actions waiting for their step                       *)
  cinps,       (* the trigger step remembered for each client id           *)
  accepted,    (* <<client id, step>> of every add_action (history)        *)
  ran,         (* those that were run, at their step (history)             *)
  acks,        (* those the client was told of (history)                   *)
  spent, born, (* ammunition fired, and the step of the tank's birth       *)
  late         (* steps made while the tank was new (history)              *)

roomVars == <<room, mutex, pc, stepping>>
tankVars == <<tank, my_step, healt, remain_shot, inps, cinps, ran, spent, born, late>>
msgVars  == <<net, packet>>
vars     == <<wall, total_time, last_action, roomVars, tankVars, msgVars, accepted, acks>>

-----------------------------------------------------------------------------
Init ==
  /\ wall = 0
  /\ total_time = 0
  /\ last_action = 0
  /\ room = "open"
  /\ mutex = "free"
  /\ pc = [io |-> "idle", rooms |-> "idle"]
  /\ stepping = "no"
  /\ net = {}
  /\ packet = NoPacket
  /\ tank = "none"
  /\ my_step = 0
  /\ healt = 0
  /\ remain_shot = 0
  /\ inps = {}
  /\ cinps = [c \in ClientIds |-> NoInput]
  /\ accepted = {}
  /\ ran = {}
  /\ acks = {}
  /\ spent = 0
  /\ born = 0 /\ late = 0

(* The client sends an action under an id it has not used; the packet is    *)
(* never taken out of net, so that it may arrive twice, late or not at all. *)
ClientSend ==
  /\ tank \notin {"none", "new"}
  /\ \E p \in Packet :
       /\ \A q \in net : q.client_id < p.client_id
       /\ net' = net \cup {p}
  /\ UNCHANGED <<wall, total_time, last_action, roomVars, tankVars, packet, accepted, acks>>

Tick ==
  /\ wall < MaxWall /\ wall < total_time + MaxLag
  /\ pc.io = "idle" \/ wall < LastReceive
  /\ wall' = wall + 1
  /\ UNCHANGED <<total_time, last_action, roomVars, tankVars, msgVars, accepted, acks>>

(* Seeded fault: the tank's own step counter is not set.                    *)
JoinFault ==
  /\ pc.io = "idle"
  /\ room = "open"
  /\ tank = "none"
  /\ pc' = [pc EXCEPT !.io = "join"]
  /\ tank' = "new"
  /\ my_step' = 0
  /\ born' = total_time
  /\ healt' = MaxHealt
  /\ remain_shot' = MaxRemain
  /\ UNCHANGED <<wall, total_time, last_action, room, mutex, stepping, inps, cinps, ran, spent, late,
                 msgVars, accepted, acks>>

(* match_request on the io thread, under no lock: add_player_with_tank      *)
(* makes a tank only for a player who never had one.  The tank takes the    *)
(* step of the room when it is made and is simulated from when it is in     *)
(* tanks; the rooms thread may step the room in between.                    *)
Join ==
  /\ pc.io = "idle"
  /\ room = "open"
  /\ tank = "none"
  /\ pc' = [pc EXCEPT !.io = "join"]
  /\ tank' = "new"
  /\ my_step' = total_time
  /\ born' = total_time
  /\ healt' = MaxHealt
  /\ remain_shot' = MaxRemain
  /\ UNCHANGED <<wall, total_time, last_action, room, mutex, stepping, inps, cinps, ran, spent, late,
                 msgVars, accepted, acks>>

init_tank ==
  /\ pc.io = "join"
  /\ pc' = [pc EXCEPT !.io = "idle"]
  /\ tank' = "live"
  /\ UNCHANGED <<wall, total_time, last_action, room, mutex, stepping, my_step, healt, remain_shot, inps,
                 cinps, ran, spent, born, late, msgVars, accepted, acks>>

-----------------------------------------------------------------------------
(* GameCore::update.                                                        *)

(* Seeded fault: the actions of this very step count as past.               *)
LiveFault == {i \in inps : i.trigger_step > my_step}

Live == {i \in inps : i.trigger_step >= my_step}
Due  == {i \in Live : i.trigger_step = my_step}

(* cinps is pruned from its smallest client id on, up to the first entry    *)
(* that is recent.  Seeded fault: its window is forgotten.                  *)
RememberedFault(c) ==
  \E d \in ClientIds : d <= c /\ cinps[d] # NoInput /\ cinps[d] >= my_step

Remembered(c) ==
  \E d \in ClientIds : d <= c /\ cinps[d] # NoInput /\ cinps[d] >= my_step - Window

(* What n shots leave of the ammunition: a shot without enough is dropped.  *)
(* Seeded fault: the last shot is fired on credit.                          *)
AfterShotsFault(r, n) == r - n * ShotCost

AfterShots(r, n) == LET fired == IF n * ShotCost <= r THEN n ELSE r \div ShotCost
                    IN  r - fired * ShotCost

Recharge(r) == IF r + 1 > MaxRemain THEN MaxRemain ELSE r + 1

(* update_inputs, then the step itself; a missile may hit afterwards.       *)
UpdateTank ==
  LET shots == Cardinality({i \in Due : i.type = Shot})
      left  == AfterShots(remain_shot, shots)
  IN  /\ inps' = Live \ Due
      /\ ran' = ran \cup {<<i.client_id, my_step>> : i \in Due}
      /\ cinps' = [c \in ClientIds |-> IF Remembered(c) THEN cinps[c] ELSE NoInput]
      /\ spent' = spent + (remain_shot - left)
      /\ remain_shot' = IF my_step < total_time' THEN Recharge(left) ELSE left
      /\ my_step' = IF my_step < total_time' THEN my_step + 1 ELSE my_step
      /\ \E hit \in {0, Damage} : healt' = healt - hit
      /\ UNCHANGED <<tank, born, late>>

Die ==
  /\ tank' = "dead"
  /\ UNCHANGED <<my_step, healt, remain_shot, inps, cinps, ran, spent, born, late>>

Miss ==
  /\ late < MaxLate
  /\ late' = late + 1
  /\ UNCHANGED <<tank, my_step, healt, remain_shot, inps, cinps, ran, spent, born>>

(* A tank whose health fell below zero leaves tanks before it is updated;   *)
(* its Player still points to it.                                           *)
Step(t) ==
  /\ mutex = t
  /\ stepping = "yes"
  /\ wall > total_time
  /\ total_time' = total_time + 1
  /\ \/ tank = "live" /\ healt < 0 /\ Die
     \/ tank = "live" /\ healt >= 0 /\ UpdateTank
     \/ tank = "new" /\ Miss
     \/ tank \in {"none", "dead"} /\ UNCHANGED tankVars
  /\ UNCHANGED <<wall, last_action, roomVars, msgVars, accepted, acks>>

-----------------------------------------------------------------------------
(* Room::update: its early return, then the loop of steps.                  *)

Awake == last_action + Idle >= total_time

EnterUpdate(t) ==
  /\ mutex = "free"
  /\ mutex' = t
  /\ stepping' = IF Awake THEN "yes" ELSE "no"

UpdateDone(t) == mutex = t /\ (stepping = "no" \/ wall <= total_time)

(* game_room_msg finds the room, action_msg_is_ok finds the user; then      *)
(* last_action is set before the mutex is waited for.                       *)
Receive ==
  /\ pc.io = "idle"
  /\ room = "open"
  /\ tank # "none"
  /\ wall <= LastReceive
  /\ \E p \in net : packet' = p
  /\ last_action' = total_time
  /\ pc' = [pc EXCEPT !.io = "lock"]
  /\ UNCHANGED <<wall, total_time, room, mutex, stepping, tankVars, net, accepted, acks>>

IoLock ==
  /\ pc.io = "lock"
  /\ EnterUpdate("io")
  /\ pc' = [pc EXCEPT !.io = "update"]
  /\ UNCHANGED <<wall, total_time, last_action, room, tankVars, msgVars, accepted, acks>>

(* The step an action is given: not before the second step from now.        *)
(* Seeded fault: the client's step is taken as it is.                       *)
TriggerFault(p) == p.trigger_step

Trigger(p) == IF p.trigger_step < total_time + 2 THEN total_time + 2 ELSE p.trigger_step

(* A client id not in cinps: the action joins inps and cinps, and its       *)
(* sender and the other users are told its step.                            *)
Accept ==
  /\ pc.io = "update" /\ UpdateDone("io")
  /\ cinps[packet.client_id] = NoInput
  /\ inps' = inps \cup {[client_id |-> packet.client_id, type |-> packet.type,
                         trigger_step |-> Trigger(packet)]}
  /\ cinps' = [cinps EXCEPT ![packet.client_id] = Trigger(packet)]
  /\ accepted' = accepted \cup {<<packet.client_id, Trigger(packet)>>}
  /\ acks' = acks \cup {<<packet.client_id, Trigger(packet)>>}
  /\ packet' = NoPacket
  /\ mutex' = "free" /\ stepping' = "no" /\ pc' = [pc EXCEPT !.io = "idle"]
  /\ UNCHANGED <<wall, total_time, last_action, room, tank, my_step, healt, remain_shot, ran,
                 spent, born, late, net>>

(* A client id in cinps: its sender is told the step again.                 *)
AnswerAgain ==
  /\ pc.io = "update" /\ UpdateDone("io")
  /\ cinps[packet.client_id] # NoInput
  /\ acks' = acks \cup {<<packet.client_id, cinps[packet.client_id]>>}
  /\ packet' = NoPacket
  /\ mutex' = "free" /\ stepping' = "no" /\ pc' = [pc EXCEPT !.io = "idle"]
  /\ UNCHANGED <<wall, total_time, last_action, room, tankVars, net, accepted>>

(* run_rooms_step: lock, update; an idle room is erased after the unlock.   *)
RoomsLock ==
  /\ pc.rooms = "idle"
  /\ room = "open"
  /\ EnterUpdate("rooms")
  /\ pc' = [pc EXCEPT !.rooms = IF Awake THEN "keep" ELSE "remove"]
  /\ UNCHANGED <<wall, total_time, last_action, room, tankVars, msgVars, accepted, acks>>

RoomsUnlock ==
  /\ UpdateDone("rooms")
  /\ mutex' = "free" /\ stepping' = "no"
  /\ pc' = [pc EXCEPT !.rooms = IF @ = "keep" THEN "idle" ELSE "erase"]
  /\ UNCHANGED <<wall, total_time, last_action, room, tankVars, msgVars, accepted, acks>>

EraseRoom ==
  /\ pc.rooms = "erase"
  /\ room' = "erased"
  /\ pc' = [pc EXCEPT !.rooms = "idle"]
  /\ UNCHANGED <<wall, total_time, last_action, mutex, stepping, tankVars, msgVars, accepted, acks>>

-----------------------------------------------------------------------------
GetMsg == IoLock \/ Step("io") \/ Accept \/ AnswerAgain
Rooms  == RoomsLock \/ Step("rooms") \/ RoomsUnlock \/ EraseRoom

Next == ClientSend \/ Tick \/ Join \/ init_tank \/ Receive \/ GetMsg \/ Rooms

(* The rooms thread goes on, and get_msg ends once entered, for the mutex   *)
(* is fair to the io thread.  No stream of packets stops the clock.         *)
Fairness == SF_vars(Tick) /\ WF_vars(Rooms) /\ SF_vars(GetMsg)

Spec == Init /\ [][Next]_vars
FairSpec == Spec /\ Fairness

-----------------------------------------------------------------------------
TypeOK ==
  /\ wall \in Nat /\ total_time \in Nat /\ last_action \in Nat
  /\ room \in {"open", "erased"}
  /\ mutex \in {"free", "io", "rooms"}
  /\ pc \in [io: {"idle", "join", "lock", "update"}, rooms: {"idle", "keep", "remove", "erase"}]
  /\ stepping \in {"no", "yes"}
  /\ net \subseteq Packet
  /\ packet \in Packet \cup {NoPacket}
  /\ tank \in {"none", "new", "live", "dead"}
  /\ my_step \in Nat /\ born \in Nat /\ late \in Nat
  /\ healt \in Int
  /\ remain_shot \in 0 .. MaxRemain
  /\ \A i \in inps : i.client_id \in ClientIds /\ i.type \in Types /\ i.trigger_step \in Nat
  /\ cinps \in [ClientIds -> Nat \cup {NoInput}]
  /\ accepted \subseteq ClientIds \X Nat
  /\ ran \subseteq ClientIds \X Nat
  /\ acks \subseteq ClientIds \X Nat
  /\ spent \in Nat

(* An action is accepted once however often its packet arrives, as long as  *)
(* cinps remembers it: Window steps from its trigger, the step in which it  *)
(* is forgotten, and the two steps ahead of the new trigger.                *)
Apart(m, n) == m > n + Window + 3 \/ n > m + Window + 3

AtMostOnce == \A a, b \in accepted : a[1] = b[1] /\ a # b => Apart(a[2], b[2])

(* Whatever a client was told runs at that very step of his tank, or did,   *)
(* whichever thread drives the simulation there; a tank killed before keeps *)
(* it waiting for ever.                                                     *)
AckedRuns ==
  \A a \in acks :
    \/ a \in ran
    \/ /\ \E i \in inps : <<i.client_id, i.trigger_step>> = a
       /\ tank = "live" => a[2] >= my_step

(* Ammunition: a tank fires no more than it was born with and regained,     *)
(* however many shots are queued for one step.                              *)
FireRate == spent <= MaxRemain + (my_step - born)

(* A tank is behind its room by the steps that were made while it was being *)
(* added to it (add_player_with_tank), for ever, and by no other: whichever *)
(* thread steps the room, none is made twice or left out.                   *)
InStep == tank \in {"new", "live"} => my_step + late = total_time

(* What a client was told happens, unless its tank dies or the idle room is *)
(* erased first.                                                            *)
AckedComesTrue == <>[](acks \subseteq ran \/ tank = "dead" \/ room = "erased")
=============================================================================
