------------------------------- MODULE Rooms --------------------------------
(***************************************************************************)
(* Matchmaking and the life of rooms.  The io thread sends a player who    *)
(* asks for a match to the last live room of his league, or creates one,   *)
(* and passes room messages on; the game thread steps every room in turn   *)
(* and afterwards erases the rooms that were idle.  The maps of rooms have *)
(* no lock: what the io thread found may be erased before it is used.      *)
(*                                                                         *)
(* A room is its id.  Its clock counts only as the number of steps since   *)
(* its last_action; what the steps do is in TankInputs and ViewSync.       *)
(***************************************************************************)
EXTENDS Integers, Sequences

CONSTANTS
  Users,
  Ligs,         (* the leagues                                             *)
  Slack,        (* steps without an action that a room outlives: 60*10     *)
  Burst,        (* most steps that one update of a room makes (bound)      *)
  MaxGames,     (* rooms that are ever created (bound)                     *)
  MaxMsgs       (* messages of the clients (bound)                         *)

ASSUME RoomsAssumption ==
  /\ Slack \in Nat
  /\ Burst \in Nat \ {0}
  /\ MaxGames \in Nat
  /\ MaxMsgs \in Nat

RoomIds == 0 .. (MaxGames - 1)

VARIABLES
  rooms,        (* what MainServer::rooms holds under each id              *)
  rooms_lig,    (* the ids of the rooms of each league, oldest first       *)
  game_count,   (* the next id                                             *)
  idle,         (* total_time - last_action of each room, to Slack + 1     *)
  users,        (* Room::users                                             *)
  cursor,       (* the id that the pass of the game thread is at           *)
  gamePc,       (* "visit" or "erase": where run_rooms_step is             *)
  forRemove,    (* the rooms that the pass found idle                      *)
  op,           (* what the io thread does with a room it looked up        *)
  who, at,      (* for which user, and with which room                     *)
  told,         (* the rooms each user was sent to (history)               *)
  msgs,         (* messages received (bound)                               *)
  process       (* "up", or "crashed" by using a destroyed room            *)

ioVars   == <<op, who, at, told, msgs>>
gameVars == <<cursor, gamePc, forRemove>>
vars     == <<rooms, rooms_lig, game_count, idle, users, gameVars, ioVars, process>>

Live(r) == rooms[r] = "live"

(* game_room_msg copies the shared_ptr; the other handlers keep a Room*.    *)
Held(r) == op = "game" /\ at = r

Destroyed(r) == ~Live(r) /\ ~Held(r)

Init ==
  /\ rooms = [r \in RoomIds |-> "none"]
  /\ rooms_lig = [l \in Ligs |-> <<>>]
  /\ game_count = 0
  /\ idle = [r \in RoomIds |-> 0]
  /\ users = [r \in RoomIds |-> {}]
  /\ cursor = -1
  /\ gamePc = "visit"
  /\ forRemove = {}
  /\ op = "none"
  /\ who \in Users
  /\ at = 0
  /\ told = [u \in Users |-> {}]
  /\ msgs = 0
  /\ process = "up"

-----------------------------------------------------------------------------
(* The io thread.                                                           *)

(* Seeded fault: a room that is about to be removed is not joined.          *)
LiveOfFault(l) ==
  {i \in DOMAIN rooms_lig[l] : Live(rooms_lig[l][i]) /\ idle[rooms_lig[l][i]] <= Slack}

LiveOf(l) == {i \in DOMAIN rooms_lig[l] : Live(rooms_lig[l][i])}

(* Seeded fault: the room takes the first id that is free.                  *)
create_roomFault(l) ==
  \E r \in RoomIds :
    /\ ~Live(r) /\ \A x \in RoomIds : ~Live(x) => r <= x
    /\ at' = r
    /\ game_count < MaxGames /\ game_count' = game_count + 1
    /\ rooms' = [rooms EXCEPT ![r] = "live"]
    /\ rooms_lig' = [rooms_lig EXCEPT ![l] = Append(@, r)]

create_room(l) ==
  /\ game_count < MaxGames
  /\ at' = game_count
  /\ game_count' = game_count + 1
  /\ rooms' = [rooms EXCEPT ![game_count] = "live"]
  /\ rooms_lig' = [rooms_lig EXCEPT ![l] = Append(@, game_count)]

(* match_request up to the room it chooses.  The lookups are one step: an   *)
(* erase between them makes it choose none, as an erase before them does.   *)
MatchFind(u, l) ==
  /\ op = "none"
  /\ msgs < MaxMsgs
  /\ msgs' = msgs + 1
  /\ op' = "match"
  /\ who' = u
  /\ \/ \E i \in LiveOf(l) :
          /\ \A j \in LiveOf(l) : j <= i
          /\ at' = rooms_lig[l][i]
          /\ UNCHANGED <<rooms, rooms_lig, game_count>>
     \/ LiveOf(l) = {} /\ create_room(l)
  /\ UNCHANGED <<idle, users, gameVars, told, process>>

(* The rest of it: the player is added and sent the room.  last_action is   *)
(* not set.                                                                 *)
MatchJoin ==
  /\ op = "match"
  /\ op' = "none"
  /\ IF Destroyed(at)
     THEN process' = "crashed" /\ UNCHANGED <<users, told>>
     ELSE /\ users' = [users EXCEPT ![at] = @ \cup {who}]
          /\ told' = [told EXCEPT ![who] = @ \cup {at}]
          /\ UNCHANGED process
  /\ UNCHANGED <<rooms, rooms_lig, game_count, idle, gameVars, who, at, msgs>>

(* game_room_msg, room_event_ack or a ROOM_STATE_REQUST: rooms[id] makes an *)
(* entry without a room if there is none.                                   *)
RoomMsg(u, r, kind) ==
  /\ op = "none"
  /\ msgs < MaxMsgs
  /\ msgs' = msgs + 1
  /\ who' = u /\ at' = r
  /\ op' = IF Live(r) THEN kind ELSE "none"
  /\ rooms' = [rooms EXCEPT ![r] = IF Live(r) THEN "live" ELSE "null"]
  /\ UNCHANGED <<rooms_lig, game_count, idle, users, gameVars, told, process>>

(* Room::get_msg: a player's action starts the idle time anew and steps the *)
(* game.                                                                    *)
GetMsg ==
  /\ op = "game"
  /\ op' = "none"
  /\ IF Destroyed(at)
     THEN process' = "crashed" /\ UNCHANGED idle
     ELSE /\ \/ /\ who \in users[at]
                /\ \E n \in 0 .. Burst :
                     idle' = [idle EXCEPT ![at] = IF n > Slack THEN Slack + 1 ELSE n]
             \/ who \notin users[at] /\ UNCHANGED idle
          /\ UNCHANGED process
  /\ UNCHANGED <<rooms, rooms_lig, game_count, users, gameVars, who, at, told, msgs>>

(* Room::event_ack, or Room::update_client for a state request.             *)
UseRaw ==
  /\ op = "raw"
  /\ op' = "none"
  /\ process' = IF Destroyed(at) THEN "crashed" ELSE process
  /\ UNCHANGED <<rooms, rooms_lig, game_count, idle, users, gameVars, who, at, told, msgs>>

-----------------------------------------------------------------------------
(* The game thread: run_rooms_step.                                         *)

Ahead == {r \in RoomIds : r > cursor /\ Live(r)}

(* Room::update and what run_rooms_step does with its result.               *)
Update(r) ==
  IF idle[r] > Slack
  THEN forRemove' = forRemove \cup {r} /\ UNCHANGED idle
  ELSE /\ \E n \in 1 .. Burst : idle' = [idle EXCEPT ![r] = IF @ + n > Slack THEN Slack + 1 ELSE @ + n]
       /\ UNCHANGED forRemove

Visit ==
  /\ gamePc = "visit"
  /\ \E r \in Ahead :
       /\ \A x \in Ahead : r <= x
       /\ cursor' = r
       /\ Update(r)
  /\ UNCHANGED <<rooms, rooms_lig, game_count, users, gamePc, ioVars, process>>

EndVisits ==
  /\ gamePc = "visit"
  /\ Ahead = {}
  /\ gamePc' = "erase"
  /\ UNCHANGED <<rooms, rooms_lig, game_count, idle, users, cursor, forRemove, ioVars, process>>

(* Seeded fault: the shared_ptr is reset and its entry stays where it was.  *)
EraseFault ==
  /\ gamePc = "erase"
  /\ forRemove # {}
  /\ forRemove' = {}
  /\ UNCHANGED <<rooms, rooms_lig, game_count, idle, users, cursor, gamePc, ioVars, process>>

Erase ==
  /\ gamePc = "erase"
  /\ \E r \in forRemove :
       /\ \A x \in forRemove : r <= x
       /\ rooms' = [rooms EXCEPT ![r] = "none"]
       /\ forRemove' = forRemove \ {r}
  /\ UNCHANGED <<rooms_lig, game_count, idle, users, cursor, gamePc, ioVars, process>>

EndStep ==
  /\ gamePc = "erase"
  /\ forRemove = {}
  /\ gamePc' = "visit"
  /\ cursor' = -1
  /\ UNCHANGED <<rooms, rooms_lig, game_count, idle, users, forRemove, ioVars, process>>

-----------------------------------------------------------------------------
Io == \/ \E u \in Users, l \in Ligs : MatchFind(u, l)
      \/ \E u \in Users, r \in RoomIds, kind \in {"game", "raw"} : RoomMsg(u, r, kind)
      \/ MatchJoin \/ GetMsg \/ UseRaw

GameStep == Visit \/ EndVisits \/ Erase \/ EndStep

Next == process = "up" /\ (Io \/ GameStep)

(* run_rooms_while goes on for ever, and total_time advances between its    *)
(* passes; so does the io thread with a message that it has begun.          *)
Fairness ==
  /\ WF_vars(process = "up" /\ GameStep)
  /\ WF_vars(process = "up" /\ (MatchJoin \/ GetMsg \/ UseRaw))

Spec == Init /\ [][Next]_vars
FairSpec == Spec /\ Fairness

-----------------------------------------------------------------------------
TypeOK ==
  /\ rooms \in [RoomIds -> {"none", "null", "live"}]
  /\ rooms_lig \in [Ligs -> Seq(RoomIds)]
  /\ game_count \in 0 .. MaxGames
  /\ idle \in [RoomIds -> 0 .. (Slack + 1)]
  /\ users \in [RoomIds -> SUBSET Users]
  /\ cursor \in RoomIds \cup {-1}
  /\ gamePc \in {"visit", "erase"}
  /\ forRemove \subseteq {r \in RoomIds : Live(r)}
  /\ op \in {"none", "match", "game", "raw"}
  /\ who \in Users
  /\ at \in RoomIds \cup {0} /\ (op # "none" => at \in RoomIds)
  /\ told \in [Users -> SUBSET RoomIds]
  /\ msgs \in 0 .. MaxMsgs
  /\ process \in {"up", "crashed"}

(* Two players whom match_request sent to rooms of one league, both still   *)
(* there, are in the same room, although rooms_lig keeps the ids of removed *)
(* rooms and a message may have put an empty entry under the id of a later  *)
(* room.                                                                    *)
OneRoomPerLig ==
  \A l \in Ligs : \A i, j \in DOMAIN rooms_lig[l] :
    Live(rooms_lig[l][i]) /\ Live(rooms_lig[l][j]) => rooms_lig[l][i] = rooms_lig[l][j]

(* create_room never gives a room the id of one that some player was sent   *)
(* to: clients go on naming a room that was removed, which leaves an empty  *)
(* entry in rooms, and their messages must not reach a later match.         *)
NewRoomIsNew ==
  [][\A r \in RoomIds : ~Live(r) /\ Live(r)' => \A u \in Users : r \notin told[u]]_vars

(* Once its players fall silent every room is removed.                      *)
RoomsClose == \A r \in RoomIds : Live(r) ~> (~Live(r) \/ process = "crashed")
=============================================================================
