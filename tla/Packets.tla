------------------------------ MODULE Packets ------------------------------
(***************************************************************************)
(* How states of objects and inputs travel: every class writes its own     *)
(* fields of a packed struct (get_data), ServerViewHandler::get_array lays *)
(* the structs out behind an array of relative pointers, 16 to a packet,   *)
(* and the other side finds them by index and reads them class by class    *)
(* (set_data).  A field's content is the version of the object it was      *)
(* written from; a field nobody wrote is Unset.  Addresses are bytes from  *)
(* the start of the message.  Which objects are due is ViewSync's matter:  *)
(* here any may be.  Rooms of more than about 580 objects, whose arrays    *)
(* outgrow the 4 kB buffer, are out of the bounds; lines and blocks are    *)
(* never in a server's room (see Battle).                                  *)
(***************************************************************************)
EXTENDS Integers, Sequences, FiniteSets, FiniteSetsExt

CONSTANTS
  Boards,      (* the objects of a room: sequences of kinds                *)
  Batch,       (* structs in one packet, 16 in the code                    *)
  MaxEvents    (* bound: changes and ends of objects and rounds of sending *)

ASSUME PacketsAssumption ==
  /\ Boards \subseteq Seq({"tank", "misle", "farman", "shot"})
  /\ Batch \in Nat \ {0} /\ MaxEvents \in Nat

VARIABLES
  board,       (* [kind, version, removed] of every object, by id          *)
  room_time,   (* of the game                                              *)
  packets,     (* those sent: they may arrive at any time, or never        *)
  copies,      (* the other side's objects: None, or what it has read      *)
  sends        (* how often was sent (only for the bound)                  *)

packetVars == <<board, room_time, packets, copies, sends>>

Objects == DOMAIN board
Unset == -1
None == [time |-> -1, removed |-> FALSE]

-----------------------------------------------------------------------------
(* The structs: their fields and their sizes.                               *)

BoardObjectState == {"object_type", "event_type", "object_id", "owner_id", "room_time",
                     "pos", "z", "r", "angle"}
LiveBoardObjectState == BoardObjectState \cup {"speed", "max_healt", "max_speed", "healt", "born_step"}
UnitState == LiveBoardObjectState \cup {"user_id", "target_angle", "max_angle_speed", "angle_speed"}
TankState == UnitState \cup {"target_range", "canon_angle", "remain_shot", "shot_damage"}
(* MisleState declares an owner_id of its own beside its base's.            *)
MisleState == LiveBoardObjectState \cup
              {"MisleState::owner_id", "target_tank_id", "max_dis", "angle_speed", "damage"}
InputState == {"size_of_data", "type", "tank_id", "trigger_step", "id", "client_id"}
InputFarmanState == InputState \cup {"farman", "speed"}
InputShotState == InputState \cup {"shot", "shot_id", "targetet", "angle"}

State == [tank |-> TankState, misle |-> MisleState,
          farman |-> InputFarmanState, shot |-> InputShotState]

Width(field) ==
  CASE field \in {"object_id", "owner_id", "MisleState::owner_id", "target_tank_id", "user_id",
                  "pos", "tank_id", "shot_id"} -> 8
    [] field = "targetet" -> 1
    [] OTHER -> 4

SizeOf == [kind \in DOMAIN State |-> MapThenSumSet(Width, State[kind])]

BaseMessage == 69
RoomMsg == BaseMessage + 4 + 16           (* type, and the room's id and code *)
GameActionMsg == RoomMsg + 8
MyPointer == 4
MyArray == 8
TankState16Msg == RoomMsg + MyArray

-----------------------------------------------------------------------------
(* get_data: the fields each class writes, its base's first.                *)

BoardObject_get == {"object_id", "pos", "z", "angle", "room_time", "r"}
Live_get == BoardObject_get \cup {"max_speed", "speed", "healt", "max_healt", "born_step"}
Unit_get == Live_get \cup {"object_type", "target_angle", "user_id", "angle_speed"}
Tank_get == Unit_get \cup {"canon_angle", "target_range", "shot_damage", "remain_shot"}
Misle_get == Live_get \cup {"object_type", "owner_id", "max_dis", "damage"}
Input_get == {"trigger_step", "id", "client_id", "tank_id", "size_of_data"}
InputFarman_get == Input_get \cup {"farman", "speed", "type"}
InputShot_get == Input_get \cup {"shot_id", "type", "targetet", "angle"}

Gets == [tank |-> Tank_get, misle |-> Misle_get,
         farman |-> InputFarman_get, shot |-> InputShot_get]

(* set_data: the fields each class reads.                                   *)
BoardObject_set == {"object_id", "pos", "z", "angle", "r", "room_time"}
Live_set == BoardObject_set \cup {"speed", "healt", "max_healt", "born_step", "max_speed"}
Unit_set == Live_set \cup {"target_angle", "user_id", "angle_speed"}
Tank_set == Unit_set \cup {"canon_angle", "target_range", "shot_damage", "remain_shot"}

(* Seeded fault: the owner is read through MisleState, which hides the      *)
(* base's field.                                                            *)
Misle_setFault == Live_set \cup {"MisleState::owner_id", "max_dis", "damage"}

Misle_set == Live_set \cup {"owner_id", "max_dis", "damage"}
Input_set == {"trigger_step", "id"}
InputFarman_set == Input_set \cup {"farman", "speed"}
InputShot_set == Input_set \cup {"shot_id", "targetet", "angle"}

Sets == [tank |-> Tank_set, misle |-> Misle_set,
         farman |-> InputFarman_set, shot |-> InputShot_set]

Inputs == {"farman", "shot"}

-----------------------------------------------------------------------------
(* A block is a struct on the heap: its size and its fields.                *)
Block(o, event, fields, written, size) ==
  [obj |-> o, kind |-> board[o].kind, event |-> event, time |-> room_time, size |-> size,
   data |-> [f \in fields |-> IF f \in written THEN board[o].version ELSE Unset]]

get_data(o) ==
  LET kind == board[o].kind
  IN Block(o, "state", State[kind], Gets[kind], SizeOf[kind])

(* A removal has the fields of a BoardObject and is sent with the size of a *)
(* TankState: what lies behind them on the heap goes along, and is where    *)
(* the object's own class looks for its fields.                             *)
get_removed_data(o) ==
  Block(o, "remove", State[board[o].kind], BoardObject_get \cup {"event_type"}, SizeOf["tank"])

Due(o) == IF board[o].removed THEN get_removed_data(o) ELSE get_data(o)

(* MyArray::getIndex and MyPointer::getPtr: the address of the i-th pointer *)
(* of a packet, and the address it points to.                               *)
ArrayAt == RoomMsg
getIndex(p, i) == ArrayAt + p.start + MyPointer * i
getPtr(p, i) == getIndex(p, i) + p.pointer[i]

(* Seeded fault: the array has as many pointers as the packet has structs,  *)
(* whose places count from the first of all packets.                        *)
ReservedFault(n, offset) == n - offset

(* MyArray::init: as many as structs were laid out up to the packet's last. *)
Reserved(n, offset) == n

(* ServerViewHandler::get_array: the array behind the header, then each     *)
(* struct behind the one before it.                                         *)
get_array(forSend, offset, size) ==
  LET n == IF Len(forSend) > offset + size THEN offset + size ELSE Len(forSend)
      end[i \in offset .. n] ==         (* size_of_data before the i-th init *)
        IF i = offset THEN TankState16Msg + MyPointer * Reserved(n, offset)
        ELSE end[i - 1] + forSend[i].size
      start == TankState16Msg - ArrayAt
  IN [type |-> "states", size_of_data |-> end[n], start |-> start, first |-> offset, size |-> n,
      pointer |-> [i \in offset .. n - 1 |-> end[i] - (ArrayAt + start + MyPointer * i)],
      body |-> [a \in {end[i] : i \in offset .. n - 1} |->
                  LET i == CHOOSE j \in offset .. n - 1 : end[j] = a IN forSend[i + 1]]]

(* Room::get_msg: an input behind the header of a GameActionMsg, which      *)
(* start_states points to.                                                  *)
Reply(o) ==
  [type |-> "action", start_states |-> GameActionMsg, body |-> get_data(o),
   size_of_data |-> GameActionMsg + get_data(o).size]

-----------------------------------------------------------------------------
(* GameCore::init: on a server, two lines with a block at each end.         *)
Walls(server) == IF server THEN <<"line", "circle", "circle", "line", "circle">> ELSE <<>>

(* Room::init calls GameCore::init, sets server after that, and then makes  *)
(* the tanks; ids are given out in this order, and packets follow them.     *)
InitPackets ==
  /\ \E made \in Boards :
       LET kinds == Walls(FALSE) \o made
       IN board = [o \in DOMAIN kinds |-> [kind |-> kinds[o], version |-> 0, removed |-> FALSE]]
  /\ room_time = 0
  /\ packets = {}
  /\ copies = [o \in Objects |-> None]
  /\ sends = 0

InGame(o) == board[o].kind \notin Inputs

Bounded ==
  SumFunction([o \in Objects |-> board[o].version]) + Cardinality({o \in Objects : board[o].removed})
    + sends < MaxEvents

(* An event of a step, or the next step.                                    *)
Alter(o) ==
  /\ InGame(o)
  /\ ~board[o].removed
  /\ Bounded
  /\ room_time' \in {room_time, room_time + 1}
  /\ board' = [board EXCEPT ![o].version = @ + 1]
  /\ UNCHANGED <<packets, copies, sends>>

Die(o) ==
  /\ InGame(o)
  /\ ~board[o].removed
  /\ board' = [board EXCEPT ![o].removed = TRUE]
  /\ UNCHANGED <<room_time, packets, copies, sends>>

(* ServerViewHandler::init_client: the due objects in packets of Batch.     *)
Pack(due) ==
  LET forSend == [i \in 1 .. Cardinality(due) |-> Due(CHOOSE o \in due :
                     Cardinality({other \in due : other < o}) = i - 1)]
      offsets == {offset \in 0 .. Len(forSend) - 1 : offset % Batch = 0}
  IN {get_array(forSend, offset, Batch) : offset \in offsets}

SendStates ==
  /\ Bounded
  /\ \E due \in SUBSET {o \in Objects : InGame(o)} :
       /\ due # {}
       /\ packets' = packets \cup Pack(due)
  /\ sends' = sends + 1
  /\ UNCHANGED <<board, room_time, copies>>

SendReply(o) ==
  /\ ~InGame(o)
  /\ Bounded
  /\ packets' = packets \cup {Reply(o)}
  /\ sends' = sends + 1
  /\ UNCHANGED <<board, room_time, copies>>

-----------------------------------------------------------------------------
(* The other side, which uses the same classes: one struct of a packet goes *)
(* to BoardObjectEvent::run_game_core or to a new input.                    *)

(* The first lines of every class's set_data.                               *)
Overtaken(copy, s) == copy.time > s.time

set_data(copy, s) ==
  IF Overtaken(copy, s) THEN copy
  ELSE [time |-> s.time, kind |-> s.kind, removed |-> copy.removed,
        data |-> [f \in Sets[s.kind] |-> s.data[f]]]

(* run_game_core: what is not known is created, unless it is removed.  A    *)
(* removal marks the object (dead), and then its class reads its fields of  *)
(* it, most of which were never written.                                    *)
Receive(s) ==
  LET creates == s.event # "remove" /\ s.data["object_type"] # Unset
      dead(copy) == [copy EXCEPT !.removed = TRUE]
  IN copies' = [copies EXCEPT ![s.obj] =
                  IF @ = None THEN IF creates THEN set_data(None, s) ELSE None
                  ELSE set_data(IF s.event = "remove" THEN dead(@) ELSE @, s)]

DeliverStates(p) ==
  /\ p.type = "states"
  /\ \E i \in p.first .. p.size - 1 :
       /\ getPtr(p, i) \in DOMAIN p.body
       /\ Receive(p.body[getPtr(p, i)])
  /\ UNCHANGED <<board, room_time, packets, sends>>

(* GameCore::update on the other side: what is marked goes.  (The update    *)
(* also moves the copies, which is left out.)                               *)
Erase ==
  /\ copies' = [o \in Objects |-> IF copies[o].removed THEN None ELSE copies[o]]
  /\ UNCHANGED <<board, room_time, packets, sends>>

(* add_created_action: an input whose id is known is left alone.            *)
DeliverReply(p) ==
  /\ p.type = "action"
  /\ copies[p.body.obj] = None
  /\ copies' = [copies EXCEPT ![p.body.obj] = set_data(None, p.body)]
  /\ UNCHANGED <<board, room_time, packets, sends>>

NextPackets ==
  \/ \E o \in Objects : Alter(o) \/ Die(o) \/ SendReply(o)
  \/ SendStates \/ Erase
  \/ \E p \in packets : DeliverReply(p) \/ DeliverStates(p)

-----------------------------------------------------------------------------
(* Every struct of a packet is found at the index it was given, complete    *)
(* and as long as its size says; header, pointers and structs do not        *)
(* overlap, and the message ends with the last of them.                     *)
Apart(p) ==
  LET bodies == {[from |-> a, to |-> a + p.body[a].size] : a \in DOMAIN p.body}
      pointers == {[from |-> getIndex(p, i), to |-> getIndex(p, i) + MyPointer] :
                     i \in p.first .. p.size - 1}
      parts == bodies \cup pointers \cup {[from |-> 0, to |-> TankState16Msg]}
  IN /\ \A a, b \in parts : a = b \/ a.to <= b.from \/ b.to <= a.from
     /\ \A a \in parts : a.to <= p.size_of_data
     /\ \E a \in parts : a.to = p.size_of_data

EachAtItsIndex ==
  \A p \in packets :
    IF p.type = "action" THEN p.size_of_data = p.start_states + p.body.size
    ELSE /\ Apart(p)
         /\ {p.body[getPtr(p, i)] : i \in p.first .. p.size - 1} = {p.body[a] : a \in DOMAIN p.body}
         /\ p.size - p.first = Cardinality(DOMAIN p.body) /\ p.size - p.first \in 1 .. Batch

(* What the other side has read of an object was written, and all of it     *)
(* from one and the same version of the object: no class reads a field that *)
(* its counterpart does not write.  Only what it reads of a removal does    *)
(* not hold more than a BoardObject's fields; and whatever arrives after    *)
(* it, such an object stays marked until it goes (run_game_core, set_data,  *)
(* get_removed_data).                                                       *)
ReadWhole(o, copy) ==
  \E version \in 0 .. board[o].version :
    \/ copy.data = [f \in Sets[board[o].kind] |-> version]
    \/ copy.removed /\ \A f \in BoardObject_set : copy.data[f] = version

CopiesAreWhole ==
  \A o \in Objects : copies[o] # None => ReadWhole(o, copies[o])
=============================================================================
