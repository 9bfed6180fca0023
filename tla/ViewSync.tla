------------------------------ MODULE ViewSync ------------------------------
(***************************************************************************)
(* How a client's copy of a room follows the server's.  The server keeps,  *)
(* per object, the step of its last event (last_event_time) and, per       *)
(* client process and object, the newest step that was acknowledged        *)
(* (ackSendedEvent).  ServerViewHandler::init_client sends every object    *)
(* whose last event is not covered; the client applies what it gets with   *)
(* BoardObjectEvent::run_game_core and acknowledges its room_time.         *)
(*                                                                         *)
(* One user is modelled.  Its processes follow one another (a client that  *)
(* is closed and opened again has another client_process_id).  A packet    *)
(* that was sent may arrive at any time, again and again or never.  The    *)
(* content of an object is the number of events it has had (version).  The *)
(* rooms thread steps the game and pushes under the room's mutex.  A       *)
(* ROOM_STATE_REQUST is answered on the io thread without it: steps and    *)
(* events fall between its tests of an object, its reading of it and the   *)
(* reading of the clock that stamps the answer.                            *)
(***************************************************************************)
EXTENDS Integers

CONSTANTS
  Objs,
  Processes,    (* how many processes the client runs, one after another   *)
  Requests,     (* whether the client sends ROOM_STATE_REQUST              *)
  RemoveWindow, (* steps for which a removal is sent, 60*3 in the code     *)
  MaxTime,      (* bound: steps of the game                                *)
  MaxVersion    (* bound: events of an object                              *)

ASSUME ViewAssumption ==
  /\ Processes \in Nat \ {0}
  /\ Requests \in BOOLEAN
  /\ RemoveWindow \in Nat
  /\ MaxTime \in Nat
  /\ MaxVersion \in Nat

Pids == 1 .. Processes
None == -1

State == [obj: Objs, room_time: 0 .. MaxTime, version: 0 .. MaxVersion, event: {"state", "remove"}]
Copy  == [obj: Objs, version: 0 .. MaxVersion, event: {"state", "remove"}]
Ack   == [pid: Pids, obj: Objs, step: 0 .. MaxTime]

VARIABLES
  total_time,
  phase,            (* the rooms thread: "idle", or in "step"              *)
  status,           (* "absent", "live", "removed" (for_remove, still in   *)
                    (* zombies) or "erased" from zombies                   *)
  last_event_time,
  version,
  kind,             (* "tank", "missile", or "hit": a missile that collided *)
  unnoted,          (* the object with an event whose step is not yet noted *)
  asker,            (* process whose request the io thread answers, or None *)
  left, passed,     (* objects before the tests of that answer, behind them *)
  copy,             (* the object that is read and not stamped              *)
  ready,            (* forSend: what is sent when the loop is through       *)
  torn,             (* objects with an answer that was stamped after their  *)
                    (* last event and does not show it (history)            *)
  lastAck,          (* ackSendedEvent[pid][obj].lastAck                    *)
  states, acks,     (* packets on their way to and from the client         *)
  process,          (* the client process that runs                        *)
  view,             (* its objects: version and last_update_from_server... *)
  told,             (* objects whose removal this process has got          *)
  ghosts            (* those it created again from a late packet (history) *)

gameVars   == <<total_time, phase, status, last_event_time, version, kind, unnoted>>
answerVars == <<asker, left, passed, copy, ready>>
serverVars == <<gameVars, answerVars, torn>>
clientVars == <<process, view, told, ghosts>>
vars == <<serverVars, lastAck, states, acks, clientVars>>

NoView == [o \in Objs |-> [version |-> None, time |-> None]]

Init ==
  /\ total_time = 0
  /\ phase = "idle"
  /\ status = [o \in Objs |-> "absent"]
  /\ last_event_time = [o \in Objs |-> 0]
  /\ version = [o \in Objs |-> 0]
  /\ kind = [o \in Objs |-> "tank"]
  /\ unnoted = {}
  /\ asker = None
  /\ left = {} /\ passed = {} /\ copy = {} /\ ready = {}
  /\ torn = {}
  /\ lastAck = [p \in Pids |-> [o \in Objs |-> None]]
  /\ states = {}
  /\ acks = {}
  /\ process = 1
  /\ view = NoView
  /\ told = {}
  /\ ghosts = {}

-----------------------------------------------------------------------------
(* The game.                                                                *)

BeginStep ==
  /\ phase = "idle"
  /\ total_time < MaxTime
  /\ total_time' = total_time + 1
  /\ phase' = "step"
  /\ UNCHANGED <<status, last_event_time, version, kind, unnoted, answerVars, torn, lastAck, states,
                 acks, clientVars>>

(* add_object: a shot in the middle of a step, or a player who joins.       *)
Add(o) ==
  /\ status[o] = "absent"
  /\ status' = [status EXCEPT ![o] = "live"]
  /\ last_event_time' = [last_event_time EXCEPT ![o] = total_time]
  /\ \E k \in {"tank", "missile"} : kind' = [kind EXCEPT ![o] = k]
  /\ UNCHANGED <<total_time, phase, version, unnoted, answerVars, torn, lastAck, states, acks,
                 clientVars>>

(* A tank's input that runs, its shot, or the damage it takes.              *)
(* Seeded fault: the step of the event is not noted.                        *)
ChangeFault(o) ==
  /\ phase = "step" /\ unnoted = {}
  /\ status[o] = "live" /\ kind[o] = "tank"
  /\ version[o] < MaxVersion
  /\ version' = [version EXCEPT ![o] = @ + 1]
  /\ UNCHANGED <<total_time, phase, status, last_event_time, kind, unnoted, answerVars, torn,
                 lastAck, states, acks, clientVars>>

Change(o) ==
  /\ phase = "step" /\ unnoted = {}
  /\ status[o] = "live" /\ kind[o] = "tank"
  /\ version[o] < MaxVersion
  /\ version' = [version EXCEPT ![o] = @ + 1]
  /\ unnoted' = {o}
  /\ UNCHANGED <<total_time, phase, status, last_event_time, kind, answerVars, torn, lastAck, states,
                 acks, clientVars>>

(* LiveBoardObject::dead: a tank without health, a missile that missed.     *)
Dead(o) ==
  /\ phase = "step" /\ unnoted = {}
  /\ status[o] = "live"
  /\ status' = [status EXCEPT ![o] = "removed"]
  /\ unnoted' = {o}
  /\ UNCHANGED <<total_time, phase, last_event_time, version, kind, answerVars, torn, lastAck, states,
                 acks, clientVars>>

(* What follows the event: last_event_time=core->total_time.  Answers that  *)
(* were stamped so far claim nothing of what is noted now.                  *)
Note(o) ==
  /\ o \in unnoted
  /\ last_event_time' = [last_event_time EXCEPT ![o] = total_time]
  /\ unnoted' = unnoted \ {o}
  /\ torn' = torn \ {o}
  /\ UNCHANGED <<total_time, phase, status, version, kind, answerVars, lastAck, states, acks,
                 clientVars>>

(* Misle::clear_collision: a missile that hit a tank or left the board is   *)
(* removed, and last_event_time stays that of its birth.                    *)
Collide(o) ==
  /\ phase = "step" /\ unnoted = {}
  /\ status[o] = "live" /\ kind[o] = "missile"
  /\ status' = [status EXCEPT ![o] = "removed"]
  /\ kind' = [kind EXCEPT ![o] = "hit"]
  /\ UNCHANGED <<total_time, phase, last_event_time, version, unnoted, answerVars, torn, lastAck,
                 states, acks, clientVars>>

EndStep ==
  /\ phase = "step" /\ unnoted = {}
  /\ phase' = "idle"
  /\ UNCHANGED <<total_time, status, last_event_time, version, kind, unnoted, answerVars, torn,
                 lastAck, states, acks, clientVars>>

-----------------------------------------------------------------------------
(* ServerViewHandler::init_client for the process the session knows.        *)

InZombies(o) == status[o] \in {"live", "removed"}
Expired(o) == status[o] = "removed" /\ total_time > last_event_time[o] + RemoveWindow

(* Seeded fault: the acknowledgements of every process count.               *)
CoveredFault(p, o) == \E q \in Pids : lastAck[q][o] >= last_event_time[o]

Covered(p, o) == lastAck[p][o] >= last_event_time[o]

Unsynced(p) == {o \in Objs : InZombies(o) /\ ~Expired(o) /\ ~Covered(p, o)}

(* get_data.                                                                *)
CopyOf(o) == [obj |-> o, version |-> version[o],
              event |-> IF status[o] \in {"removed", "erased"} THEN "remove" ELSE "state"]
Stamped(c) == [obj |-> c.obj, room_time |-> total_time, version |-> c.version, event |-> c.event]

(* update_clients, after the steps and under the mutex.  udp_recive notes   *)
(* the client_process_id of every message, and a message of an earlier      *)
(* process may be the last one that came: p is whichever it was.  Erasing   *)
(* from zombies invalidates the iterator of the loop, so that it may then   *)
(* miss other objects (or crash, which is left out).                        *)
UpdateClients(p) ==
  /\ phase = "idle"
  /\ p <= process
  /\ \E seen \in SUBSET Objs :
       /\ seen = Objs \/ \E o \in seen : Expired(o)
       /\ status' = [o \in Objs |-> IF o \in seen /\ Expired(o) THEN "erased" ELSE status[o]]
       /\ states' = states \cup {Stamped(CopyOf(o)) : o \in seen \cap Unsynced(p)}
  /\ UNCHANGED <<total_time, phase, last_event_time, version, kind, unnoted, answerVars, torn,
                 lastAck, acks, clientVars>>

(* ROOM_STATE_REQUST: the same loop on the io thread, without the mutex,    *)
(* while the game goes on.                                                  *)
StateRequest(p) ==
  /\ Requests
  /\ asker = None
  /\ p <= process
  /\ asker' = p
  /\ left' = Objs
  /\ UNCHANGED <<gameVars, passed, copy, ready, torn, lastAck, states, acks, clientVars>>

AtNext == asker # None /\ passed = {} /\ copy = {}

(* The tests of one object.                                                 *)
Skip(o) ==
  /\ AtNext /\ o \in left
  /\ ~InZombies(o) \/ (~Expired(o) /\ Covered(asker, o))
  /\ left' = left \ {o}
  /\ UNCHANGED <<gameVars, asker, passed, copy, ready, torn, lastAck, states, acks, clientVars>>

Erase(o) ==
  /\ AtNext /\ o \in left
  /\ Expired(o)
  /\ status' = [status EXCEPT ![o] = "erased"]
  /\ left' \in SUBSET (left \ {o})
  /\ UNCHANGED <<total_time, phase, last_event_time, version, kind, unnoted, asker, passed, copy,
                 ready, torn, lastAck, states, acks, clientVars>>

Pass(o) ==
  /\ AtNext /\ o \in left \cap Unsynced(asker)
  /\ left' = left \ {o}
  /\ passed' = {o}
  /\ UNCHANGED <<gameVars, asker, copy, ready, torn, lastAck, states, acks, clientVars>>

(* The test of for_remove, and what get_data reads before the clock.  What  *)
(* it reads behind it may be newer.                                         *)
Read(o) ==
  /\ o \in passed
  /\ passed' = {}
  /\ copy' = {CopyOf(o)}
  /\ UNCHANGED <<gameVars, asker, left, ready, torn, lastAck, states, acks, clientVars>>

(* An event of an earlier step than the stamp came after the reading.       *)
Outdated(c) ==
  /\ c.event = "state"
  /\ total_time > last_event_time[c.obj]
  /\ status[c.obj] # "live" \/ c.version # version[c.obj]

(* room_time=core->total_time.                                              *)
Stamp(c) ==
  /\ copy' = {}
  /\ ready' = ready \cup {Stamped(c)}
  /\ torn' = IF Outdated(c) THEN torn \cup {c.obj} ELSE torn
  /\ UNCHANGED <<gameVars, asker, left, passed, lastAck, states, acks, clientVars>>

Send ==
  /\ AtNext /\ left = {}
  /\ states' = states \cup ready
  /\ ready' = {}
  /\ asker' = None
  /\ UNCHANGED <<gameVars, left, passed, copy, torn, lastAck, acks, clientVars>>

(* event_ack keeps the newest step.  It runs on the io thread, too.         *)
EventAck(a) ==
  /\ asker = None
  /\ lastAck' = [lastAck EXCEPT ![a.pid][a.obj] = IF @ < a.step THEN a.step ELSE @]
  /\ UNCHANGED <<serverVars, states, acks, clientVars>>

-----------------------------------------------------------------------------
(* The client.  run_game_core: a removal kills the object; a state creates  *)
(* an object the client does not have, and set_data refuses one that is     *)
(* older than the last.                                                     *)

Known(o) == view[o].version # None

(* Seeded fault: set_data takes whatever comes.                             *)
AcceptsFault(m) == TRUE

Accepts(m) == view[m.obj].time <= m.room_time

Removal(m) ==
  /\ m.event = "remove"
  /\ view' = [view EXCEPT ![m.obj] = [version |-> None, time |-> None]]
  /\ told' = told \cup {m.obj}
  /\ UNCHANGED ghosts

Creation(m) ==
  /\ m.event = "state" /\ ~Known(m.obj)
  /\ view' = [view EXCEPT ![m.obj] = [version |-> m.version, time |-> m.room_time]]
  /\ ghosts' = ghosts \cup (told \cap {m.obj})
  /\ UNCHANGED told

Refresh(m) ==
  /\ m.event = "state" /\ Known(m.obj)
  /\ view' = IF Accepts(m)
             THEN [view EXCEPT ![m.obj] = [version |-> m.version, time |-> m.room_time]]
             ELSE view
  /\ UNCHANGED <<told, ghosts>>

(* The client acknowledges the room_time of every state it gets.            *)
Receive(m) ==
  /\ Removal(m) \/ Creation(m) \/ Refresh(m)
  /\ acks' = acks \cup {[pid |-> process, obj |-> m.obj, step |-> m.room_time]}
  /\ UNCHANGED <<serverVars, lastAck, states, process>>

Restart ==
  /\ process < Processes
  /\ process' = process + 1
  /\ view' = NoView
  /\ told' = {}
  /\ ghosts' = {}
  /\ UNCHANGED <<serverVars, lastAck, states, acks>>

-----------------------------------------------------------------------------
Game ==
  BeginStep \/ EndStep \/ \E o \in Objs : Add(o) \/ Change(o) \/ Dead(o) \/ Collide(o) \/ Note(o)

Answer ==
  \/ \E p \in Pids : StateRequest(p)
  \/ \E o \in Objs : Skip(o) \/ Erase(o) \/ Pass(o) \/ Read(o)
  \/ \E c \in copy : Stamp(c)
  \/ Send

Next ==
  \/ Game
  \/ Answer
  \/ \E p \in Pids : UpdateClients(p)
  \/ \E a \in acks : EventAck(a)
  \/ \E m \in states : Receive(m)
  \/ Restart

(* The rooms thread goes on; the running process is heard again and again   *)
(* and pushed to; packets that are sent again and again arrive.  Only those *)
(* of the last step the model counts are.                                   *)
Fairness ==
  /\ WF_vars(BeginStep) /\ WF_vars(EndStep) /\ \A o \in Objs : WF_vars(Note(o))
  /\ \A p \in Pids : WF_vars(p = process /\ UpdateClients(p))
  /\ \A o \in Objs :
       /\ SF_vars(\E m \in states : m.obj = o /\ m.room_time = MaxTime /\ Receive(m))
       /\ SF_vars(\E a \in acks : a.obj = o /\ a.step = MaxTime /\ EventAck(a))

Spec == Init /\ [][Next]_vars
FairSpec == Spec /\ Fairness

-----------------------------------------------------------------------------
TypeOK ==
  /\ total_time \in 0 .. MaxTime
  /\ phase \in {"idle", "step"}
  /\ status \in [Objs -> {"absent", "live", "removed", "erased"}]
  /\ last_event_time \in [Objs -> 0 .. total_time]
  /\ version \in [Objs -> 0 .. MaxVersion]
  /\ kind \in [Objs -> {"tank", "missile", "hit"}]
  /\ unnoted \subseteq Objs
  /\ asker \in Pids \cup {None}
  /\ left \subseteq Objs /\ passed \subseteq Objs
  /\ copy \subseteq Copy /\ ready \subseteq State
  /\ torn \subseteq Objs
  /\ lastAck \in [Pids -> [Objs -> (0 .. total_time) \cup {None}]]
  /\ states \subseteq State
  /\ acks \subseteq Ack
  /\ process \in Pids
  /\ view \in [Objs -> [version: (0 .. MaxVersion) \cup {None}, time: (0 .. MaxTime) \cup {None}]]
  /\ told \subseteq Objs
  /\ ghosts \subseteq told

(* What the client should have of an object.  A missile that collided is    *)
(* left to its own simulation: once it has acknowledged the missile's       *)
(* birth, no removal is sent.                                               *)
UpToDate(o) ==
  CASE status[o] = "live" -> view[o].version = version[o]
    [] kind[o] = "hit"    -> TRUE
    [] OTHER              -> ~Known(o)

(* Why the running process may lack what an acknowledgement seems to cover: *)
(* a late packet created a removed object again, the step of the event is   *)
(* not noted yet, or a torn answer.                                         *)
Excused(o) == o \in ghosts \/ o \in unnoted \/ o \in torn

(* A step that was acknowledged after the last event of an object means     *)
(* that the running process has the object as it is now, whatever was lost, *)
(* repeated, reordered or sent by an earlier process.  Apart from removed   *)
(* objects that a late packet creates again, the one cause of an error is   *)
(* an answer to a request that was stamped after an event it does not show, *)
(* and the error lasts until the next event of that object.  The bound is   *)
(* strict: init_client also trusts an acknowledgement of the step of the    *)
(* event, which an answer read before the event may have caused.            *)
AckMeansCurrent ==
  \A o \in Objs : lastAck[process][o] > last_event_time[o] => UpToDate(o) \/ Excused(o)

(* When the client sends no requests, init_client is right to trust         *)
(* acknowledgements of the step itself: whatever it would not send to the   *)
(* running process is there already, and no answer is ever torn.            *)
SkippedIsCurrent ==
  ~Requests => \A o \in Objs :
    o \notin torn /\ (Covered(process, o) => UpToDate(o) \/ Excused(o))

(* Once the game stops changing, the running process, a restarted one too,  *)
(* has every object of the room as it is and no removed one, save for those *)
(* whose removal expired.  It holds without requests.                       *)
Converges == <>[](\A o \in Objs : status[o] # "erased" => UpToDate(o) \/ o \in ghosts)
=============================================================================
