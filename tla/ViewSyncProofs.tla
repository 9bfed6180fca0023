---------------------------- MODULE ViewSyncProofs ----------------------------
(***************************************************************************)
(* What ViewSync keeps true for every set of objects, any number of client *)
(* processes and every window and bound.  AckMeansCurrent and              *)
(* SkippedIsCurrent are not inductive: they rest on what the packets under *)
(* way say (StatesFresh, AcksSeen) and on what the running process holds   *)
(* (ViewFresh, ToldIsGone).                                                *)
(***************************************************************************)
EXTENDS ViewSync, TLAPS

USE ViewAssumption DEF ViewAssumption, Pids, None

Gone(o) == status[o] \in {"removed", "erased"}

(* Whether what was read of an object and stamped with step t shows its      *)
(* last event.  A request may be answered within that step, before the event.*)
Shows(t, o) ==
  o \notin unnoted /\ (t > last_event_time[o] \/ (~Requests /\ t >= last_event_time[o]))

HitIsGone == \A o \in Objs : kind[o] = "hit" => Gone(o)

Sent == states \cup ready

StatesFresh ==
  \A m \in Sent :
    /\ status[m.obj] # "absent"
    /\ m.room_time <= total_time
    /\ m.event = "remove" => Gone(m.obj)
    /\ /\ m.event = "state" /\ m.obj \notin torn
       /\ Shows(m.room_time, m.obj) /\ kind[m.obj] # "hit"
       => m.version = version[m.obj] /\ status[m.obj] = "live"

(* What the answer to a request has of the objects it is at.                *)
AnswerKnows ==
  /\ \A o \in passed : status[o] # "absent"
  /\ \A c \in copy : status[c.obj] # "absent" /\ (c.event = "remove" => Gone(c.obj))

NoAnswer == ~Requests => asker = None /\ passed = {} /\ copy = {} /\ ready = {} /\ torn = {}

UnnotedInStep == unnoted # {} => phase = "step"

ViewFresh ==
  \A o \in Objs : Known(o) =>
    /\ status[o] # "absent"
    /\ view[o].time \in 0 .. total_time
    /\ o \notin torn /\ Shows(view[o].time, o) /\ kind[o] # "hit" =>
         view[o].version = version[o] /\ status[o] = "live"

(* Without requests nothing is read before the end of the running step.     *)
StepIsUnread ==
  ~Requests /\ phase = "step" =>
    /\ \A m \in states : m.room_time < total_time
    /\ \A o \in Objs : Known(o) => view[o].time < total_time

ToldIsGone   == \A o \in told : Gone(o)
KnownIsGhost == \A o \in told : Known(o) => o \in ghosts

(* An acknowledgement of the running process follows what it holds.         *)
Holds(o, t) == o \in told \/ (Known(o) /\ view[o].time >= t)

AcksSeen == \A a \in acks : a.pid = process => Holds(a.obj, a.step)
LastAckSeen == \A o \in Objs : lastAck[process][o] # None => Holds(o, lastAck[process][o])

AcksPast == \A a \in acks : a.pid <= process /\ a.step <= total_time
Unheard  == \A p \in Pids : p > process => \A o \in Objs : lastAck[p][o] = None

Heard == AcksPast /\ Unheard /\ AcksSeen /\ LastAckSeen
Fresh == HitIsGone /\ AnswerKnows /\ NoAnswer /\ UnnotedInStep /\ StepIsUnread /\ StatesFresh /\ ViewFresh /\ ToldIsGone /\ KnownIsGhost
IInv  == TypeOK /\ Fresh /\ Heard

-----------------------------------------------------------------------------
LEMMA InitIInv == Init => IInv
  BY DEF Init, IInv, TypeOK, Fresh, Heard, HitIsGone, AnswerKnows, NoAnswer, UnnotedInStep,
         StepIsUnread, StatesFresh, Sent, ViewFresh, ToldIsGone, KnownIsGhost, AcksPast, Unheard, AcksSeen, LastAckSeen, NoView, Known, Gone

(* A copy, and a state that is sent, says what the room is.                 *)
LEMMA CopyType ==
  ASSUME TypeOK
  PROVE  /\ \A o \in Objs : CopyOf(o) \in Copy
         /\ \A c \in Copy : Stamped(c) \in State
  BY DEF TypeOK, CopyOf, Copy, Stamped, State

LEMMA ExceptType ==
  ASSUME NEW S, NEW T, NEW f \in [S -> T], NEW x \in S, NEW v \in T
  PROVE  [f EXCEPT ![x] = v] \in [S -> T]
  OBVIOUS

LEMMA UpdateType ==
  ASSUME TypeOK, NEW p \in Pids, UpdateClients(p)
  PROVE  status' \in [Objs -> {"absent", "live", "removed", "erased"}] /\ states' \subseteq State
  <1>1. PICK seen \in SUBSET Objs :
          /\ status' = [o \in Objs |-> IF o \in seen /\ Expired(o) THEN "erased" ELSE status[o]]
          /\ states' = states \cup {Stamped(CopyOf(o)) : o \in seen \cap Unsynced(p)}
    BY DEF UpdateClients
  <1>2. \A o \in Objs : Stamped(CopyOf(o)) \in State
    BY CopyType
  <1>3. states \subseteq State /\ status \in [Objs -> {"absent", "live", "removed", "erased"}]
    BY DEF TypeOK
  <1>4. \A o \in Objs : status[o] \in {"absent", "live", "removed", "erased"}
    BY <1>3
  <1> QED BY <1>1, <1>2, <1>3, <1>4

(***************************************************************************)
(* Type correctness.                                                       *)
(***************************************************************************)
LEMMA NextTypeOK == TypeOK /\ AcksPast /\ [Next]_vars => TypeOK'
  <1> SUFFICES ASSUME TypeOK, AcksPast, [Next]_vars PROVE TypeOK'
    OBVIOUS
  <1> USE DEF TypeOK, gameVars, answerVars, serverVars, clientVars
  <1>1. CASE BeginStep
    BY <1>1 DEF BeginStep
  <1>2. CASE EndStep
    BY <1>2 DEF EndStep
  <1>3. ASSUME NEW o \in Objs, Add(o) PROVE TypeOK'
    BY <1>3 DEF Add
  <1>4. ASSUME NEW o \in Objs, Change(o) PROVE TypeOK'
    BY <1>4 DEF Change
  <1>5. ASSUME NEW o \in Objs, Dead(o) PROVE TypeOK'
    BY <1>5 DEF Dead
  <1>6. ASSUME NEW o \in Objs, Collide(o) PROVE TypeOK'
    BY <1>6 DEF Collide
  <1>7. ASSUME NEW p \in Pids, UpdateClients(p) PROVE TypeOK'
    <2>1. status' \in [Objs -> {"absent", "live", "removed", "erased"}] /\ states' \subseteq State
      BY <1>7, UpdateType
    <2> QED BY <1>7, <2>1 DEF UpdateClients
  <1>8. CASE Answer
    <2>1. ASSUME NEW p \in Pids, StateRequest(p) PROVE TypeOK'
      BY <2>1 DEF StateRequest
    <2>2. ASSUME NEW o \in Objs, Skip(o) \/ Pass(o) PROVE TypeOK'
      BY <2>2 DEF Skip, Pass
    <2>3. ASSUME NEW o \in Objs, Erase(o) PROVE TypeOK'
      BY <2>3 DEF Erase
    <2>4. ASSUME NEW o \in Objs, Read(o) PROVE TypeOK'
      BY <2>4, CopyType DEF Read
    <2>5. ASSUME NEW c \in copy, Stamp(c) PROVE TypeOK'
      <3>1. c \in Copy /\ c.obj \in Objs /\ Stamped(c) \in State
        BY CopyType DEF Copy
      <3> QED BY <2>5, <3>1 DEF Stamp
    <2>6. CASE Send
      BY <2>6 DEF Send
    <2> QED BY <1>8, <2>1, <2>2, <2>3, <2>4, <2>5, <2>6 DEF Answer
  <1>9. ASSUME NEW a \in acks, EventAck(a) PROVE TypeOK'
    <2>1. a.pid \in Pids /\ a.obj \in Objs /\ a.step \in 0 .. total_time
      BY DEF Ack, AcksPast
    <2>2. lastAck' = [lastAck EXCEPT ![a.pid] = [lastAck[a.pid] EXCEPT ![a.obj] =
                       IF lastAck[a.pid][a.obj] < a.step THEN a.step ELSE lastAck[a.pid][a.obj]]]
      BY <1>9 DEF EventAck
    <2>3. lastAck[a.pid] \in [Objs -> (0 .. total_time) \cup {None}]
      BY <2>1
    <2>4. (IF lastAck[a.pid][a.obj] < a.step THEN a.step ELSE lastAck[a.pid][a.obj])
            \in (0 .. total_time) \cup {None}
      BY <2>1, <2>3
    <2>5. lastAck'[a.pid] \in [Objs -> (0 .. total_time) \cup {None}]
      BY <2>1, <2>2, <2>3, <2>4, ExceptType
    <2>6. lastAck' \in [Pids -> [Objs -> (0 .. total_time) \cup {None}]]
      BY <2>1, <2>2, <2>5, ExceptType
    <2> QED BY <1>9, <2>6 DEF EventAck
  <1>10. ASSUME NEW m \in states, Receive(m) PROVE TypeOK'
    <2>1. m \in State
      OBVIOUS
    <2>2. CASE Removal(m)
      BY <1>10, <2>1, <2>2 DEF Receive, Removal, Ack, State
    <2>3. CASE Creation(m)
      BY <1>10, <2>1, <2>3 DEF Receive, Creation, Ack, State
    <2>4. CASE Refresh(m)
      BY <1>10, <2>1, <2>4 DEF Receive, Refresh, Ack, State
    <2> QED BY <1>10, <2>2, <2>3, <2>4 DEF Receive
  <1>11. CASE Restart
    BY <1>11 DEF Restart, NoView
  <1>12. CASE UNCHANGED vars
    BY <1>12 DEF vars
  <1>13. ASSUME NEW o \in Objs, Note(o) PROVE TypeOK'
    BY <1>13 DEF Note
  <1> QED BY <1>1, <1>2, <1>3, <1>4, <1>5, <1>6, <1>7, <1>8, <1>9, <1>10, <1>11, <1>12, <1>13
          DEF Next, Game

(***************************************************************************)
(* What states under way and the running process say of the room.          *)
(***************************************************************************)
LEMMA NextFresh == TypeOK /\ Fresh /\ [Next]_vars => Fresh'
  <1> SUFFICES ASSUME TypeOK, Fresh, [Next]_vars PROVE Fresh'
    OBVIOUS
  <1> USE DEF TypeOK, Fresh, gameVars, answerVars, serverVars, clientVars
  <1>1. CASE BeginStep
    <2>1. HitIsGone' /\ AnswerKnows' /\ NoAnswer' /\ UnnotedInStep'
      BY <1>1 DEF BeginStep, HitIsGone, AnswerKnows, NoAnswer, UnnotedInStep, Gone, Copy
    <2>2. StepIsUnread'
      BY <1>1 DEF BeginStep, StepIsUnread, NoAnswer, StatesFresh, Sent, ViewFresh, Known, State
    <2>3. StatesFresh'
      BY <1>1 DEF BeginStep, StatesFresh, Sent, NoAnswer, UnnotedInStep, StepIsUnread, Shows, Gone, State
    <2>4. ViewFresh'
      BY <1>1 DEF BeginStep, ViewFresh, NoAnswer, UnnotedInStep, StepIsUnread, Shows, Known
    <2>5. ToldIsGone' /\ KnownIsGhost'
      BY <1>1 DEF BeginStep, ToldIsGone, KnownIsGhost, Gone, Known
    <2> QED BY <2>1, <2>2, <2>3, <2>4, <2>5
  <1>2. CASE EndStep
    <2>1. HitIsGone' /\ AnswerKnows' /\ NoAnswer' /\ UnnotedInStep'
      BY <1>2 DEF EndStep, HitIsGone, AnswerKnows, NoAnswer, UnnotedInStep, Gone, Copy
    <2>2. StepIsUnread'
      BY <1>2 DEF EndStep, StepIsUnread, NoAnswer, StatesFresh, Sent, ViewFresh, Known
    <2>3. StatesFresh'
      BY <1>2 DEF EndStep, StatesFresh, Sent, NoAnswer, UnnotedInStep, StepIsUnread, Shows, Gone, State
    <2>4. ViewFresh'
      BY <1>2 DEF EndStep, ViewFresh, NoAnswer, UnnotedInStep, StepIsUnread, Shows, Known
    <2>5. ToldIsGone' /\ KnownIsGhost'
      BY <1>2 DEF EndStep, ToldIsGone, KnownIsGhost, Gone, Known
    <2> QED BY <2>1, <2>2, <2>3, <2>4, <2>5
  <1>3. ASSUME NEW o \in Objs, Add(o) PROVE Fresh'
    <2>1. HitIsGone' /\ AnswerKnows' /\ NoAnswer' /\ UnnotedInStep'
      BY <1>3 DEF Add, HitIsGone, AnswerKnows, NoAnswer, UnnotedInStep, Gone, Copy
    <2>2. StepIsUnread'
      BY <1>3 DEF Add, StepIsUnread, NoAnswer, StatesFresh, Sent, ViewFresh, Known
    <2>3. StatesFresh'
      BY <1>3 DEF Add, StatesFresh, Sent, NoAnswer, UnnotedInStep, StepIsUnread, Shows, Gone, State
    <2>4. ViewFresh'
      BY <1>3 DEF Add, ViewFresh, NoAnswer, UnnotedInStep, StepIsUnread, Shows, Known
    <2>5. ToldIsGone' /\ KnownIsGhost'
      BY <1>3 DEF Add, ToldIsGone, KnownIsGhost, Gone, Known
    <2> QED BY <2>1, <2>2, <2>3, <2>4, <2>5
  <1>4. ASSUME NEW o \in Objs, Change(o) PROVE Fresh'
    <2>1. HitIsGone' /\ AnswerKnows' /\ NoAnswer' /\ UnnotedInStep'
      BY <1>4 DEF Change, HitIsGone, AnswerKnows, NoAnswer, UnnotedInStep, Gone, Copy
    <2>2. StepIsUnread'
      BY <1>4 DEF Change, StepIsUnread, NoAnswer, StatesFresh, Sent, ViewFresh, Known
    <2>3. StatesFresh'
      BY <1>4 DEF Change, StatesFresh, Sent, NoAnswer, UnnotedInStep, StepIsUnread, Shows, Gone, State
    <2>4. ViewFresh'
      BY <1>4 DEF Change, ViewFresh, NoAnswer, UnnotedInStep, StepIsUnread, Shows, Known
    <2>5. ToldIsGone' /\ KnownIsGhost'
      BY <1>4 DEF Change, ToldIsGone, KnownIsGhost, Gone, Known
    <2> QED BY <2>1, <2>2, <2>3, <2>4, <2>5
  <1>5. ASSUME NEW o \in Objs, Dead(o) PROVE Fresh'
    <2>1. HitIsGone' /\ AnswerKnows' /\ NoAnswer' /\ UnnotedInStep'
      BY <1>5 DEF Dead, HitIsGone, AnswerKnows, NoAnswer, UnnotedInStep, Gone, Copy
    <2>2. StepIsUnread'
      BY <1>5 DEF Dead, StepIsUnread, NoAnswer, StatesFresh, Sent, ViewFresh, Known
    <2>3. StatesFresh'
      BY <1>5 DEF Dead, StatesFresh, Sent, NoAnswer, UnnotedInStep, StepIsUnread, Shows, Gone, State
    <2>4. ViewFresh'
      BY <1>5 DEF Dead, ViewFresh, NoAnswer, UnnotedInStep, StepIsUnread, Shows, Known
    <2>5. ToldIsGone' /\ KnownIsGhost'
      BY <1>5 DEF Dead, ToldIsGone, KnownIsGhost, Gone, Known
    <2> QED BY <2>1, <2>2, <2>3, <2>4, <2>5
  <1>6. ASSUME NEW o \in Objs, Note(o) PROVE Fresh'
    <2>1. HitIsGone' /\ AnswerKnows' /\ NoAnswer' /\ UnnotedInStep'
      BY <1>6 DEF Note, HitIsGone, AnswerKnows, NoAnswer, UnnotedInStep, Gone, Copy
    <2>2. StepIsUnread'
      BY <1>6 DEF Note, StepIsUnread, NoAnswer, StatesFresh, Sent, ViewFresh, Known
    <2>3. StatesFresh'
      BY <1>6 DEF Note, StatesFresh, Sent, NoAnswer, UnnotedInStep, StepIsUnread, Shows, Gone, State
    <2>4. ViewFresh'
      BY <1>6 DEF Note, ViewFresh, NoAnswer, UnnotedInStep, StepIsUnread, Shows, Known
    <2>5. ToldIsGone' /\ KnownIsGhost'
      BY <1>6 DEF Note, ToldIsGone, KnownIsGhost, Gone, Known
    <2> QED BY <2>1, <2>2, <2>3, <2>4, <2>5
  <1>7. ASSUME NEW o \in Objs, Collide(o) PROVE Fresh'
    <2>1. HitIsGone' /\ AnswerKnows' /\ NoAnswer' /\ UnnotedInStep'
      BY <1>7 DEF Collide, HitIsGone, AnswerKnows, NoAnswer, UnnotedInStep, Gone, Copy
    <2>2. StepIsUnread'
      BY <1>7 DEF Collide, StepIsUnread, NoAnswer, StatesFresh, Sent, ViewFresh, Known
    <2>3. StatesFresh'
      BY <1>7 DEF Collide, StatesFresh, Sent, NoAnswer, UnnotedInStep, StepIsUnread, Shows, Gone, State
    <2>4. ViewFresh'
      BY <1>7 DEF Collide, ViewFresh, NoAnswer, UnnotedInStep, StepIsUnread, Shows, Known
    <2>5. ToldIsGone' /\ KnownIsGhost'
      BY <1>7 DEF Collide, ToldIsGone, KnownIsGhost, Gone, Known
    <2> QED BY <2>1, <2>2, <2>3, <2>4, <2>5
  <1>8. ASSUME NEW p \in Pids, UpdateClients(p) PROVE Fresh'
    <2>1. HitIsGone' /\ AnswerKnows' /\ NoAnswer' /\ UnnotedInStep'
      BY <1>8 DEF UpdateClients, HitIsGone, AnswerKnows, NoAnswer, UnnotedInStep, Gone, Copy, Expired
    <2>2. StepIsUnread'
      BY <1>8 DEF UpdateClients, StepIsUnread, NoAnswer, StatesFresh, Sent, ViewFresh, Known, Stamped, CopyOf, Unsynced, InZombies, Expired
    <2>3. StatesFresh'
      BY <1>8 DEF UpdateClients, StatesFresh, Sent, NoAnswer, UnnotedInStep, StepIsUnread, Shows, Gone, State, Stamped, CopyOf, Unsynced, InZombies, Expired
    <2>4. ViewFresh'
      BY <1>8 DEF UpdateClients, ViewFresh, NoAnswer, UnnotedInStep, StepIsUnread, Shows, Known, Stamped, CopyOf, Unsynced, InZombies, Expired
    <2>5. ToldIsGone' /\ KnownIsGhost'
      BY <1>8 DEF UpdateClients, ToldIsGone, KnownIsGhost, Gone, Known
    <2> QED BY <2>1, <2>2, <2>3, <2>4, <2>5
  <1>9. ASSUME NEW a \in acks, EventAck(a) PROVE Fresh'
    <2>1. HitIsGone' /\ AnswerKnows' /\ NoAnswer' /\ UnnotedInStep'
      BY <1>9 DEF EventAck, HitIsGone, AnswerKnows, NoAnswer, UnnotedInStep, Gone, Copy
    <2>2. StepIsUnread'
      BY <1>9 DEF EventAck, StepIsUnread, NoAnswer, StatesFresh, Sent, ViewFresh, Known
    <2>3. StatesFresh'
      BY <1>9 DEF EventAck, StatesFresh, Sent, NoAnswer, UnnotedInStep, StepIsUnread, Shows, Gone, State
    <2>4. ViewFresh'
      BY <1>9 DEF EventAck, ViewFresh, NoAnswer, UnnotedInStep, StepIsUnread, Shows, Known
    <2>5. ToldIsGone' /\ KnownIsGhost'
      BY <1>9 DEF EventAck, ToldIsGone, KnownIsGhost, Gone, Known
    <2> QED BY <2>1, <2>2, <2>3, <2>4, <2>5
  <1>10. ASSUME NEW m \in states, Receive(m) PROVE Fresh'
    <2>1. /\ m \in State /\ m.obj \in Objs /\ m.room_time \in 0 .. total_time
          /\ m.version \in 0 .. MaxVersion /\ m.event \in {"state", "remove"}
      BY DEF State, StatesFresh, Sent
    <2>2. HitIsGone' /\ AnswerKnows' /\ NoAnswer' /\ UnnotedInStep' /\ StatesFresh'
      BY <1>10 DEF Receive, HitIsGone, AnswerKnows, NoAnswer, UnnotedInStep, StatesFresh, Sent, Shows, Gone
    <2>3. StepIsUnread'
      <3>1. ASSUME NEW o \in Objs, Known(o)'
            PROVE  view'[o].time = m.room_time \/ (Known(o) /\ view'[o] = view[o])
        <4>1. view' = view \/ \E v : view' = [view EXCEPT ![m.obj] = v]
                /\ v \in {[version |-> None, time |-> None], [version |-> m.version, time |-> m.room_time]}
          BY <1>10 DEF Receive, Removal, Creation, Refresh
        <4>2. view'[o].version # None
          BY <3>1 DEF Known
        <4>3. CASE view'[o] = view[o]
          BY <4>2, <4>3 DEF Known
        <4>4. CASE view'[o] # view[o]
          <5>1. o = m.obj /\ m.obj \in DOMAIN view
            BY <4>1, <4>4, <2>1
          <5> HIDE DEF TypeOK, Fresh
          <5> QED BY <4>1, <4>2, <4>4, <5>1
        <4> QED BY <4>3, <4>4
      <3> QED BY <1>10, <3>1 DEF Receive, StepIsUnread
    <2>4. CASE Removal(m)
      BY <1>10, <2>3, <2>1, <2>2, <2>4
         DEF Receive, Removal, StatesFresh, Sent, ViewFresh, ToldIsGone, KnownIsGhost, Shows, Gone, Known
    <2>5. ASSUME m.event = "state",
                 \/ view' = view
                 \/ view' = [view EXCEPT ![m.obj] = [version |-> m.version, time |-> m.room_time]]
          PROVE  ViewFresh'
      <3>1. UNCHANGED <<total_time, status, last_event_time, version, kind, unnoted, torn>>
        BY <1>10 DEF Receive
      <3>2. /\ status[m.obj] # "absent" /\ m.event = "state"
            /\ m.obj \notin torn /\ Shows(m.room_time, m.obj) /\ kind[m.obj] # "hit" =>
                 m.version = version[m.obj] /\ status[m.obj] = "live"
        BY <2>5 DEF StatesFresh, Sent
      <3>3. ASSUME NEW o \in Objs, Known(o)'
            PROVE  \/ Known(o) /\ view'[o] = view[o]
                   \/ o = m.obj /\ view'[o] = [version |-> m.version, time |-> m.room_time]
        <4>1. \/ view'[o] = view[o]
              \/ o = m.obj /\ view'[o] = [version |-> m.version, time |-> m.room_time]
          BY <2>1, <2>5
        <4> QED BY <3>3, <4>1 DEF Known
      <3>4. \A o \in Objs : \A t : Shows(t, o)' <=> Shows(t, o)
        BY <3>1 DEF Shows
      <3> HIDE DEF TypeOK
      <3> QED BY <2>1, <3>1, <3>2, <3>3, <3>4 DEF ViewFresh
    <2>6. CASE Creation(m)
      <3>1. view' = [view EXCEPT ![m.obj] = [version |-> m.version, time |-> m.room_time]]
        BY <2>6 DEF Creation
      <3>2. status' = status /\ told' = told /\ ghosts' = ghosts \cup (told \cap {m.obj})
        BY <1>10, <2>6 DEF Receive, Creation
      <3>3. ViewFresh'
        BY <2>6, <2>5, <3>1 DEF Creation
      <3>4. ToldIsGone' /\ KnownIsGhost'
        BY <2>1, <3>1, <3>2 DEF ToldIsGone, KnownIsGhost, Gone, Known
      <3> QED BY <2>3, <2>2, <3>3, <3>4
    <2>7. CASE Refresh(m)
      <3>1. \/ view' = view
            \/ view' = [view EXCEPT ![m.obj] = [version |-> m.version, time |-> m.room_time]]
        BY <2>7 DEF Refresh
      <3>2. Known(m.obj) /\ told' = told /\ ghosts' = ghosts /\ status' = status
        BY <1>10, <2>7 DEF Receive, Refresh
      <3>3. ViewFresh'
        BY <2>7, <2>5, <3>1 DEF Refresh
      <3>4. ToldIsGone' /\ KnownIsGhost'
        BY <2>1, <3>1, <3>2 DEF ToldIsGone, KnownIsGhost, Gone, Known
      <3> QED BY <2>3, <2>2, <3>3, <3>4
    <2> QED BY <1>10, <2>4, <2>6, <2>7 DEF Receive
  <1>11. CASE Restart
    <2>1. HitIsGone' /\ AnswerKnows' /\ NoAnswer' /\ UnnotedInStep'
      BY <1>11 DEF Restart, NoView, HitIsGone, AnswerKnows, NoAnswer, UnnotedInStep, Gone, Copy
    <2>2. StepIsUnread'
      BY <1>11 DEF Restart, NoView, StepIsUnread, NoAnswer, StatesFresh, Sent, ViewFresh, Known
    <2>3. StatesFresh'
      BY <1>11 DEF Restart, NoView, StatesFresh, Sent, NoAnswer, UnnotedInStep, StepIsUnread, Shows, Gone, State
    <2>4. ViewFresh'
      BY <1>11 DEF Restart, NoView, ViewFresh, NoAnswer, UnnotedInStep, StepIsUnread, Shows, Known
    <2>5. ToldIsGone' /\ KnownIsGhost'
      BY <1>11 DEF Restart, NoView, ToldIsGone, KnownIsGhost, Gone, Known
    <2> QED BY <2>1, <2>2, <2>3, <2>4, <2>5
  <1>12. ASSUME NEW p \in Pids, StateRequest(p) PROVE Fresh'
    <2>1. HitIsGone' /\ AnswerKnows' /\ NoAnswer' /\ UnnotedInStep'
      BY <1>12 DEF StateRequest, HitIsGone, AnswerKnows, NoAnswer, UnnotedInStep, Gone, Copy
    <2>2. StepIsUnread'
      BY <1>12 DEF StateRequest, StepIsUnread, NoAnswer, StatesFresh, Sent, ViewFresh, Known
    <2>3. StatesFresh'
      BY <1>12 DEF StateRequest, StatesFresh, Sent, NoAnswer, UnnotedInStep, StepIsUnread, Shows, Gone, State
    <2>4. ViewFresh'
      BY <1>12 DEF StateRequest, ViewFresh, NoAnswer, UnnotedInStep, StepIsUnread, Shows, Known
    <2>5. ToldIsGone' /\ KnownIsGhost'
      BY <1>12 DEF StateRequest, ToldIsGone, KnownIsGhost, Gone, Known
    <2> QED BY <2>1, <2>2, <2>3, <2>4, <2>5
  <1>13. ASSUME NEW o \in Objs, Skip(o) PROVE Fresh'
    <2>1. HitIsGone' /\ AnswerKnows' /\ NoAnswer' /\ UnnotedInStep'
      BY <1>13 DEF Skip, AtNext, HitIsGone, AnswerKnows, NoAnswer, UnnotedInStep, Gone, Copy
    <2>2. StepIsUnread'
      BY <1>13 DEF Skip, AtNext, StepIsUnread, NoAnswer, StatesFresh, Sent, ViewFresh, Known
    <2>3. StatesFresh'
      BY <1>13 DEF Skip, AtNext, StatesFresh, Sent, NoAnswer, UnnotedInStep, StepIsUnread, Shows, Gone, State
    <2>4. ViewFresh'
      BY <1>13 DEF Skip, AtNext, ViewFresh, NoAnswer, UnnotedInStep, StepIsUnread, Shows, Known
    <2>5. ToldIsGone' /\ KnownIsGhost'
      BY <1>13 DEF Skip, AtNext, ToldIsGone, KnownIsGhost, Gone, Known
    <2> QED BY <2>1, <2>2, <2>3, <2>4, <2>5
  <1>14. ASSUME NEW o \in Objs, Pass(o) PROVE Fresh'
    <2>1. HitIsGone' /\ AnswerKnows' /\ NoAnswer' /\ UnnotedInStep'
      BY <1>14 DEF Pass, AtNext, Unsynced, InZombies, HitIsGone, AnswerKnows, NoAnswer, UnnotedInStep, Gone, Copy
    <2>2. StepIsUnread'
      BY <1>14 DEF Pass, AtNext, Unsynced, InZombies, StepIsUnread, NoAnswer, StatesFresh, Sent, ViewFresh, Known
    <2>3. StatesFresh'
      BY <1>14 DEF Pass, AtNext, Unsynced, InZombies, StatesFresh, Sent, NoAnswer, UnnotedInStep, StepIsUnread, Shows, Gone, State
    <2>4. ViewFresh'
      BY <1>14 DEF Pass, AtNext, Unsynced, InZombies, ViewFresh, NoAnswer, UnnotedInStep, StepIsUnread, Shows, Known
    <2>5. ToldIsGone' /\ KnownIsGhost'
      BY <1>14 DEF Pass, AtNext, Unsynced, InZombies, ToldIsGone, KnownIsGhost, Gone, Known
    <2> QED BY <2>1, <2>2, <2>3, <2>4, <2>5
  <1>15. ASSUME NEW o \in Objs, Erase(o) PROVE Fresh'
    <2>1. HitIsGone' /\ AnswerKnows' /\ NoAnswer' /\ UnnotedInStep'
      BY <1>15 DEF Erase, AtNext, Expired, HitIsGone, AnswerKnows, NoAnswer, UnnotedInStep, Gone, Copy
    <2>2. StepIsUnread'
      BY <1>15 DEF Erase, AtNext, Expired, StepIsUnread, NoAnswer, StatesFresh, Sent, ViewFresh, Known
    <2>3. StatesFresh'
      BY <1>15 DEF Erase, AtNext, Expired, StatesFresh, Sent, NoAnswer, UnnotedInStep, StepIsUnread, Shows, Gone, State
    <2>4. ViewFresh'
      BY <1>15 DEF Erase, AtNext, Expired, ViewFresh, NoAnswer, UnnotedInStep, StepIsUnread, Shows, Known
    <2>5. ToldIsGone' /\ KnownIsGhost'
      BY <1>15 DEF Erase, AtNext, Expired, ToldIsGone, KnownIsGhost, Gone, Known
    <2> QED BY <2>1, <2>2, <2>3, <2>4, <2>5
  <1>16. ASSUME NEW o \in Objs, Read(o) PROVE Fresh'
    <2>1. HitIsGone' /\ AnswerKnows' /\ NoAnswer' /\ UnnotedInStep'
      BY <1>16 DEF Read, CopyOf, HitIsGone, AnswerKnows, NoAnswer, UnnotedInStep, Gone, Copy
    <2>2. StepIsUnread'
      BY <1>16 DEF Read, CopyOf, StepIsUnread, NoAnswer, StatesFresh, Sent, ViewFresh, Known
    <2>3. StatesFresh'
      BY <1>16 DEF Read, CopyOf, StatesFresh, Sent, NoAnswer, UnnotedInStep, StepIsUnread, Shows, Gone, State
    <2>4. ViewFresh'
      BY <1>16 DEF Read, CopyOf, ViewFresh, NoAnswer, UnnotedInStep, StepIsUnread, Shows, Known
    <2>5. ToldIsGone' /\ KnownIsGhost'
      BY <1>16 DEF Read, CopyOf, ToldIsGone, KnownIsGhost, Gone, Known
    <2> QED BY <2>1, <2>2, <2>3, <2>4, <2>5
  <1>17. ASSUME NEW c \in copy, Stamp(c) PROVE Fresh'
    <2>1. HitIsGone' /\ AnswerKnows' /\ NoAnswer' /\ UnnotedInStep'
      BY <1>17 DEF Stamp, Stamped, Outdated, AnswerKnows, Copy, HitIsGone, AnswerKnows, NoAnswer, UnnotedInStep, Gone, Copy
    <2>2. StepIsUnread'
      BY <1>17 DEF Stamp, Stamped, Outdated, AnswerKnows, Copy, StepIsUnread, NoAnswer, StatesFresh, Sent, ViewFresh, Known
    <2>3. StatesFresh'
      BY <1>17 DEF Stamp, Stamped, Outdated, AnswerKnows, Copy, StatesFresh, Sent, NoAnswer, UnnotedInStep, StepIsUnread, Shows, Gone, State
    <2>4. ViewFresh'
      BY <1>17 DEF Stamp, Stamped, Outdated, AnswerKnows, Copy, ViewFresh, NoAnswer, UnnotedInStep, StepIsUnread, Shows, Known
    <2>5. ToldIsGone' /\ KnownIsGhost'
      BY <1>17 DEF Stamp, Stamped, Outdated, AnswerKnows, Copy, ToldIsGone, KnownIsGhost, Gone, Known
    <2> QED BY <2>1, <2>2, <2>3, <2>4, <2>5
  <1>18. CASE Send
    <2>1. HitIsGone' /\ AnswerKnows' /\ NoAnswer' /\ UnnotedInStep'
      BY <1>18 DEF Send, AtNext, HitIsGone, AnswerKnows, NoAnswer, UnnotedInStep, Gone, Copy
    <2>2. StepIsUnread'
      BY <1>18 DEF Send, AtNext, StepIsUnread, NoAnswer, StatesFresh, Sent, ViewFresh, Known
    <2>3. StatesFresh'
      BY <1>18 DEF Send, AtNext, StatesFresh, Sent, NoAnswer, UnnotedInStep, StepIsUnread, Shows, Gone, State
    <2>4. ViewFresh'
      BY <1>18 DEF Send, AtNext, ViewFresh, NoAnswer, UnnotedInStep, StepIsUnread, Shows, Known
    <2>5. ToldIsGone' /\ KnownIsGhost'
      BY <1>18 DEF Send, AtNext, ToldIsGone, KnownIsGhost, Gone, Known
    <2> QED BY <2>1, <2>2, <2>3, <2>4, <2>5
  <1>19. CASE UNCHANGED vars
    <2>1. HitIsGone' /\ AnswerKnows' /\ NoAnswer' /\ UnnotedInStep'
      BY <1>19 DEF vars, HitIsGone, AnswerKnows, NoAnswer, UnnotedInStep, Gone, Copy
    <2>2. StepIsUnread'
      BY <1>19 DEF vars, StepIsUnread, NoAnswer, StatesFresh, Sent, ViewFresh, Known
    <2>3. StatesFresh'
      BY <1>19 DEF vars, StatesFresh, Sent, NoAnswer, UnnotedInStep, StepIsUnread, Shows, Gone, State
    <2>4. ViewFresh'
      BY <1>19 DEF vars, ViewFresh, NoAnswer, UnnotedInStep, StepIsUnread, Shows, Known
    <2>5. ToldIsGone' /\ KnownIsGhost'
      BY <1>19 DEF vars, ToldIsGone, KnownIsGhost, Gone, Known
    <2> QED BY <2>1, <2>2, <2>3, <2>4, <2>5
  <1> QED BY <1>1, <1>2, <1>3, <1>4, <1>5, <1>6, <1>7, <1>8, <1>9, <1>10, <1>11, <1>12, <1>13, <1>14, <1>15, <1>16, <1>17, <1>18, <1>19
          DEF Next, Game, Answer

(***************************************************************************)
(* What the acknowledgements say of the running process.                   *)
(***************************************************************************)
(* A process forgets nothing it was told and keeps the newest it has got.   *)
LEMMA ReceiveHolds ==
  ASSUME TypeOK, Fresh, NEW m \in states, Receive(m),
         NEW o \in Objs, NEW t \in Nat, Holds(o, t) \/ (o = m.obj /\ t = m.room_time)
  PROVE  Holds(o, t)'
  <1>1. m \in State /\ m.obj \in Objs /\ m.room_time \in Nat /\ m.version \in Nat
    BY DEF TypeOK, State
  <1>2. view[m.obj].time \in Nat \cup {-1}
    BY <1>1 DEF TypeOK
  <1>3. CASE Removal(m)
    BY <1>1, <1>3 DEF Removal, Holds, Known, TypeOK
  <1>4. CASE Creation(m)
    BY <1>1, <1>4 DEF Creation, Holds, Known, TypeOK
  <1>5. CASE Refresh(m)
    <2>1. /\ told' = told /\ Known(m.obj) /\ view \in [Objs -> [version: (0 .. MaxVersion) \cup {None}, time: (0 .. MaxTime) \cup {None}]]
          /\ view' = IF view[m.obj].time <= m.room_time
                     THEN [view EXCEPT ![m.obj] = [version |-> m.version, time |-> m.room_time]]
                     ELSE view
      BY <1>5 DEF Refresh, Accepts, TypeOK
    <2>2. CASE view' = view
      <3>1. Holds(o, t) \/ (o = m.obj /\ view[o].time >= t)
        <4>1. CASE view[m.obj].time <= m.room_time
          BY <1>1, <2>1, <2>2, <4>1
        <4>2. CASE ~(view[m.obj].time <= m.room_time)
          BY <1>1, <1>2, <4>2
        <4> QED BY <4>1, <4>2
      <3> QED BY <2>1, <2>2, <3>1 DEF Holds, Known
    <2>3. CASE /\ view[m.obj].time <= m.room_time
               /\ view' = [view EXCEPT ![m.obj] = [version |-> m.version, time |-> m.room_time]]
      <3>1. CASE o = m.obj
        <4>1. view'[o].version = m.version /\ view'[o].time = m.room_time
          BY <1>1, <2>1, <2>3, <3>1
        <4>2. o \in told \/ m.room_time >= t
          BY <1>1, <1>2, <2>3, <3>1 DEF Holds
        <4> QED BY <1>1, <2>1, <4>1, <4>2 DEF Holds, Known
      <3>2. CASE o # m.obj
        BY <2>1, <2>3, <3>2 DEF Holds, Known
      <3> QED BY <3>1, <3>2
    <2> QED BY <2>1, <2>2, <2>3
  <1> QED BY <1>3, <1>4, <1>5 DEF Receive

LEMMA NextHeard == TypeOK /\ Fresh /\ Heard /\ [Next]_vars => Heard'
  <1> SUFFICES ASSUME TypeOK, Fresh, Heard, [Next]_vars PROVE Heard'
    OBVIOUS
  <1> USE DEF Heard, gameVars, answerVars, serverVars, clientVars
  <1>1. ASSUME UNCHANGED <<lastAck, acks, clientVars>>,
               total_time' = total_time \/ total_time' = total_time + 1
        PROVE  Heard'
    BY <1>1 DEF TypeOK, AcksPast, Ack, Unheard, AcksSeen, LastAckSeen, Holds, Known
  <1>2. ASSUME NEW a \in acks, EventAck(a) PROVE Heard'
    <2>1. a.pid \in Pids /\ a.obj \in Objs /\ a.step \in Nat
      BY DEF TypeOK, Ack
    <2>2. \A p \in Pids, o \in Objs :
            \/ lastAck'[p][o] = lastAck[p][o]
            \/ p = a.pid /\ o = a.obj /\ lastAck'[p][o] = a.step
      BY <1>2, <2>1 DEF EventAck, TypeOK
    <2>3. AcksPast' /\ AcksSeen'
      BY <1>2 DEF EventAck, AcksPast, AcksSeen, Holds, Known
    <2>4. Unheard'
      BY <1>2, <2>1, <2>2 DEF EventAck, Unheard, AcksPast, TypeOK
    <2>5. LastAckSeen'
      BY <1>2, <2>1, <2>2 DEF EventAck, LastAckSeen, AcksSeen, Holds, Known, TypeOK
    <2> QED BY <2>3, <2>4, <2>5
  <1>3. ASSUME NEW m \in states, Receive(m) PROVE Heard'
    <2>1. m.obj \in Objs /\ m.room_time \in Nat /\ m.room_time <= total_time
      BY DEF TypeOK, State, Fresh, StatesFresh, Sent
    <2>2. AcksPast' /\ Unheard'
      BY <1>3, <2>1 DEF Receive, AcksPast, Unheard, TypeOK
    <2>3. ASSUME NEW a \in acks', a.pid = process' PROVE Holds(a.obj, a.step)'
      <3>1. CASE a \in acks
        <4>1. a.obj \in Objs /\ a.step \in Nat /\ Holds(a.obj, a.step)
          BY <1>3, <2>3, <3>1 DEF AcksSeen, Receive, TypeOK, Ack
        <4> QED BY <1>3, <4>1, ReceiveHolds
      <3>2. CASE a = [pid |-> process, obj |-> m.obj, step |-> m.room_time]
        BY <1>3, <2>1, <3>2, ReceiveHolds
      <3> QED BY <1>3, <3>1, <3>2 DEF Receive
    <2>4. ASSUME NEW o \in Objs, lastAck'[process'][o] # None
          PROVE  Holds(o, lastAck[process][o])'
      <3>1. lastAck' = lastAck /\ process' = process
        BY <1>3 DEF Receive
      <3>2. lastAck[process][o] \in Nat /\ Holds(o, lastAck[process][o])
        BY <2>4, <3>1 DEF LastAckSeen, TypeOK
      <3>3. ASSUME NEW t \in Nat, Holds(o, t) PROVE Holds(o, t)'
        BY <1>3, <3>3, ReceiveHolds
      <3> QED BY <3>1, <3>2, <3>3 DEF Holds
    <2> QED BY <2>2, <2>3, <2>4 DEF AcksSeen, LastAckSeen
  <1>4. CASE Restart
    BY <1>4 DEF Restart, TypeOK, Ack, AcksPast, Unheard, AcksSeen, LastAckSeen
  <1>5. CASE Game
    BY <1>1, <1>5 DEF Game, BeginStep, EndStep, Add, Change, Dead, Note, Collide
  <1>6. CASE Answer \/ \E p \in Pids : UpdateClients(p)
    BY <1>1, <1>6 DEF Answer, UpdateClients, StateRequest, Skip, Erase, Pass, Read, Stamp, Send
  <1>7. CASE UNCHANGED vars
    BY <1>1, <1>7 DEF vars
  <1> QED BY <1>2, <1>3, <1>4, <1>5, <1>6, <1>7 DEF Next

-----------------------------------------------------------------------------
LEMMA NextIInv == IInv /\ [Next]_vars => IInv'
  BY NextTypeOK, NextFresh, NextHeard DEF IInv, Heard

(* Every variable keeps its type.                                           *)
THEOREM TypeCorrect == Spec => []TypeOK
  <1>1. IInv => TypeOK
    BY DEF IInv
  <1> QED BY InitIInv, NextIInv, <1>1, PTL DEF Spec

(* A step acknowledged after the last event of an object means that the     *)
(* running process of the client has the object as it is now, or created it *)
(* again from a late packet, or that an answer to a request was torn since  *)
(* that event.                                                              *)
THEOREM AckedIsCurrent == Spec => []AckMeansCurrent
  <1>1. IInv => AckMeansCurrent
    <2> SUFFICES ASSUME IInv, NEW o \in Objs, lastAck[process][o] > last_event_time[o]
                 PROVE  UpToDate(o) \/ Excused(o)
      BY DEF AckMeansCurrent
    <2>1. /\ lastAck[process][o] \in Nat \cup {-1} /\ last_event_time[o] \in Nat
          /\ view[o].time \in Nat \cup {-1}
      BY DEF IInv, TypeOK
    <2>2. Holds(o, lastAck[process][o])
      BY <2>1 DEF IInv, Heard, LastAckSeen
    <2>3. CASE o \in told
      BY <2>3 DEF IInv, Fresh, ToldIsGone, KnownIsGhost, Gone, UpToDate, Excused
    <2>4. CASE o \notin told
      BY <2>1, <2>2, <2>4 DEF IInv, Fresh, HitIsGone, ViewFresh, Shows, Holds, Gone, UpToDate, Excused
    <2> QED BY <2>3, <2>4
  <1> QED BY InitIInv, NextIInv, <1>1, PTL DEF Spec

(* Without requests, whatever init_client would not send to the running     *)
(* process is there already, or was created again from a late packet; no    *)
(* answer is ever torn.                                                     *)
THEOREM SkippedIsThere == Spec => []SkippedIsCurrent
  <1>1. IInv => SkippedIsCurrent
    <2>0. IInv /\ ~Requests => torn = {}
      BY DEF IInv, Fresh, NoAnswer
    <2> SUFFICES ASSUME IInv, ~Requests, NEW o \in Objs, Covered(process, o)
                 PROVE  UpToDate(o) \/ Excused(o)
      BY <2>0 DEF SkippedIsCurrent
    <2>1. /\ lastAck[process][o] \in Nat \cup {-1} /\ last_event_time[o] \in Nat
          /\ view[o].time \in Nat \cup {-1} /\ lastAck[process][o] >= last_event_time[o]
      BY DEF IInv, TypeOK, Covered
    <2>2. Holds(o, lastAck[process][o])
      BY <2>1 DEF IInv, Heard, LastAckSeen
    <2>3. CASE o \in told
      BY <2>3 DEF IInv, Fresh, ToldIsGone, KnownIsGhost, Gone, UpToDate, Excused
    <2>4. CASE o \notin told
      BY <2>1, <2>2, <2>4 DEF IInv, Fresh, HitIsGone, ViewFresh, Shows, Holds, Gone, UpToDate, Excused
    <2> QED BY <2>3, <2>4
  <1> QED BY InitIInv, NextIInv, <1>1, PTL DEF Spec
=============================================================================
