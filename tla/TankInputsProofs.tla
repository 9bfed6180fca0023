--------------------------- MODULE TankInputsProofs ---------------------------
(***************************************************************************)
(* Proofs about TankInputs, for any client ids, action types, triggers,    *)
(* windows and costs: the tank is in step with its room (InStep), what its *)
(* player was told comes true (AckedRuns), the rate of fire is bounded     *)
(* (FireRate), and an action is accepted once (AtMostOnce).                *)
(*                                                                         *)
(* An answer repeats the step that cinps holds, so AckedRuns rests on      *)
(* Remember: what cinps holds comes true as well; and it rests on InStep,  *)
(* for the trigger of a new action is counted from the room's step.        *)
(* FireRate rests on Budget, which counts the ammunition that is left, and *)
(* AtMostOnce on Recalled: cinps forgets only what is behind the window.   *)
(***************************************************************************)
EXTENDS TankInputs, FiniteSetTheorems, TLAPS

USE TankAssumption DEF TankAssumption, NoInput

(* The action c of step n has run, or is waiting for its step.              *)
Waits(c, n) ==
  /\ \E i \in inps : i.client_id = c /\ i.trigger_step = n
  /\ tank = "live" => n >= my_step

Comes(c, n) == <<c, n>> \in ran \/ Waits(c, n)

Remember == \A c \in ClientIds : cinps[c] # NoInput => Comes(c, cinps[c])
Told     == \A a \in acks : Comes(a[1], a[2])

(* No message is handled for a player without a tank.                       *)
NoTankNoTalk ==
  tank \in {"none", "new"} =>
    /\ pc.io = (IF tank = "new" THEN "join" ELSE "idle")
    /\ acks = {} /\ spent = 0
    /\ \A c \in ClientIds : cinps[c] = NoInput

Handling == pc.io \in {"lock", "update"} => packet \in Packet

(* The steps a tank missed are those of its adding.                         *)
NotLateYet == tank = "none" => late = 0

(* A tank is being added while io says so.                                  *)
Added == pc.io = "join" => tank = "new"

Budget == spent + remain_shot <= MaxRemain + (my_step - born)

IInv == TypeOK /\ IsFiniteSet(inps) /\ Handling /\ NoTankNoTalk /\ NotLateYet /\ Added /\ InStep
          /\ Remember /\ Told /\ Budget

LEMMA InitIInv == Init => IInv
  BY FS_EmptySet DEF Init, IInv, TypeOK, Handling, NoTankNoTalk, NotLateYet, Added, InStep, Remember, Told, Budget

(* A tank never fires on credit.                                            *)
LEMMA AfterShotsRange ==
  ASSUME NEW r \in Nat, NEW n \in Nat
  PROVE  AfterShots(r, n) \in 0 .. r
  <1>1. CASE n * ShotCost <= r
    BY <1>1 DEF AfterShots
  <1>2. CASE ~(n * ShotCost <= r)
    <2>1. r \div ShotCost \in Nat /\ (r \div ShotCost) * ShotCost \in 0 .. r
      OBVIOUS
    <2> QED BY <1>2, <2>1 DEF AfterShots
  <1> QED BY <1>1, <1>2

LEMMA ShotsType ==
  ASSUME IsFiniteSet(inps)
  PROVE  /\ IsFiniteSet(Live \ Due)
         /\ Cardinality({i \in Due : i.type = Shot}) \in Nat
  <1>1. (Live \ Due) \subseteq inps /\ {i \in Due : i.type = Shot} \subseteq inps
    BY DEF Live, Due
  <1> QED BY <1>1, FS_Subset, FS_CardinalityType

LEMMA TriggerType ==
  ASSUME TypeOK, NEW p \in Packet
  PROVE  Trigger(p) \in Nat /\ Trigger(p) >= total_time + 2
  <1>1. p.trigger_step \in Nat /\ total_time \in Nat
    BY DEF Packet, TypeOK
  <1> QED BY <1>1 DEF Trigger

-----------------------------------------------------------------------------
(* The actions that leave the tank, its inputs and the answers alone.       *)
idleVars == <<tankVars, accepted, acks>>

LEMMA Quiet ==
  ASSUME IInv, UNCHANGED <<idleVars, total_time>>, TypeOK', Handling',
         pc'.io = pc.io \/ (tank \notin {"none", "new"} /\ pc'.io # "join")
  PROVE  IInv'
  BY DEF IInv, idleVars, tankVars, NoTankNoTalk, NotLateYet, Added, InStep, Remember, Told, Comes, Waits, Budget

LEMMA NextQuiet ==
  ASSUME IInv,
         ClientSend \/ Tick \/ Receive \/ IoLock \/ RoomsLock \/ RoomsUnlock \/ EraseRoom
         \/ UNCHANGED vars
  PROVE  IInv'
  <1> USE DEF TypeOK, Handling, roomVars, msgVars, tankVars
  <1>1. UNCHANGED <<idleVars, total_time>>
    BY DEF ClientSend, Tick, Receive, IoLock, RoomsLock, RoomsUnlock, EraseRoom, EnterUpdate,
           idleVars, vars
  <1>2. TypeOK
    BY DEF IInv
  <1>3. CASE ClientSend
    BY <1>1, <1>2, <1>3, Quiet DEF ClientSend, IInv, idleVars
  <1>4. CASE Tick
    BY <1>1, <1>2, <1>4, Quiet DEF Tick, IInv, idleVars
  <1>5. CASE Receive
    BY <1>1, <1>2, <1>5, Quiet DEF Receive, IInv, NoTankNoTalk, idleVars
  <1>6. CASE IoLock
    BY <1>1, <1>2, <1>6, Quiet DEF IoLock, EnterUpdate, IInv, NoTankNoTalk, idleVars
  <1>7. CASE RoomsLock
    BY <1>1, <1>2, <1>7, Quiet DEF RoomsLock, EnterUpdate, IInv, NoTankNoTalk, idleVars
  <1>8. CASE RoomsUnlock
    BY <1>1, <1>2, <1>8, Quiet DEF RoomsUnlock, IInv, NoTankNoTalk, idleVars
  <1>9. CASE EraseRoom
    BY <1>1, <1>2, <1>9, Quiet DEF EraseRoom, IInv, NoTankNoTalk, idleVars
  <1>10. CASE UNCHANGED vars
    BY <1>1, <1>2, <1>10, Quiet DEF vars, IInv, NoTankNoTalk, idleVars
  <1> QED BY <1>3, <1>4, <1>5, <1>6, <1>7, <1>8, <1>9, <1>10

-----------------------------------------------------------------------------
(* A step of the simulation runs what is due and keeps what is ahead.       *)
LEMMA StepRuns ==
  ASSUME TypeOK, InStep, tank = "live", UpdateTank, total_time' = total_time + 1,
         NEW c, NEW n \in Nat, Comes(c, n)
  PROVE  Comes(c, n)'
  <1>1. my_step \in Nat /\ late \in Nat /\ my_step' = my_step + 1
    BY DEF TypeOK, InStep, UpdateTank
  <1>2. CASE <<c, n>> \in ran
    BY <1>2 DEF UpdateTank, Comes
  <1>3. ASSUME NEW i \in inps, i.client_id = c, i.trigger_step = n, n >= my_step
        PROVE  Comes(c, n)'
    <2>1. i \in Live
      BY <1>3 DEF Live
    <2>2. CASE n = my_step
      <3>1. i \in Due
        BY <1>3, <2>1, <2>2 DEF Due
      <3> QED BY <1>3, <2>2, <3>1 DEF UpdateTank, Comes
    <2>3. CASE n > my_step
      <3>1. i \in Live \ Due
        BY <1>3, <2>1, <2>3, <1>1 DEF Due
      <3> QED BY <1>1, <1>3, <2>3, <3>1 DEF UpdateTank, Comes, Waits
    <2> QED BY <1>1, <1>3, <2>2, <2>3
  <1> QED BY <1>2, <1>3 DEF Comes, Waits

LEMMA NextStep ==
  ASSUME IInv, NEW t, Step(t)
  PROVE  IInv'
  <1>1. /\ TypeOK /\ IsFiniteSet(inps) /\ Handling /\ NoTankNoTalk /\ NotLateYet /\ Added
        /\ InStep /\ Remember /\ Told /\ Budget
    BY DEF IInv
  <1>2. /\ total_time' = total_time + 1 /\ total_time \in Nat
        /\ UNCHANGED <<wall, last_action, roomVars, msgVars, accepted, acks>>
    BY <1>1 DEF Step, TypeOK
  <1>3. CASE tank = "live" /\ healt < 0 /\ Die
    BY <1>1, <1>2, <1>3
       DEF Die, IInv, TypeOK, Handling, NoTankNoTalk, NotLateYet, Added, InStep, Remember, Told, Comes, Waits, Budget,
           roomVars, msgVars
  <1>4. CASE tank \in {"none", "dead"} /\ UNCHANGED tankVars
    BY <1>1, <1>2, <1>4
       DEF IInv, TypeOK, Handling, NoTankNoTalk, NotLateYet, Added, InStep, Remember, Told, Comes, Waits,
           Budget, roomVars, msgVars, tankVars
  <1>6. CASE tank = "new" /\ Miss
    BY <1>1, <1>2, <1>6
       DEF Miss, IInv, TypeOK, Handling, NoTankNoTalk, NotLateYet, Added, InStep, Remember, Told, Comes,
           Waits, Budget, roomVars, msgVars
  <1>5. CASE tank = "live" /\ healt >= 0 /\ UpdateTank
    <2> DEFINE shots == Cardinality({i \in Due : i.type = Shot})
               left  == AfterShots(remain_shot, shots)
    <2>1. my_step \in Nat /\ late \in Nat /\ my_step + late = total_time
      BY <1>1, <1>5 DEF TypeOK, InStep
    <2>2. shots \in Nat /\ IsFiniteSet(Live \ Due)
      BY <1>1, ShotsType
    <2>3. remain_shot \in Nat /\ remain_shot <= MaxRemain /\ spent \in Nat /\ born \in Nat
      BY <1>1 DEF TypeOK
    <2>4. left \in 0 .. remain_shot
      BY <2>2, <2>3, AfterShotsRange
    <2> HIDE DEF shots, left
    <2>5. /\ inps' = Live \ Due
          /\ ran' = ran \cup {<<i.client_id, my_step>> : i \in Due}
          /\ cinps' = [c \in ClientIds |-> IF Remembered(c) THEN cinps[c] ELSE NoInput]
          /\ spent' = spent + (remain_shot - left)
          /\ remain_shot' = Recharge(left)
          /\ my_step' = my_step + 1
          /\ tank' = tank /\ born' = born /\ late' = late
          /\ \E hit \in {0, Damage} : healt' = healt - hit
      BY <1>2, <1>5, <2>1 DEF UpdateTank, shots, left
    <2>6. remain_shot' \in 0 .. MaxRemain /\ remain_shot' <= left + 1
      BY <2>3, <2>4, <2>5 DEF Recharge
    <2>7. Budget'
      BY <1>1, <2>1, <2>3, <2>4, <2>5, <2>6 DEF Budget
    <2>8. InStep' /\ NoTankNoTalk' /\ NotLateYet' /\ Added' /\ Handling'
      BY <1>1, <1>2, <1>5, <2>1, <2>5 DEF InStep, NoTankNoTalk, NotLateYet, Added, Handling, roomVars, msgVars
    <2>9. Remember'
      <3> SUFFICES ASSUME NEW c \in ClientIds, cinps'[c] # NoInput PROVE Comes(c, cinps[c])' 
        BY DEF Remember
      <3>1. cinps'[c] = cinps[c] /\ cinps[c] \in Nat
        BY <1>1, <2>5 DEF TypeOK
      <3>2. Comes(c, cinps[c])
        BY <1>1, <3>1 DEF Remember
      <3>3. ASSUME NEW n \in Nat, Comes(c, n) PROVE Comes(c, n)'
        BY <1>1, <1>2, <1>5, <3>3, StepRuns
      <3> QED BY <3>1, <3>2, <3>3 DEF Comes, Waits
    <2>10. Told'
      <3> SUFFICES ASSUME NEW a \in acks PROVE Comes(a[1], a[2])'
        BY <1>2 DEF Told
      <3> QED BY <1>1, <1>2, <1>5, StepRuns DEF Told, TypeOK
    <2>11. TypeOK'
      <3>1. \A i \in inps' : i.client_id \in ClientIds /\ i.type \in Types /\ i.trigger_step \in Nat
        BY <1>1, <2>5 DEF TypeOK, Live
      <3>2. ran' \subseteq ClientIds \X Nat
        BY <1>1, <2>1, <2>5 DEF TypeOK, Live, Due
      <3>3. cinps' \in [ClientIds -> Nat \cup {NoInput}]
        BY <1>1, <2>5 DEF TypeOK
      <3>4. spent' \in Nat /\ healt' \in Int /\ my_step' \in Nat /\ born' \in Nat
        BY <1>1, <2>1, <2>3, <2>4, <2>5 DEF TypeOK
      <3> QED BY <1>1, <1>2, <2>5, <2>6, <3>1, <3>2, <3>3, <3>4 DEF TypeOK, roomVars, msgVars
    <2> QED BY <2>2, <2>5, <2>7, <2>8, <2>9, <2>10, <2>11 DEF IInv
  <1> QED BY <1>3, <1>4, <1>5, <1>6 DEF Step

-----------------------------------------------------------------------------
LEMMA NextJoin ==
  ASSUME IInv, Join
  PROVE  IInv'
  <1>1. TypeOK /\ NoTankNoTalk /\ NotLateYet /\ InStep /\ Budget
    BY DEF IInv
  <1>2. TypeOK'
    BY <1>1 DEF Join, TypeOK, msgVars
  <1>3. Budget' /\ InStep' /\ NoTankNoTalk' /\ NotLateYet' /\ Added' /\ Handling'
    BY <1>1 DEF Join, TypeOK, Budget, InStep, NoTankNoTalk, NotLateYet, Added, IInv, Handling, msgVars
  <1>4. Remember' /\ Told'
    BY <1>1 DEF Join, NoTankNoTalk, Remember, Told
  <1> QED BY <1>2, <1>3, <1>4 DEF Join, IInv

(* The new tank goes on from the step it was made in.                       *)
LEMMA NextInitTank ==
  ASSUME IInv, init_tank
  PROVE  IInv'
  <1>1. TypeOK /\ NoTankNoTalk /\ NotLateYet /\ Added /\ InStep /\ Budget /\ tank = "new"
    BY DEF IInv, Added, init_tank
  <1>2. TypeOK'
    BY <1>1 DEF init_tank, TypeOK, msgVars
  <1>3. Budget' /\ InStep' /\ NoTankNoTalk' /\ NotLateYet' /\ Added' /\ Handling'
    BY <1>1 DEF init_tank, TypeOK, Budget, InStep, NoTankNoTalk, NotLateYet, Added, Handling, msgVars
  <1>4. Remember' /\ Told'
    BY <1>1 DEF init_tank, NoTankNoTalk, Remember, Told
  <1> QED BY <1>2, <1>3, <1>4 DEF init_tank, IInv

LEMMA NextAnswerAgain ==
  ASSUME IInv, AnswerAgain
  PROVE  IInv'
  <1>1. TypeOK /\ Handling /\ NoTankNoTalk /\ Remember /\ Told
    BY DEF IInv
  <1>2. packet.client_id \in ClientIds /\ tank \notin {"none", "new"}
    BY <1>1 DEF AnswerAgain, Handling, NoTankNoTalk, Packet
  <1>3. TypeOK'
    BY <1>1, <1>2 DEF AnswerAgain, TypeOK, tankVars
  <1>4. Told'
    <2> DEFINE new == <<packet.client_id, cinps[packet.client_id]>>
    <2>1. Comes(new[1], new[2])
      BY <1>1, <1>2 DEF AnswerAgain, Remember
    <2>2. \A c, n : Comes(c, n)' <=> Comes(c, n)
      BY DEF AnswerAgain, Comes, Waits, tankVars
    <2>3. acks' = acks \cup {new}
      BY DEF AnswerAgain
    <2> HIDE DEF new
    <2> QED BY <1>1, <2>1, <2>2, <2>3 DEF Told
  <1> QED BY <1>1, <1>2, <1>3, <1>4
          DEF AnswerAgain, IInv, Handling, NoTankNoTalk, NotLateYet, Added, InStep, Remember, Comes, Waits, Budget,
              tankVars

(* A new action is ahead of the tank, and what was told before stays true.  *)
LEMMA NextAccept ==
  ASSUME IInv, Accept
  PROVE  IInv'
  <1> DEFINE n   == Trigger(packet)
             new == [client_id |-> packet.client_id, type |-> packet.type, trigger_step |-> n]
  <1>1. TypeOK /\ IsFiniteSet(inps) /\ Handling /\ NoTankNoTalk /\ NotLateYet /\ Added /\ InStep /\ Remember /\ Told /\ Budget
    BY DEF IInv
  <1>2. packet \in Packet /\ tank \notin {"none", "new"}
    BY <1>1 DEF Accept, Handling, NoTankNoTalk
  <1>3. packet.client_id \in ClientIds /\ packet.type \in Types
    BY <1>2 DEF Packet
  <1>4. n \in Nat /\ n >= total_time + 2 /\ total_time \in Nat
    BY <1>1, <1>2, TriggerType DEF TypeOK
  <1>5. /\ inps' = inps \cup {new}
        /\ cinps' = [cinps EXCEPT ![packet.client_id] = n]
        /\ accepted' = accepted \cup {<<packet.client_id, n>>}
        /\ acks' = acks \cup {<<packet.client_id, n>>}
        /\ UNCHANGED <<wall, total_time, last_action, room, tank, my_step, healt, remain_shot, ran,
                       spent, born, late, net>>
        /\ packet' = NoPacket /\ mutex' = "free" /\ stepping' = "no"
        /\ pc' = [pc EXCEPT !.io = "idle"]
    BY DEF Accept
  <1>6. new.client_id = packet.client_id /\ new.type = packet.type /\ new.trigger_step = n
    OBVIOUS
  <1> HIDE DEF n, new
  <1>7. ASSUME NEW c, NEW k, c = packet.client_id, k = n PROVE Comes(c, k)'
    BY <1>1, <1>4, <1>5, <1>6, <1>7 DEF Comes, Waits, InStep, TypeOK
  <1>8. \A c, k : Comes(c, k) => Comes(c, k)'
    BY <1>5 DEF Comes, Waits
  <1>9. TypeOK'
    BY <1>1, <1>3, <1>4, <1>5, <1>6 DEF TypeOK
  <1>10. IsFiniteSet(inps')
    BY <1>1, <1>5, FS_AddElement
  <1>11. Handling' /\ NoTankNoTalk' /\ NotLateYet' /\ Added' /\ InStep' /\ Budget'
    BY <1>1, <1>2, <1>5 DEF TypeOK, Handling, NoTankNoTalk, NotLateYet, Added, InStep, Budget
  <1>12. Remember'
    <2> SUFFICES ASSUME NEW c \in ClientIds, NEW k, k = cinps'[c], k # NoInput
                 PROVE  Comes(c, k)'
      BY DEF Remember, Comes, Waits
    <2>1. CASE c = packet.client_id
      BY <1>1, <1>3, <1>5, <1>7, <2>1 DEF TypeOK
    <2>2. CASE c # packet.client_id
      BY <1>1, <1>3, <1>5, <1>8, <2>2 DEF Remember, TypeOK
    <2> QED BY <2>1, <2>2
  <1>13. Told'
    <2> SUFFICES ASSUME NEW a, a \in acks' PROVE Comes(a[1], a[2])'
      BY DEF Told
    <2>1. CASE a \in acks
      BY <1>1, <1>8, <2>1 DEF Told
    <2>2. CASE a = <<packet.client_id, n>>
      <3>1. a[1] = packet.client_id /\ a[2] = n
        BY <2>2
      <3> QED BY <1>7, <3>1
    <2> QED BY <1>5, <2>1, <2>2
  <1> QED BY <1>9, <1>10, <1>11, <1>12, <1>13 DEF IInv

-----------------------------------------------------------------------------
LEMMA NextIInv == IInv /\ [Next]_vars => IInv'
  <1> SUFFICES ASSUME IInv, [Next]_vars PROVE IInv'
    OBVIOUS
  <1>1. CASE Join \/ init_tank
    BY <1>1, NextJoin, NextInitTank
  <1>2. CASE Accept
    BY <1>2, NextAccept
  <1>3. CASE AnswerAgain
    BY <1>3, NextAnswerAgain
  <1>4. CASE Step("io") \/ Step("rooms")
    BY <1>4, NextStep
  <1>5. CASE ClientSend \/ Tick \/ Receive \/ IoLock \/ RoomsLock \/ RoomsUnlock \/ EraseRoom
             \/ UNCHANGED vars
    BY <1>5, NextQuiet
  <1> QED BY <1>1, <1>2, <1>3, <1>4, <1>5 DEF Next, GetMsg, Rooms

(* Every variable keeps its type; the ammunition stays within its bounds.   *)
THEOREM TypeCorrect == Spec => []TypeOK
  <1>1. IInv => TypeOK
    BY DEF IInv
  <1> QED BY InitIInv, NextIInv, <1>1, PTL DEF Spec

(* The io thread and the rooms thread, which both step the game, keep the   *)
(* tank at the step of its room, or behind it by what it missed before it   *)
(* was in tanks.                                                            *)
THEOREM TankInStep == Spec => []InStep
  <1>1. IInv => InStep
    BY DEF IInv
  <1> QED BY InitIInv, NextIInv, <1>1, PTL DEF Spec

(* Whatever get_msg told a player has run at that step or waits for it,     *)
(* and the step of a live tank's action is never missed.                    *)
THEOREM AckedActionsRun == Spec => []AckedRuns
  <1>1. IInv => AckedRuns
    <2> SUFFICES ASSUME IInv, NEW a \in acks
                 PROVE  \/ a \in ran
                        \/ /\ \E i \in inps : <<i.client_id, i.trigger_step>> = a
                           /\ tank = "live" => a[2] >= my_step
      BY DEF AckedRuns
    <2>1. a \in ClientIds \X Nat /\ Comes(a[1], a[2])
      BY DEF IInv, TypeOK, Told
    <2>2. a = <<a[1], a[2]>>
      BY <2>1
    <2> QED BY <2>1, <2>2 DEF Comes, Waits
  <1> QED BY InitIInv, NextIInv, <1>1, PTL DEF Spec

(* A tank fires no more than the ammunition it was born with and regained.  *)
THEOREM FireRateBounded == Spec => []FireRate
  <1>1. IInv => FireRate
    BY DEF IInv, TypeOK, Budget, FireRate
  <1> QED BY InitIInv, NextIInv, <1>1, PTL DEF Spec

-----------------------------------------------------------------------------
(* AtMostOnce.  A client id that was accepted is in cinps with its step, or *)
(* that step lies so far behind the tank that the next one is Apart.        *)
Recalled == \A a \in accepted : cinps[a[1]] = a[2] \/ a[2] + Window + 2 <= my_step

NotAhead == my_step <= total_time /\ (tank \in {"none", "new"} => accepted = {})

Once == AtMostOnce /\ Recalled /\ NotAhead

LEMMA InitOnce == Init => Once
  BY DEF Init, Once, AtMostOnce, Recalled, NotAhead

LEMMA RecentKept ==
  ASSUME NEW c \in ClientIds, cinps[c] \in Nat, cinps[c] >= my_step - Window
  PROVE  Remembered(c)
  <1>1. c \in Nat
    OBVIOUS
  <1>2. c <= c
    BY <1>1
  <1>3. cinps[c] # NoInput
    OBVIOUS
  <1> QED BY <1>2, <1>3 DEF Remembered

(* What a step of the tank prunes is older than the window.                 *)
LEMMA StepOnce ==
  ASSUME IInv, Once, NEW t, Step(t)
  PROVE  Once'
  <1>1. TypeOK /\ InStep /\ AtMostOnce /\ Recalled /\ NotAhead
    BY DEF IInv, Once
  <1>2. /\ total_time' = total_time + 1 /\ total_time \in Nat /\ my_step \in Nat
        /\ accepted' = accepted /\ accepted \subseteq ClientIds \X Nat
    BY <1>1 DEF Step, TypeOK
  <1>3. AtMostOnce'
    BY <1>1, <1>2 DEF AtMostOnce
  <1>4. CASE tank = "live" /\ healt >= 0 /\ UpdateTank
    <2>1. my_step' = my_step + 1 /\ tank' = tank
      BY <1>1, <1>2, <1>4 DEF UpdateTank, NotAhead
    <2>2. Recalled'
      <3> SUFFICES ASSUME NEW a \in accepted, ~(a[2] + Window + 2 <= my_step + 1)
                   PROVE  cinps'[a[1]] = a[2]
        BY <1>2, <2>1 DEF Recalled
      <3>1. a[1] \in ClientIds /\ a[2] \in Nat
        BY <1>2
      <3>2. cinps[a[1]] = a[2]
        BY <1>1, <1>2, <3>1 DEF Recalled
      <3>3. Remembered(a[1])
        <4>1. cinps[a[1]] \in Nat /\ cinps[a[1]] >= my_step - Window
          BY <1>2, <3>1, <3>2
        <4> QED BY <3>1, <4>1, RecentKept
      <3> QED BY <1>4, <3>1, <3>2, <3>3 DEF UpdateTank
    <2> QED BY <1>1, <1>2, <1>3, <2>1, <2>2 DEF Once, NotAhead
  <1>5. CASE UNCHANGED <<cinps, my_step>> /\ (tank' \in {"none", "new"} => tank \in {"none", "new"})
    BY <1>1, <1>2, <1>3, <1>5 DEF Once, Recalled, NotAhead
  <1> QED BY <1>4, <1>5 DEF Step, Die, Miss, tankVars

(* A client id that is accepted again was forgotten.                        *)
LEMMA AcceptOnce ==
  ASSUME IInv, Once, Accept
  PROVE  Once'
  <1> DEFINE c == packet.client_id
             n == Trigger(packet)
  <1>1. /\ TypeOK /\ Handling /\ NoTankNoTalk
        /\ AtMostOnce /\ Recalled /\ NotAhead
    BY DEF IInv, Once
  <1>2. packet \in Packet /\ tank \notin {"none", "new"}
    BY <1>1 DEF Accept, Handling, NoTankNoTalk
  <1>3. n \in Nat /\ n >= total_time + 2 /\ c \in ClientIds
    BY <1>1, <1>2, TriggerType DEF Packet
  <1>4. /\ total_time \in Nat /\ my_step \in Nat
        /\ accepted \subseteq ClientIds \X Nat /\ cinps \in [ClientIds -> Nat \cup {NoInput}]
    BY <1>1 DEF TypeOK
  <1>5. /\ cinps[c] = NoInput
        /\ cinps' = [cinps EXCEPT ![c] = n]
        /\ accepted' = accepted \cup {<<c, n>>}
        /\ UNCHANGED <<total_time, my_step, tank>>
    BY DEF Accept
  <1> HIDE DEF c, n
  <1>6. \A a \in accepted : a[1] = c => a[2] + Window + 2 <= my_step
    BY <1>1, <1>4, <1>5 DEF Recalled
  <1>7. \A a \in accepted : a[1] = c => Apart(a[2], n)
    BY <1>1, <1>3, <1>4, <1>6 DEF Apart, NotAhead
  <1>8. AtMostOnce'
    <2> SUFFICES ASSUME NEW a \in accepted', NEW b \in accepted', a[1] = b[1], a # b
                 PROVE  Apart(a[2], b[2])
      BY DEF AtMostOnce, Apart
    <2>1. CASE a \in accepted /\ b \in accepted
      BY <1>1, <2>1 DEF AtMostOnce
    <2>2. CASE a \in accepted /\ b = <<c, n>>
      <3>1. a[1] = c /\ b[2] = n
        BY <2>2
      <3> QED BY <1>7, <2>2, <3>1
    <2>3. CASE b \in accepted /\ a = <<c, n>>
      <3>1. b[1] = c /\ a[2] = n
        BY <2>3
      <3> QED BY <1>7, <2>3, <3>1 DEF Apart
    <2> QED BY <1>5, <2>1, <2>2, <2>3
  <1>9. Recalled'
    <2> SUFFICES ASSUME NEW a \in accepted' PROVE cinps'[a[1]] = a[2] \/ a[2] + Window + 2 <= my_step
      BY <1>5 DEF Recalled
    <2>1. CASE a = <<c, n>>
      <3>1. a[1] = c /\ a[2] = n
        BY <2>1
      <3> QED BY <1>3, <1>4, <1>5, <3>1
    <2>2. CASE a \in accepted /\ a[1] # c
      BY <1>1, <1>3, <1>4, <1>5, <2>2 DEF Recalled
    <2>3. CASE a \in accepted /\ a[1] = c
      BY <1>6, <2>3
    <2> QED BY <1>5, <2>1, <2>2, <2>3
  <1> QED BY <1>1, <1>2, <1>5, <1>8, <1>9 DEF Once, NotAhead

LEMMA NextOnce == IInv /\ Once /\ [Next]_vars => Once'
  <1> SUFFICES ASSUME IInv, Once, [Next]_vars PROVE Once'
    OBVIOUS
  <1>1. CASE Accept
    BY <1>1, AcceptOnce
  <1>2. CASE Step("io") \/ Step("rooms")
    BY <1>2, StepOnce
  <1>3. CASE Join \/ init_tank
    <2>1. total_time \in Nat /\ (init_tank => tank = "new")
      BY DEF IInv, TypeOK, Added, init_tank
    <2> QED BY <1>3, <2>1 DEF Join, init_tank, Once, AtMostOnce, Recalled, NotAhead
  <1>4. CASE \/ ClientSend \/ Tick \/ Receive \/ IoLock \/ AnswerAgain
             \/ RoomsLock \/ RoomsUnlock \/ EraseRoom \/ UNCHANGED vars
    <2>1. UNCHANGED <<total_time, my_step, tank, cinps, accepted>>
      BY <1>4 DEF ClientSend, Tick, Receive, IoLock, AnswerAgain, RoomsLock, RoomsUnlock, EraseRoom,
                  EnterUpdate, tankVars, vars
    <2> QED BY <2>1 DEF Once, AtMostOnce, Recalled, NotAhead
  <1> QED BY <1>1, <1>2, <1>3, <1>4 DEF Next, GetMsg, Rooms

(* However often and late a packet arrives, its action is accepted once as  *)
(* long as cinps remembers it, and cinps does for Window steps, although it *)
(* is pruned in the order of the client ids (get_msg, update_inputs).       *)
THEOREM AcceptedOnce == Spec => []AtMostOnce
  <1>1. Once => AtMostOnce
    BY DEF Once
  <1> QED BY InitIInv, NextIInv, InitOnce, NextOnce, <1>1, PTL DEF Spec
=============================================================================
