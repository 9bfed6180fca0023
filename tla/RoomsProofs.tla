---------------------------- MODULE RoomsProofs -----------------------------
(***************************************************************************)
(* Rooms for any number of players, leagues, rooms and messages: its       *)
(* types, that a league has one live room at a time, and that the ids of   *)
(* rooms are not used again.                                               *)
(***************************************************************************)
EXTENDS Rooms, TLAPS

USE RoomsAssumption DEF RoomsAssumption, RoomIds, Live

(* What a league's list may hold.  Only its last room can be live, for a    *)
(* room is created when none is; ids from game_count on are still unused,   *)
(* although a message may have put an empty entry there.                    *)
OnlyLastLive ==
  /\ \A r \in RoomIds : Live(r) => r < game_count
  /\ \A l \in Ligs : \A i \in DOMAIN rooms_lig[l] :
       /\ rooms_lig[l][i] < game_count
       /\ Live(rooms_lig[l][i]) => i = Len(rooms_lig[l])

IInv == TypeOK /\ OnlyLastLive

LEMMA AppendOne ==
  ASSUME NEW S, NEW q \in Seq(S), NEW e \in S
  PROVE  /\ Append(q, e) \in Seq(S)
         /\ Len(q) \in Nat /\ DOMAIN q = 1 .. Len(q)
         /\ Len(Append(q, e)) = Len(q) + 1
         /\ DOMAIN Append(q, e) = 1 .. (Len(q) + 1)
         /\ \A i \in 1 .. Len(q) : Append(q, e)[i] = q[i]
         /\ Append(q, e)[Len(q) + 1] = e
  OBVIOUS

LEMMA InitIInv == Init => IInv
<1> SUFFICES ASSUME Init PROVE IInv
  OBVIOUS
<1>1. \A l \in Ligs : rooms_lig[l] = <<>> /\ DOMAIN rooms_lig[l] = {}
  BY DEF Init
<1>2. <<>> \in Seq(RoomIds)
  OBVIOUS
<1>3. TypeOK
  BY <1>2 DEF Init, TypeOK
<1>4. OnlyLastLive
  BY <1>1 DEF Init, OnlyLastLive
<1> QED BY <1>3, <1>4 DEF IInv

(* A step that leaves the lists of the leagues alone and makes no room live *)
(* keeps OnlyLastLive.                                                      *)
LEMMA OnlyLastKept ==
  ASSUME TypeOK, OnlyLastLive, UNCHANGED <<rooms_lig, game_count>>,
         \A r \in RoomIds : rooms'[r] = "live" => rooms[r] = "live"
  PROVE  OnlyLastLive'
<1>1. \A l \in Ligs : \A i \in DOMAIN rooms_lig[l] : rooms_lig[l][i] \in RoomIds
  BY DEF TypeOK
<1> QED BY <1>1 DEF OnlyLastLive

LEMMA MatchFindIInv ==
  ASSUME IInv, NEW u \in Users, NEW l \in Ligs, MatchFind(u, l)
  PROVE  IInv'
<1>1. /\ op' = "match" /\ who' = u /\ msgs' = msgs + 1 /\ msgs < MaxMsgs
      /\ UNCHANGED <<idle, users, gameVars, told, process>>
  BY DEF MatchFind
<1>2. /\ rooms \in [RoomIds -> {"none", "null", "live"}] /\ rooms_lig \in [Ligs -> Seq(RoomIds)]
      /\ game_count \in 0 .. MaxGames
  BY DEF IInv, TypeOK
<1>3. CASE \E i \in LiveOf(l) : at' = rooms_lig[l][i] /\ UNCHANGED <<rooms, rooms_lig, game_count>>
  <2>1. at' \in RoomIds
    BY <1>2, <1>3 DEF LiveOf
  <2>2. TypeOK'
    <3>1. UNCHANGED <<rooms, rooms_lig, game_count>>
      BY <1>3
    <3> QED BY <1>1, <2>1, <3>1 DEF IInv, TypeOK, gameVars
  <2>3. OnlyLastLive'
    BY <1>3 DEF IInv, OnlyLastLive
  <2> QED BY <2>2, <2>3 DEF IInv
<1>4. CASE LiveOf(l) = {} /\ create_room(l)
  <2>1. /\ game_count < MaxGames /\ game_count \in RoomIds
        /\ at' = game_count /\ game_count' = game_count + 1
        /\ rooms' = [rooms EXCEPT ![game_count] = "live"]
        /\ rooms_lig' = [rooms_lig EXCEPT ![l] = Append(@, game_count)]
    BY <1>2, <1>4 DEF create_room
  <2>2. /\ Append(rooms_lig[l], game_count) \in Seq(RoomIds)
        /\ Len(rooms_lig[l]) \in Nat /\ DOMAIN rooms_lig[l] = 1 .. Len(rooms_lig[l])
        /\ Len(Append(rooms_lig[l], game_count)) = Len(rooms_lig[l]) + 1
        /\ DOMAIN Append(rooms_lig[l], game_count) = 1 .. (Len(rooms_lig[l]) + 1)
        /\ \A i \in 1 .. Len(rooms_lig[l]) : Append(rooms_lig[l], game_count)[i] = rooms_lig[l][i]
        /\ Append(rooms_lig[l], game_count)[Len(rooms_lig[l]) + 1] = game_count
    <3>1. rooms_lig[l] \in Seq(RoomIds)
      BY <1>2
    <3> QED BY <2>1, <3>1, AppendOne
  <2>3. TypeOK'
    BY <1>1, <1>2, <2>1, <2>2 DEF IInv, TypeOK, gameVars
  <2>4. ASSUME NEW k \in Ligs, NEW i \in DOMAIN rooms_lig'[k]
        PROVE  /\ rooms_lig'[k][i] < game_count'
               /\ rooms'[rooms_lig'[k][i]] = "live" => i = Len(rooms_lig'[k])
    <3>1. CASE k # l
      <4>1. rooms_lig'[k] = rooms_lig[k] /\ rooms_lig[k][i] \in RoomIds
        BY <1>2, <2>1, <2>4, <3>1
      <4>2. rooms_lig[k][i] < game_count
        BY <2>4, <4>1 DEF IInv, OnlyLastLive
      <4>3. rooms'[rooms_lig[k][i]] = rooms[rooms_lig[k][i]]
        BY <1>2, <2>1, <4>1, <4>2
      <4>4. rooms[rooms_lig[k][i]] = "live" => i = Len(rooms_lig[k])
        BY <2>4, <4>1 DEF IInv, OnlyLastLive
      <4> QED BY <1>2, <2>1, <4>1, <4>2, <4>3, <4>4
    <3>2. CASE k = l /\ i = Len(rooms_lig[l]) + 1
      BY <1>2, <2>1, <2>2, <3>2
    <3>3. CASE k = l /\ i # Len(rooms_lig[l]) + 1
      <4>1. rooms_lig'[k] = Append(rooms_lig[l], game_count)
        BY <1>2, <2>1, <3>3
      <4>2. i \in 1 .. Len(rooms_lig[l]) /\ rooms_lig'[k][i] = rooms_lig[l][i]
        BY <2>2, <2>4, <3>3, <4>1
      <4>3. rooms_lig[l][i] \in RoomIds /\ rooms_lig[l][i] < game_count
        BY <1>2, <2>2, <4>2 DEF IInv, OnlyLastLive
      <4>4. rooms[rooms_lig[l][i]] # "live"
        BY <1>4, <2>2, <4>2 DEF LiveOf
      <4> QED BY <1>2, <2>1, <4>2, <4>3, <4>4
    <3> QED BY <3>1, <3>2, <3>3
  <2>5. \A r \in RoomIds : rooms'[r] = "live" => r < game_count'
    BY <1>2, <2>1 DEF IInv, OnlyLastLive
  <2>6. OnlyLastLive'
    BY <2>4, <2>5 DEF OnlyLastLive
  <2> QED BY <2>3, <2>6 DEF IInv
<1> QED BY <1>3, <1>4 DEF MatchFind

LEMMA IoIInv ==
  ASSUME IInv,
         \/ \E u \in Users, r \in RoomIds, kind \in {"game", "raw"} : RoomMsg(u, r, kind)
         \/ MatchJoin \/ GetMsg \/ UseRaw
  PROVE  IInv'
<1>1. ASSUME NEW u \in Users, NEW r \in RoomIds, NEW kind \in {"game", "raw"}, RoomMsg(u, r, kind)
      PROVE  IInv'
  <2>1. TypeOK'
    BY <1>1 DEF IInv, TypeOK, RoomMsg, gameVars
  <2>2. \A x \in RoomIds : rooms'[x] = "live" => rooms[x] = "live"
    BY <1>1 DEF IInv, TypeOK, RoomMsg
  <2>3. OnlyLastLive'
    BY <1>1, <2>2, OnlyLastKept DEF IInv, RoomMsg
  <2> QED BY <2>1, <2>3 DEF IInv
<1>2. CASE MatchJoin
  <2>1. op' = "none" /\ process' \in {process, "crashed"}
        /\ UNCHANGED <<rooms, rooms_lig, game_count, idle, gameVars, who, at, msgs>>
    BY <1>2 DEF MatchJoin
  <2>2. users' \in [RoomIds -> SUBSET Users] /\ told' \in [Users -> SUBSET RoomIds]
    <3>1. at \in RoomIds /\ who \in Users
      BY <1>2 DEF IInv, TypeOK, MatchJoin
    <3>2. users \in [RoomIds -> SUBSET Users] /\ told \in [Users -> SUBSET RoomIds]
      BY DEF IInv, TypeOK
    <3>3. \/ UNCHANGED <<users, told>>
          \/ /\ users' = [users EXCEPT ![at] = @ \cup {who}]
             /\ told' = [told EXCEPT ![who] = @ \cup {at}]
      BY <1>2 DEF MatchJoin
    <3> QED BY <3>1, <3>2, <3>3
  <2>3. TypeOK'
    BY <2>1, <2>2 DEF IInv, TypeOK, gameVars
  <2>4. OnlyLastLive'
    BY <2>1 DEF IInv, OnlyLastLive, gameVars
  <2> QED BY <2>3, <2>4 DEF IInv
<1>3. CASE GetMsg
  <2>1. \/ \E n \in 0 .. Burst : idle' = [idle EXCEPT ![at] = IF n > Slack THEN Slack + 1 ELSE n]
        \/ UNCHANGED idle
    BY <1>3 DEF GetMsg
  <2>2. /\ op' = "none" /\ process' \in {process, "crashed"}
        /\ UNCHANGED <<rooms, rooms_lig, game_count, users, gameVars, who, at, told, msgs>>
    BY <1>3 DEF GetMsg
  <2>3. idle' \in [RoomIds -> 0 .. (Slack + 1)]
    <3>1. idle \in [RoomIds -> 0 .. (Slack + 1)]
      BY DEF IInv, TypeOK
    <3>2. ASSUME NEW n \in 0 .. Burst,
                 idle' = [idle EXCEPT ![at] = IF n > Slack THEN Slack + 1 ELSE n]
          PROVE  idle' \in [RoomIds -> 0 .. (Slack + 1)]
      <4>1. (IF n > Slack THEN Slack + 1 ELSE n) \in 0 .. (Slack + 1)
        OBVIOUS
      <4> QED BY <3>1, <3>2, <4>1
    <3>3. idle' \in [RoomIds -> 0 .. (Slack + 1)]
      BY <2>1, <3>1, <3>2
    <3> QED BY <2>1, <3>1, <3>3
  <2>4. TypeOK'
    BY <2>2, <2>3 DEF IInv, TypeOK, gameVars
  <2>5. OnlyLastLive'
    BY <2>2 DEF IInv, OnlyLastLive
  <2> QED BY <2>4, <2>5 DEF IInv
<1>4. CASE UseRaw
  <2>1. TypeOK'
    BY <1>4 DEF IInv, TypeOK, UseRaw, gameVars
  <2>2. OnlyLastLive'
    BY <1>4 DEF IInv, OnlyLastLive, UseRaw, gameVars
  <2> QED BY <2>1, <2>2 DEF IInv
<1> QED BY <1>1, <1>2, <1>3, <1>4

LEMMA GameIInv == ASSUME IInv, GameStep PROVE IInv'
<1>1. CASE Visit
  <2>1. PICK r \in Ahead : cursor' = r /\ Update(r)
    BY <1>1 DEF Visit
  <2>2. /\ gamePc = "visit" /\ r \in RoomIds /\ r > cursor /\ rooms[r] = "live"
        /\ UNCHANGED <<rooms, rooms_lig, game_count, users, gamePc, ioVars, process>>
    BY <1>1 DEF Visit, Ahead
  <2>3. \/ forRemove' = forRemove \cup {r} /\ idle[r] > Slack /\ UNCHANGED idle
        \/ /\ \E n \in 1 .. Burst :
                idle' = [idle EXCEPT ![r] = IF @ + n > Slack THEN Slack + 1 ELSE @ + n]
           /\ UNCHANGED forRemove
    BY <2>1 DEF Update
  <2>4. idle' \in [RoomIds -> 0 .. (Slack + 1)]
    <3>1. idle \in [RoomIds -> 0 .. (Slack + 1)] /\ Slack \in Nat
      BY DEF IInv, TypeOK
    <3>2. CASE UNCHANGED idle
      BY <3>1, <3>2
    <3>3. ASSUME NEW n \in 1 .. Burst,
                 idle' = [idle EXCEPT ![r] = IF @ + n > Slack THEN Slack + 1 ELSE @ + n]
          PROVE  idle' \in [RoomIds -> 0 .. (Slack + 1)]
      <4>1. idle[r] \in 0 .. (Slack + 1) /\ n \in Nat
        BY <2>2, <3>1
      <4>2. (IF idle[r] + n > Slack THEN Slack + 1 ELSE idle[r] + n) \in 0 .. (Slack + 1)
        BY <3>1, <4>1
      <4> QED BY <2>2, <3>1, <3>3, <4>2
    <3> QED BY <2>3, <3>2, <3>3
  <2>5. TypeOK'
    BY <2>1, <2>2, <2>3, <2>4 DEF IInv, TypeOK, ioVars
  <2>6. OnlyLastLive'
    BY <2>2 DEF IInv, OnlyLastLive
  <2> QED BY <2>5, <2>6 DEF IInv
<1>2. CASE EndVisits
  <2>1. TypeOK'
    BY <1>2 DEF IInv, TypeOK, EndVisits, ioVars
  <2>2. OnlyLastLive'
    BY <1>2 DEF IInv, OnlyLastLive, EndVisits
  <2> QED BY <2>1, <2>2 DEF IInv
<1>3. CASE Erase
  <2>1. PICK r \in forRemove :
          /\ rooms' = [rooms EXCEPT ![r] = "none"]
          /\ forRemove' = forRemove \ {r}
    BY <1>3 DEF Erase
  <2>2. /\ gamePc = "erase"
        /\ UNCHANGED <<rooms_lig, game_count, idle, users, cursor, gamePc, ioVars, process>>
    BY <1>3 DEF Erase
  <2>3. TypeOK'
    BY <2>1, <2>2 DEF IInv, TypeOK, ioVars
  <2>4. \A x \in RoomIds : rooms'[x] = "live" => rooms[x] = "live"
    BY <2>1 DEF IInv, TypeOK
  <2>5. OnlyLastLive'
    BY <2>2, <2>4, OnlyLastKept DEF IInv
  <2> QED BY <2>3, <2>5 DEF IInv
<1>4. CASE EndStep
  <2>1. TypeOK'
    BY <1>4 DEF IInv, TypeOK, EndStep, ioVars
  <2>2. OnlyLastLive'
    BY <1>4 DEF IInv, OnlyLastLive, EndStep
  <2> QED BY <2>1, <2>2 DEF IInv
<1> QED BY <1>1, <1>2, <1>3, <1>4 DEF GameStep

LEMMA NextIInv == IInv /\ [Next]_vars => IInv'
<1> SUFFICES ASSUME IInv, [Next]_vars PROVE IInv'
  OBVIOUS
<1>1. CASE Next
  BY <1>1, MatchFindIInv, IoIInv, GameIInv DEF Next, Io
<1>2. CASE UNCHANGED vars
  <2>1. TypeOK'
    BY <1>2 DEF IInv, TypeOK, vars, gameVars, ioVars
  <2>2. OnlyLastLive'
    BY <1>2 DEF IInv, OnlyLastLive, vars, gameVars, ioVars
  <2> QED BY <2>1, <2>2 DEF IInv
<1> QED BY <1>1, <1>2

(* Players are sent only to rooms whose ids were given out.                 *)
ToldGiven ==
  /\ \A u \in Users : \A r \in told[u] : r < game_count
  /\ op = "match" => at < game_count

(* Only create_room changes a room from absent to live, and game_count.     *)
LEMMA OnlyCreated ==
  ASSUME IInv, [Next]_vars
  PROVE  \/ /\ game_count' = game_count
            /\ \A r \in RoomIds : rooms'[r] = "live" => rooms[r] = "live"
         \/ /\ game_count' = game_count + 1 /\ at' = game_count /\ told' = told
            /\ \A r \in RoomIds : rooms'[r] = "live" => rooms[r] = "live" \/ r = game_count
<1>1. rooms \in [RoomIds -> {"none", "null", "live"}] /\ forRemove \subseteq RoomIds
  BY DEF IInv, TypeOK
<1>2. ASSUME NEW u \in Users, NEW l \in Ligs, MatchFind(u, l)
      PROVE  \/ UNCHANGED <<rooms, game_count>>
             \/ /\ game_count' = game_count + 1 /\ at' = game_count /\ told' = told
                /\ rooms' = [rooms EXCEPT ![game_count] = "live"]
  BY <1>2 DEF MatchFind, create_room
<1>3. ASSUME NEW u \in Users, NEW r \in RoomIds, NEW kind \in {"game", "raw"}, RoomMsg(u, r, kind)
      PROVE  /\ game_count' = game_count
             /\ \A x \in RoomIds : rooms'[x] = "live" => rooms[x] = "live"
  BY <1>1, <1>3 DEF RoomMsg
<1>4. CASE MatchJoin \/ GetMsg \/ UseRaw
  BY <1>4 DEF MatchJoin, GetMsg, UseRaw
<1>5. CASE Visit \/ EndVisits \/ EndStep
  BY <1>5 DEF Visit, EndVisits, EndStep
<1>6. CASE Erase
  BY <1>1, <1>6 DEF Erase
<1>7. CASE UNCHANGED vars
  BY <1>7 DEF vars
<1> QED BY <1>1, <1>2, <1>3, <1>4, <1>5, <1>6, <1>7 DEF Next, Io, GameStep

LEMMA ToldGivenKept == IInv /\ ToldGiven /\ [Next]_vars => ToldGiven'
<1> SUFFICES ASSUME IInv, ToldGiven, [Next]_vars PROVE ToldGiven'
  OBVIOUS
<1>1. game_count \in Nat /\ game_count' \in Nat /\ game_count <= game_count'
  <2>1. IInv'
    BY NextIInv
  <2>2. game_count \in Nat /\ game_count' \in Nat
    BY <2>1 DEF IInv, TypeOK
  <2> QED BY <2>2, OnlyCreated
<1>2. told' = told \/ (op = "match" /\ told' = [told EXCEPT ![who] = @ \cup {at}])
  BY DEF Next, Io, GameStep, MatchFind, MatchJoin, RoomMsg, GetMsg, UseRaw, Visit, EndVisits,
         Erase, EndStep, vars, ioVars
<1>3. /\ told \in [Users -> SUBSET RoomIds] /\ who \in Users
      /\ op = "match" => at \in RoomIds
  BY DEF IInv, TypeOK
<1>4. \A u \in Users : \A r \in told'[u] : r < game_count
  BY <1>2, <1>3 DEF ToldGiven
<1>5. \A u \in Users : \A r \in told'[u] : r \in RoomIds
  BY NextIInv DEF IInv, TypeOK
<1>6. \A u \in Users : \A r \in told'[u] : r < game_count'
  BY <1>1, <1>4, <1>5
<1>7. ASSUME op' = "match" PROVE at' < game_count'
  <2>1. CASE \E u \in Users, l \in Ligs : MatchFind(u, l)
    <3>1. PICK u \in Users, l \in Ligs : MatchFind(u, l)
      BY <2>1
    <3>2. \/ \E i \in LiveOf(l) : at' = rooms_lig[l][i] /\ game_count' = game_count
          \/ at' = game_count /\ game_count' = game_count + 1
      BY <3>1 DEF MatchFind, create_room
    <3>3. \A i \in LiveOf(l) : rooms_lig[l][i] < game_count
      BY DEF LiveOf, IInv, OnlyLastLive
    <3> QED BY <1>1, <3>2, <3>3
  <2>2. CASE GameStep \/ UNCHANGED vars
    BY <2>2, <1>7 DEF ToldGiven, GameStep, Visit, EndVisits, Erase, EndStep, vars, ioVars
  <2>3. CASE MatchJoin \/ GetMsg \/ UseRaw
    BY <2>3, <1>7 DEF MatchJoin, GetMsg, UseRaw
  <2>4. CASE \E u \in Users, r \in RoomIds, kind \in {"game", "raw"} : RoomMsg(u, r, kind)
    BY <2>4, <1>7 DEF RoomMsg
  <2> QED BY <2>1, <2>2, <2>3, <2>4 DEF Next, Io
<1> QED BY <1>6, <1>7 DEF ToldGiven

-----------------------------------------------------------------------------
(* The state of Rooms has its types, for any number of players, leagues,    *)
(* rooms and messages.                                                      *)
THEOREM TypeCorrect == Spec => []TypeOK
<1>1. IInv => TypeOK
  BY DEF IInv
<1> QED BY <1>1, InitIInv, NextIInv, PTL DEF Spec

(* A league never has two live rooms, whatever the game thread erases while *)
(* match_request chooses, so that its players meet.                         *)
THEOREM PlayersMeet == Spec => []OneRoomPerLig
<1>1. IInv => OneRoomPerLig
  BY DEF IInv, OnlyLastLive, OneRoomPerLig
<1> QED BY <1>1, InitIInv, NextIInv, PTL DEF Spec

(* A room never gets the id of one that a player was sent to, whatever was  *)
(* removed and whichever ids the players' messages named.                   *)
THEOREM IdsAreFresh == Spec => NewRoomIsNew
<1>1. Init => ToldGiven
  BY DEF Init, ToldGiven
<1>2. IInv /\ ToldGiven /\ [Next]_vars =>
        [\A r \in RoomIds : ~Live(r) /\ Live(r)' => \A u \in Users : r \notin told[u]]_vars
  <2> SUFFICES ASSUME IInv, ToldGiven, [Next]_vars,
                      NEW r \in RoomIds, rooms[r] # "live", rooms'[r] = "live",
                      NEW u \in Users, r \in told[u]
               PROVE  FALSE
    OBVIOUS
  <2>1. r = game_count
    BY OnlyCreated
  <2>2. r < game_count
    BY DEF ToldGiven
  <2> QED BY <2>1, <2>2
<1> QED BY <1>1, <1>2, InitIInv, NextIInv, ToldGivenKept, PTL DEF Spec, NewRoomIsNew
=============================================================================
