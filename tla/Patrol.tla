------------------------------- MODULE Patrol -------------------------------
(***************************************************************************)
(* A tank that the room drives itself (Room::init gives it ten points and  *)
(* a ConstantTankAi): every step it adds an input towards its next point,  *)
(* which runs one step later, when the tank's own clock has come to the    *)
(* input's trigger_step.  The tank is alone in an open field and on a line *)
(* with its points: the rounding of angles is left out, tanks do not touch *)
(* each other, and lines and blocks are never in the room (see Battle).    *)
(***************************************************************************)
EXTENDS Integers, Sequences

CONSTANTS
  Starts, Courses,   (* where the tank may begin, and its points           *)
  MaxSpeed,          (* of a tank, in units per step: 400 * 0.02 in the code *)
  Reach2,            (* the square of how near is near enough, 200         *)
  Edge,              (* max_d less the radius of a tank, 4900              *)
  MaxSteps           (* bound: steps of the game                           *)

(* Its points are so far inside the board that it comes near before it is   *)
(* stopped, and it cannot pass what is near enough in one step.             *)
ASSUME PatrolAssumption ==
  /\ MaxSpeed \in 1 .. 1000 /\ Reach2 \in Nat /\ Edge \in Nat /\ MaxSteps \in Nat
  /\ MaxSpeed * MaxSpeed < Reach2
  /\ Starts \subseteq -Edge .. Edge
  /\ Courses \subseteq Seq(Int) \ {<<>>}
  /\ \A points \in Courses : \A i \in DOMAIN points : \A p \in {points[i], -points[i]} :
       p <= Edge \/ (p - Edge + MaxSpeed) * (p - Edge + MaxSpeed) <= Reach2

VARIABLES
  course, currentTargetIndex,  (* array and its index of the ConstantTankAi *)
  step, my_step,               (* total_time of the game, and the tank's   *)
  orders,                      (* inps: [trigger_step, angle, speed]       *)
  pos, target_angle, speed,    (* the angle is the direction on the line   *)
  taken, distance              (* history: steps since the tank turned to  *)
                               (* its point, and how far away that was     *)

patrolVars == <<course, currentTargetIndex, step, my_step, orders, pos, target_angle, speed,
                taken, distance>>

Away(a, b) == IF a > b THEN a - b ELSE b - a
(* The angle is 0 for a point that the tank is on (Point::normalize).       *)
Towards(from, to) == IF to >= from THEN 1 ELSE -1

InitPatrol ==
  /\ course \in Courses
  /\ pos \in Starts
  /\ currentTargetIndex = 1
  /\ step = 0 /\ my_step = 0
  /\ orders = {}
  /\ target_angle = 1 /\ speed = 0
  /\ taken = 0 /\ distance = Away(pos, course[1])

add_action(time, angle2, speed2) ==
  orders \cup {[trigger_step |-> time, angle |-> angle2, speed |-> speed2]}

(* ConstantTankAi::step: the input for its point, and the next point once   *)
(* the tank is near.                                                        *)
Ordered(time) == add_action(time, Towards(pos, course[currentTargetIndex]), 1000)

Reached == LET d == Away(pos, course[currentTargetIndex]) IN d * d < Reach2

NextIndex ==
  IF ~Reached THEN currentTargetIndex
  ELSE IF currentTargetIndex = Len(course) THEN 1 ELSE currentTargetIndex + 1

(* Tank::update_inputs: inputs that are late go, the one of this step runs. *)
(* Seeded fault: the one of this step goes with them.                       *)
RemainingFault(all) == {i \in all : i.trigger_step > my_step}

Remaining(all) == {i \in all : i.trigger_step >= my_step}

Capped(s) == IF s > MaxSpeed THEN MaxSpeed ELSE s

(* LiveBoardObject::update.                                                 *)
Moved(angle, s) == pos + angle * s

(* Unit::clear_collision: with neither lines nor blocks in the room, a tank *)
(* is only kept on the board.                                               *)
clear_collision(next_pos) ==
  IF next_pos > Edge THEN Edge ELSE IF next_pos < -Edge THEN -Edge ELSE next_pos

(* GameCore::update with Tank::update.                                      *)
Drive ==
  /\ step < MaxSteps
  /\ step' = step + 1
  /\ LET all == Remaining(Ordered(step'))
         due == {i \in all : i.trigger_step = my_step}
         moves == my_step < step'
     IN /\ orders' = all \ due
        /\ IF due = {} THEN UNCHANGED <<target_angle, speed>>
           ELSE \E i \in due : target_angle' = i.angle /\ speed' = Capped(i.speed)
        /\ pos' = clear_collision(IF moves THEN Moved(target_angle', speed') ELSE pos)
        /\ my_step' = IF moves THEN my_step + 1 ELSE my_step
  /\ currentTargetIndex' = NextIndex
  /\ taken' = IF Reached THEN 0 ELSE taken + 1
  /\ distance' = IF Reached THEN Away(pos', course[NextIndex]) ELSE distance
  /\ UNCHANGED course

NextPatrol == Drive

(* The tank gets to each of its points in the time that a straight way      *)
(* takes, and two steps for the inputs that run late: it neither stands     *)
(* still nor goes round a point, however its steps fall around it.          *)
OnCourse == taken <= distance \div MaxSpeed + 2
=============================================================================
