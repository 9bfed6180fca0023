------------------------------- MODULE LogRing -------------------------------
(***************************************************************************)
(* AsyncQueue in shared memory: one process fills it (init_memory), one    *)
(* empties it (use_memory).  The memory outlives both: a process that dies *)
(* and is started again opens what is there and does not clear it.         *)
(***************************************************************************)
EXTENDS Integers, Sequences

CONSTANTS
  Size,         (* the cells, _size                                        *)
  Messages,     (* messages that a run of the writer sends                 *)
  Deaths        (* how often a process dies                                *)

ASSUME RingAssumption == Size \in Nat \ {0, 1, 2} /\ Messages \in Nat /\ Deaths \in Nat

VARIABLES
  array,        (* AsyncQueue::array: the LogMsg::id of each cell          *)
  reserv_head, completed_head, tail,
  writer,       (* where init_memory is: "reserve", "wrap", "write",       *)
                (* "complete"                                              *)
  cell,         (* the cell that reserve_new returned                      *)
  id,           (* i of init_memory                                        *)
  reader,       (* where use_memory is: "look", "pop"                      *)
  msg,          (* what it has read from the front                         *)
  printed,      (* what was popped, as it was read (history)               *)
  deaths,       (* of both processes                                       *)
  torn          (* a writer has left reserv_head behind the last cell      *)
                (* (history)                                               *)

ringVars == <<array, reserv_head, completed_head, tail, writer, cell, id, reader, msg, printed, deaths, torn>>

InitRing ==
  /\ array = [c \in 0 .. (Size - 1) |-> 0]
  /\ reserv_head = 0 /\ completed_head = 0 /\ tail = 0
  /\ writer = "reserve" /\ cell = 0 /\ id = 1
  /\ reader = "look" /\ msg = 0
  /\ printed = <<>>
  /\ deaths = 0 /\ torn = FALSE

Distance(from, to) == IF to < from THEN to - from + Size ELSE to - from
reserved_number         == Distance(tail, reserv_head)
uncomplted_reserved_size == Distance(completed_head, reserv_head)
completed_size          == Distance(tail, completed_head)

-----------------------------------------------------------------------------
(* Seeded fault: the last cell is given out as well, and head meets tail.   *)
ReserveFault ==
  /\ writer = "reserve" /\ id <= Messages
  /\ cell' = reserv_head
  /\ reserv_head' = reserv_head + 1
  /\ writer' = "wrap"
  /\ UNCHANGED <<array, completed_head, tail, id, reader, msg, printed, deaths, torn>>

(* reserve_new; without room the writer waits and tries again.  (With the   *)
(* wait it also skips the id, which is left out.)                           *)
Reserve ==
  /\ writer = "reserve" /\ id <= Messages
  /\ reserved_number + 3 <= Size
  /\ cell' = reserv_head
  /\ reserv_head' = reserv_head + 1
  /\ writer' = "wrap"
  /\ UNCHANGED <<array, completed_head, tail, id, reader, msg, printed, deaths, torn>>

(* Its second store to reserv_head, which is in the shared memory.          *)
Wrap ==
  /\ writer = "wrap"
  /\ reserv_head' = reserv_head % Size
  /\ writer' = "write"
  /\ UNCHANGED <<array, completed_head, tail, cell, id, reader, msg, printed, deaths, torn>>

(* Behind the last cell lies reserv_head, where the id of a message that    *)
(* is written there goes.                                                   *)
Write ==
  /\ writer = "write"
  /\ array' = IF cell < Size THEN [array EXCEPT ![cell] = id] ELSE array
  /\ reserv_head' = IF cell = Size THEN id ELSE reserv_head
  /\ writer' = "complete"
  /\ UNCHANGED <<completed_head, tail, cell, id, reader, msg, printed, deaths, torn>>

(* complte_last_reserved.                                                   *)
CompleteCell ==
  /\ writer = "complete"
  /\ completed_head' = IF uncomplted_reserved_size <= 0 THEN completed_head ELSE (completed_head + 1) % Size
  /\ writer' = "reserve"
  /\ id' = id + 1
  /\ UNCHANGED <<array, reserv_head, tail, cell, reader, msg, printed, deaths, torn>>

(* front.                                                                   *)
Look ==
  /\ reader = "look"
  /\ completed_size # 0
  /\ msg' = array[tail]
  /\ reader' = "pop"
  /\ UNCHANGED <<array, reserv_head, completed_head, tail, writer, cell, id, printed, deaths, torn>>

Pop ==
  /\ reader = "pop"
  /\ tail' = IF completed_size < 1 THEN tail ELSE (tail + 1) % Size
  /\ printed' = Append(printed, msg)
  /\ reader' = "look"
  /\ UNCHANGED <<array, reserv_head, completed_head, writer, cell, id, msg, deaths, torn>>

(* The writer dies and is started again: create_only fails, and it goes on  *)
(* with the heads as they are and its ids from the first.  A cell that it   *)
(* had reserved is completed in the place of the next one.  One that dies   *)
(* before Wrap may leave reserv_head behind the last cell.                  *)
WriterDies ==
  /\ deaths < Deaths
  /\ deaths' = deaths + 1
  /\ writer' = "reserve" /\ id' = 1
  /\ torn' = (torn \/ reserv_head = Size)
  /\ UNCHANGED <<array, reserv_head, completed_head, tail, cell, reader, msg, printed>>

(* The reader dies: what it had read and not popped is read again.          *)
ReaderDies ==
  /\ deaths < Deaths
  /\ deaths' = deaths + 1
  /\ reader' = "look"
  /\ UNCHANGED <<array, reserv_head, completed_head, tail, writer, cell, id, msg, printed, torn>>

NextRing == Reserve \/ Wrap \/ Write \/ CompleteCell \/ Look \/ Pop \/ WriterDies \/ ReaderDies

-----------------------------------------------------------------------------
(* The completed cells, from the tail on, are the queue of Fifo.            *)
Completed == [i \in 1 .. completed_size |-> array[(tail + i - 1) % Size]]
Queue == INSTANCE Fifo WITH queue <- Completed, out <- printed, Entries <- 0 .. Messages, Capacity <- Size - 2

(* The ring is a bounded queue: no cell is written to from when it is       *)
(* completed to when it is popped, although the processes share no lock,    *)
(* also when either of them died and was started again - unless the writer  *)
(* died between the two stores of reserve_new to reserv_head, with the last *)
(* cell: its successor is given a cell behind the array.                    *)
IsFifo == Queue!Init /\ [][Queue!Next \/ torn]_<<Completed, printed>>
=============================================================================
