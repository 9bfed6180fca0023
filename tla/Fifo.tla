-------------------------------- MODULE Fifo --------------------------------
(***************************************************************************)
(* What AsyncQueue promises its two processes: a bounded queue.  Whatever  *)
(* entered it stays as it is, and leaves it once, in the order in which it *)
(* entered.                                                                *)
(***************************************************************************)
EXTENDS Naturals, Sequences

CONSTANTS Entries, Capacity

VARIABLES
  queue,        (* the entries, oldest first                               *)
  out           (* those that left                                         *)

Init == queue = <<>> /\ out = <<>>

Push(e) == Len(queue) < Capacity /\ queue' = Append(queue, e) /\ UNCHANGED out
Pop     == queue # <<>> /\ out' = Append(out, Head(queue)) /\ queue' = Tail(queue)

Next == (\E e \in Entries : Push(e)) \/ Pop
Spec == Init /\ [][Next]_<<queue, out>>
=============================================================================
