-------------------------- MODULE StructuresProofs --------------------------
(***************************************************************************)
(* What holds of the log ring and of the request parser and its reads, for *)
(* all their constants and any number of steps.  The constants'            *)
(* assumptions are used in the section of their module alone.              *)
(***************************************************************************)
EXTENDS LogRing, RequestParser, FiniteSetTheorems, SequenceTheorems, TLAPS

-----------------------------------------------------------------------------
(* What holds of all numbers: a set of numbers has a least one.             *)
LEMMA LeastNat ==
  ASSUME NEW T \in SUBSET Nat, T # {}
  PROVE  \E x \in T : \A y \in T : x <= y
<1>1. PICK t \in T : TRUE
  OBVIOUS
<1> DEFINE U == 0 .. t
           W == {0 .. b : b \in {b \in T : b <= t}}
<1>2. IsFiniteSet(U) /\ t \in Nat
  BY <1>1, FS_Interval
<1>3. W # {} /\ W \subseteq FiniteSubsetsOf(U)
  <2>1. 0 .. t \in W
    BY <1>2
  <2>2. ASSUME NEW w \in W PROVE w \in FiniteSubsetsOf(U)
    <3>1. PICK b \in T : b <= t /\ w = 0 .. b
      BY <2>2
    <3>2. w \in SUBSET U
      BY <3>1, <1>2
    <3>3. IsFiniteSet(w)
      BY <1>2, <3>2, FS_Subset
    <3> QED BY <3>2, <3>3 DEF FiniteSubsetsOf
  <2> QED BY <2>1, <2>2
<1>4. PICK w \in W : \A v \in W : <<v, w>> \notin StrictSubsetOrdering(U)
  <2> HIDE DEF W, U
  <2> QED BY <1>3, FS_StrictSubsetOrderingWellFounded, WFMin
<1>5. PICK b \in T : b <= t /\ w = 0 .. b
  BY <1>4
<1>6. ASSUME NEW y \in T, ~(b <= y) PROVE FALSE
  <2>1. y < b /\ y <= t /\ 0 .. y \in W
    BY <1>2, <1>5, <1>6
  <2>2. 0 .. y \in SUBSET U /\ w \in SUBSET U /\ 0 .. y \subseteq w /\ 0 .. y # w
    <3>1. b \in w /\ b \notin 0 .. y
      BY <1>5, <2>1
    <3> QED BY <1>2, <1>5, <2>1, <3>1
  <2>3. <<0 .. y, w>> \in StrictSubsetOrdering(U)
    BY <2>2 DEF StrictSubsetOrdering
  <2> QED BY <1>4, <2>1, <2>3
<1> QED BY <1>5, <1>6

(* Hence a set with 0 and with each successor has all numbers.              *)
LEMMA Induction ==
  ASSUME NEW S, 0 \in S, \A n \in Nat : n \in S => n + 1 \in S
  PROVE  Nat \subseteq S
<1> SUFFICES ASSUME Nat \ S # {} PROVE FALSE
  OBVIOUS
<1>1. PICK x \in Nat \ S : \A y \in Nat \ S : x <= y
  BY LeastNat
<1>2. x # 0 /\ x - 1 \in Nat
  BY <1>1
<1>3. x - 1 \in S
  BY <1>1, <1>2
<1> QED BY <1>1, <1>2, <1>3

-----------------------------------------------------------------------------
(* The log ring.                                                            *)
USE RingAssumption DEF RingAssumption

Cells == 0 .. (Size - 1)

RingTypeOK ==
  /\ array \in [Cells -> 0 .. Messages]
  /\ completed_head \in Cells /\ tail \in Cells /\ cell \in Cells
  /\ reserv_head \in Nat /\ (IF writer = "wrap" THEN reserv_head = cell + 1 ELSE reserv_head \in Cells)
  /\ writer \in {"reserve", "wrap", "write", "complete"}
  /\ id \in 1 .. (Messages + 1) /\ (writer # "reserve" => id <= Messages)
  /\ reader \in {"look", "pop"}
  /\ msg \in 0 .. Messages
  /\ printed \in Seq(0 .. Messages)
  /\ deaths \in Nat

(* reserv_head as it is after its second store, and the reserved cells.     *)
head == IF reserv_head = Size THEN 0 ELSE reserv_head
reserved == Distance(tail, head)

(* From the tail come the completed cells, then the reserved ones, and two  *)
(* cells at least stay free.  The writer is at the last reserved cell, and  *)
(* the reader at the first completed one.                                   *)
HeadsInOrder ==
  /\ completed_size <= reserved
  /\ reserved <= Size - 2
  /\ writer \in {"wrap", "write"} => completed_size < reserved /\ head = (cell + 1) % Size
  /\ reader = "pop" => completed_size >= 1 /\ msg = array[tail]

RingInv == RingTypeOK /\ HeadsInOrder

(* Up to a death between the two stores with the last cell.                 *)
RingUpTo == torn \/ RingInv

(* Of numbers below 2 * Size the remainder is the number, or Size less.     *)
LEMMA Remainder ==
  ASSUME NEW x \in 0 .. (2 * Size - 1)
  PROVE  x % Size = IF x < Size THEN x ELSE x - Size
<1>1. CASE x < Size
  BY <1>1
<1>2. CASE x >= Size
  BY <1>2
<1> QED BY <1>1, <1>2

(* A head moves on by one cell, and round at the last.                      *)
LEMMA NextCell ==
  ASSUME NEW c \in Cells
  PROVE  (c + 1) % Size = (IF c = Size - 1 THEN 0 ELSE c + 1) /\ (c + 1) % Size \in Cells
<1> DEFINE d == c + 1
<1>1. d \in 0 .. (2 * Size - 1) /\ (d < Size \/ d = Size)
  BY DEF Cells
<1>2. d % Size = IF d < Size THEN d ELSE d - Size
  <2> HIDE DEF d
  <2> QED BY <1>1, Remainder
<1> QED BY <1>1, <1>2 DEF Cells

(* The i-th cell from c on, round at the last.                              *)
LEMMA CellAhead ==
  ASSUME NEW c \in Cells, NEW i \in 1 .. Size
  PROVE  /\ (c + i - 1) % Size = IF c + i - 1 < Size THEN c + i - 1 ELSE c + i - 1 - Size
         /\ (c + i - 1) % Size \in Cells
<1> DEFINE d == c + i - 1
<1>1. d \in 0 .. (2 * Size - 1)
  BY DEF Cells
<1>2. d % Size = IF d < Size THEN d ELSE d - Size
  <2> HIDE DEF d
  <2> QED BY <1>1, Remainder
<1> QED BY <1>1, <1>2 DEF Cells

(* The first cell from c on is c.                                           *)
LEMMA FirstCell ==
  ASSUME NEW c \in Cells
  PROVE  (c + 1 - 1) % Size = c
<1>1. 1 \in 1 .. Size
  OBVIOUS
<1>2. (c + 1 - 1) % Size = IF c + 1 - 1 < Size THEN c + 1 - 1 ELSE c + 1 - 1 - Size
  BY <1>1, CellAhead
<1> QED BY <1>2 DEF Cells

(* A sequence that begins with another and is one longer.                   *)
LEMMA IsAppend ==
  ASSUME NEW S, NEW s \in Seq(S), NEW e \in S, NEW f \in [1 .. (Len(s) + 1) -> S],
         \A i \in 1 .. Len(s) : f[i] = s[i],
         f[Len(s) + 1] = e
  PROVE  f = Append(s, e)
<1>1. Len(s) \in Nat /\ f \in Seq(S) /\ Len(f) = Len(s) + 1
  OBVIOUS
<1>2. Append(s, e) \in Seq(S) /\ Len(Append(s, e)) = Len(s) + 1
  OBVIOUS
<1>3. \A i \in 1 .. Len(f) : f[i] = Append(s, e)[i]
  BY <1>1
<1> QED BY <1>1, <1>2, <1>3, SeqEqual

(* A sequence that is another without its first element.                    *)
LEMMA IsTail ==
  ASSUME NEW S, NEW s \in Seq(S), s # <<>>, NEW f \in [1 .. (Len(s) - 1) -> S],
         \A i \in 1 .. (Len(s) - 1) : f[i] = s[i + 1]
  PROVE  f = Tail(s)
<1>1. Len(s) \in Nat \ {0} /\ f \in Seq(S) /\ Len(f) = Len(s) - 1
  OBVIOUS
<1>2. Tail(s) \in Seq(S) /\ Len(Tail(s)) = Len(s) - 1 /\ \A i \in 1 .. Len(Tail(s)) : Tail(s)[i] = s[i + 1]
  BY HeadTailProperties
<1> QED BY <1>1, <1>2, SeqEqual

(* The ring begins empty (AsyncQueue::AsyncQueue).                          *)
LEMMA RingInit == InitRing => RingInv
BY DEF InitRing, RingInv, RingTypeOK, HeadsInOrder, Cells, Distance, completed_size, reserved, head

(* The head is that of a cell.                                              *)
LEMMA HeadIsCell == ASSUME RingTypeOK PROVE head \in Cells /\ (writer # "wrap" => head = reserv_head)
BY DEF RingTypeOK, head, Cells

(* The completed cells are a sequence of messages, fewer than the ring has  *)
(* cells.                                                                   *)
LEMMA CompletedType ==
  ASSUME RingInv
  PROVE  /\ completed_size \in 0 .. (Size - 2)
         /\ Completed \in Seq(0 .. Messages) /\ Len(Completed) = completed_size
         /\ \A i \in 1 .. completed_size : Completed[i] = array[(tail + i - 1) % Size]
<1>1. completed_size \in 0 .. (Size - 2)
  <2>1. tail \in Cells /\ completed_head \in Cells /\ head \in Cells
    BY HeadIsCell DEF RingInv, RingTypeOK
  <2> QED BY <2>1 DEF RingInv, HeadsInOrder, completed_size, reserved, Distance, Cells
<1>2. tail \in Cells /\ array \in [Cells -> 0 .. Messages]
  BY DEF RingInv, RingTypeOK
<1>3. \A i \in 1 .. completed_size : (tail + i - 1) % Size \in Cells
  BY <1>1, <1>2, CellAhead
<1> HIDE DEF completed_size
<1>4. Completed \in [1 .. completed_size -> 0 .. Messages]
  BY <1>2, <1>3 DEF Completed
<1>5. \A i \in 1 .. completed_size : Completed[i] = array[(tail + i - 1) % Size]
  BY DEF Completed
<1>6. Completed \in Seq(0 .. Messages) /\ Len(Completed) = completed_size
  BY <1>1, <1>4
<1> QED BY <1>1, <1>5, <1>6

(* reserve_new takes a cell in front of the writer and completes nothing.   *)
LEMMA ReserveKeeps == ASSUME RingInv, Reserve PROVE RingInv' /\ UNCHANGED <<Completed, printed>>
<1>1. /\ reserv_head \in Cells /\ completed_head \in Cells /\ tail \in Cells /\ writer = "reserve"
      /\ cell' = reserv_head /\ reserv_head' = reserv_head + 1 /\ writer' = "wrap"
      /\ UNCHANGED <<array, completed_head, tail, reader, msg, printed>>
  BY DEF RingInv, RingTypeOK, Reserve
<1>2. RingTypeOK'
  BY <1>1 DEF RingInv, RingTypeOK, Reserve, Cells
<1>3. /\ head = reserv_head /\ head' = (IF reserv_head = Size - 1 THEN 0 ELSE reserv_head + 1)
      /\ head' = (cell' + 1) % Size
  BY <1>1, NextCell DEF head, Cells
<1>4. completed_size <= reserved /\ Distance(tail, reserv_head) + 3 <= Size
  BY DEF RingInv, HeadsInOrder, Reserve, reserved_number
<1>5. reserved' = reserved + 1 /\ reserved \in Int /\ completed_size \in Int /\ completed_size' = completed_size
      /\ reserved = Distance(tail, reserv_head)
  BY <1>1, <1>3, <1>4 DEF reserved, completed_size, Distance, Cells
<1>6. HeadsInOrder'
  BY <1>1, <1>3, <1>4, <1>5 DEF RingInv, HeadsInOrder
<1>7. UNCHANGED <<Completed, printed>>
  BY <1>1 DEF Completed, completed_size, Distance
<1> QED BY <1>2, <1>6, <1>7 DEF RingInv

(* Its second store leaves the head where it is.                            *)
LEMMA WrapKeeps == ASSUME RingInv, Wrap PROVE RingInv' /\ UNCHANGED <<Completed, printed>>
<1>1. /\ cell \in Cells /\ reserv_head = cell + 1 /\ reserv_head' = reserv_head % Size
      /\ writer = "wrap" /\ writer' = "write"
      /\ UNCHANGED <<array, completed_head, tail, cell, id, reader, msg, printed>>
  BY DEF RingInv, RingTypeOK, Wrap
<1>2. reserv_head' = (IF cell = Size - 1 THEN 0 ELSE cell + 1) /\ reserv_head' \in Cells
  BY <1>1, NextCell
<1>3. head' = head
  BY <1>1, <1>2 DEF head, Cells
<1>4. RingTypeOK'
  BY <1>1, <1>2 DEF RingInv, RingTypeOK, Wrap, Cells
<1>5. completed_size' = completed_size /\ reserved' = reserved
  BY <1>1, <1>3 DEF completed_size, reserved, Distance
<1>6. HeadsInOrder'
  BY <1>1, <1>3, <1>5 DEF RingInv, HeadsInOrder
<1>7. UNCHANGED <<Completed, printed>>
  BY <1>1, <1>5 DEF Completed
<1> QED BY <1>4, <1>6, <1>7 DEF RingInv

(* The cell that is written is reserved, hence none of the completed ones.  *)
LEMMA WriteKeeps == ASSUME RingInv, Write PROVE RingInv' /\ UNCHANGED <<Completed, printed>>
<1>0. /\ array' = [array EXCEPT ![cell] = id] /\ reserv_head' = reserv_head
      /\ writer = "write" /\ writer' = "complete"
      /\ UNCHANGED <<completed_head, tail, cell, id, reader, msg, printed, deaths>>
  BY DEF RingInv, RingTypeOK, Write, Cells
<1>1. RingTypeOK'
  BY <1>0 DEF RingInv, RingTypeOK
<1>2. /\ completed_size' = completed_size /\ reserved' = reserved
      /\ UNCHANGED <<tail, reserv_head, reader, msg, printed>>
  BY <1>0 DEF completed_size, reserved, head, Distance
<1>3. /\ cell \in Cells /\ tail \in Cells /\ reserv_head \in Cells /\ completed_size >= 0
      /\ array \in [Cells -> 0 .. Messages]
      /\ completed_size < Distance(tail, reserv_head) /\ reserv_head = (cell + 1) % Size
      /\ reserv_head = (IF cell = Size - 1 THEN 0 ELSE cell + 1)
  BY <1>0, NextCell, CompletedType, HeadIsCell DEF RingInv, RingTypeOK, HeadsInOrder, reserved
<1>4. \A i \in 1 .. completed_size : /\ (tail + i - 1) % Size \in Cells \ {cell}
  <2> TAKE i \in 1 .. completed_size
  <2>0. completed_size \in 0 .. (Size - 2)
    BY CompletedType
  <2>1. i \in 1 .. Size /\ i < Distance(tail, reserv_head)
    <3>1. Distance(tail, reserv_head) \in Int
      BY <1>3 DEF Distance, Cells
    <3> QED BY <1>3, <2>0, <3>1
  <2> DEFINE c == (tail + i - 1) % Size
  <2>2. c = (IF tail + i - 1 < Size THEN tail + i - 1 ELSE tail + i - 1 - Size) /\ c \in Cells
    BY <1>3, <2>1, CellAhead
  <2>5. tail \in Cells /\ cell \in Cells /\ reserv_head = (IF cell = Size - 1 THEN 0 ELSE cell + 1)
    BY <1>3
  <2> HIDE DEF c
  <2>6. c # cell
    <3>1. CASE cell = Size - 1
      BY <2>1, <2>2, <2>5, <3>1 DEF Distance, Cells
    <3>2. CASE cell # Size - 1
      <4>1. reserv_head = cell + 1 /\ cell \in Int /\ tail \in Int
        BY <2>5, <3>2 DEF Cells
      <4>2. CASE cell + 1 < tail
        BY <2>1, <2>2, <2>5, <4>1, <4>2 DEF Distance, Cells
      <4>3. CASE ~(cell + 1 < tail)
        BY <2>1, <2>2, <2>5, <4>1, <4>3 DEF Distance, Cells
      <4> QED BY <4>2, <4>3
    <3> QED BY <3>1, <3>2
  <2> QED BY <2>2, <2>6 DEF c
<1>5. \A i \in 1 .. completed_size : array'[(tail + i - 1) % Size] = array[(tail + i - 1) % Size]
  BY <1>0, <1>3, <1>4
<1>6. Completed' = Completed
  BY <1>2, <1>5 DEF Completed
<1>7. completed_size >= 1 => array'[tail] = array[tail]
  <2> HAVE completed_size >= 1
  <2>1. 1 \in 1 .. completed_size
    BY CompletedType
  <2>2. (tail + 1 - 1) % Size = tail
    BY <1>3, FirstCell
  <2>3. array'[(tail + 1 - 1) % Size] = array[(tail + 1 - 1) % Size]
    BY <1>5, <2>1, Zenon
  <2> QED BY <2>2, <2>3, Zenon
<1>8. HeadsInOrder'
  BY <1>0, <1>2, <1>7 DEF RingInv, HeadsInOrder
<1> QED BY <1>1, <1>2, <1>6, <1>8 DEF RingInv

(* complte_last_reserved adds the message of the next cell to the queue.    *)
LEMMA CompleteKeeps ==
  ASSUME RingInv, CompleteCell
  PROVE  RingInv' /\ (UNCHANGED <<Completed, printed>> \/ \E e \in 0 .. Messages : Queue!Push(e))
<1>1. RingTypeOK'
  BY NextCell DEF RingInv, RingTypeOK, CompleteCell
<1>2. UNCHANGED <<array, reserv_head, tail, reader, msg, printed>> /\ writer = "complete" /\ writer' = "reserve"
  BY DEF CompleteCell
<1>5. reserv_head \in Cells /\ reserv_head' \in Cells /\ head = reserv_head /\ head' = reserv_head
  BY <1>2, HeadIsCell DEF RingInv, RingTypeOK, head, Cells
<1>3. CASE completed_head' = completed_head
  <2>1. completed_size' = completed_size /\ reserved' = reserved
    BY <1>2, <1>3, <1>5 DEF completed_size, reserved, Distance
  <2>2. Completed' = Completed
    BY <1>2, <2>1 DEF Completed
  <2>3. HeadsInOrder'
    BY <1>2, <2>1 DEF RingInv, HeadsInOrder
  <2> QED BY <1>1, <1>2, <2>2, <2>3 DEF RingInv
<1>4. CASE completed_head' # completed_head
  <2> DEFINE e == array[completed_head]
             n == completed_size
  <2>0. /\ tail \in Cells /\ completed_head \in Cells /\ reserv_head \in Cells
        /\ array \in [Cells -> 0 .. Messages] /\ e \in 0 .. Messages
    BY <1>5 DEF RingInv, RingTypeOK
  <2>1. /\ ~(uncomplted_reserved_size <= 0)
        /\ completed_head' = (IF completed_head = Size - 1 THEN 0 ELSE completed_head + 1)
    BY <1>4, <2>0, NextCell DEF CompleteCell
  <2>2. /\ n \in 0 .. (Size - 3) /\ n < reserved /\ completed_size' = n + 1
        /\ completed_head = IF tail + n < Size THEN tail + n ELSE tail + n - Size
    BY <2>0, <2>1, <1>2, <1>5 DEF RingInv, HeadsInOrder, completed_size, reserved,
                      uncomplted_reserved_size, Distance, Cells
  <2>3. reserved' = reserved /\ reserved \in Int
    BY <1>2, <1>5, <2>0 DEF reserved, Distance, Cells
  <2>4. HeadsInOrder'
    BY <1>2, <2>2, <2>3 DEF RingInv, HeadsInOrder
  <2> HIDE DEF n, e
  <2>5. /\ Completed \in Seq(0 .. Messages) /\ Len(Completed) = n
        /\ \A i \in 1 .. n : Completed[i] = array[(tail + i - 1) % Size]
    BY CompletedType DEF n
  <2>6. Completed' = [i \in 1 .. (n + 1) |-> array[(tail + i - 1) % Size]]
    BY <1>2, <2>2 DEF Completed
  <2>7. \A i \in 1 .. (n + 1) : i \in 1 .. Size /\ (tail + i - 1) % Size \in Cells
    <3> TAKE i \in 1 .. (n + 1)
    <3>1. i \in 1 .. Size
      BY <2>2
    <3> QED BY <2>0, <3>1, CellAhead
  <2>8. Completed' \in [1 .. (n + 1) -> 0 .. Messages]
    BY <2>0, <2>1, <2>6, <2>7
  <2>9. Completed'[n + 1] = e
    <3>1. n + 1 \in 1 .. Size
      BY <2>2
    <3>2. (tail + (n + 1) - 1) % Size =
            IF tail + (n + 1) - 1 < Size THEN tail + (n + 1) - 1 ELSE tail + (n + 1) - 1 - Size
      BY <2>0, <3>1, CellAhead
    <3>4. (tail + (n + 1) - 1) % Size = completed_head
      BY <2>0, <2>2, <3>2 DEF Cells
    <3>3. Completed'[n + 1] = array[(tail + (n + 1) - 1) % Size]
      BY <2>2, <2>6
    <3> QED BY <3>3, <3>4 DEF e
  <2>10. \A i \in 1 .. n : Completed'[i] = Completed[i]
    BY <2>2, <2>5, <2>6
  <2>11. Completed' = Append(Completed, e)
    BY <2>0, <2>1, <2>5, <2>8, <2>9, <2>10, IsAppend
  <2>12. Queue!Push(e)
    BY <1>2, <2>2, <2>5, <2>11 DEF Queue!Push
  <2> QED BY <1>1, <2>0, <2>4, <2>12 DEF RingInv
<1> QED BY <1>3, <1>4

(* The reader that looks takes nothing from the queue.                      *)
LEMMA LookKeeps == ASSUME RingInv, Look PROVE RingInv' /\ UNCHANGED <<Completed, printed>>
<1>1. /\ UNCHANGED <<array, reserv_head, completed_head, tail, writer, cell, printed>>
      /\ msg' = array[tail] /\ completed_size # 0
  BY DEF Look
<1>2. completed_size' = completed_size /\ reserved' = reserved /\ head' = head
  BY <1>1 DEF completed_size, reserved, head, Distance
<1>3. RingTypeOK'
  BY DEF RingInv, RingTypeOK, Look
<1>4. completed_size >= 1
  BY <1>1, CompletedType
<1>5. HeadsInOrder'
  BY <1>1, <1>2, <1>4 DEF RingInv, HeadsInOrder
<1>6. Completed' = Completed
  BY <1>1, <1>2 DEF Completed
<1> QED BY <1>1, <1>3, <1>5, <1>6 DEF RingInv

(* pop takes the message that the reader has seen: it is still the first.   *)
LEMMA PopKeeps == ASSUME RingInv, Pop PROVE RingInv' /\ Queue!Pop
<1> DEFINE n == completed_size
<1>1. /\ UNCHANGED <<array, reserv_head, completed_head, writer, cell>>
      /\ reader' = "look" /\ printed' = Append(printed, msg)
      /\ n >= 1 /\ msg = array[tail]
      /\ tail' = (tail + 1) % Size
  BY CompletedType DEF Pop, RingInv, HeadsInOrder
<1>2. /\ tail \in Cells /\ completed_head \in Cells /\ head \in Cells /\ head' = head
      /\ array \in [Cells -> 0 .. Messages]
      /\ tail' = (IF tail = Size - 1 THEN 0 ELSE tail + 1)
  BY <1>1, NextCell, HeadIsCell DEF RingInv, RingTypeOK, head
<1>3. RingTypeOK'
  BY <1>1, NextCell DEF RingInv, RingTypeOK, Pop
<1>4. /\ completed_size' = n - 1 /\ reserved' = reserved - 1
      /\ n \in 1 .. (Size - 2) /\ reserved \in Int
  <2>1. completed_size <= reserved /\ reserved <= Size - 2 /\ completed_size >= 1
    BY <1>1 DEF RingInv, HeadsInOrder
  <2>2. completed_size \in Int /\ reserved \in Int
    BY <1>2 DEF completed_size, reserved, Distance, Cells
  <2>5. UNCHANGED <<completed_head, head>>
    BY <1>1, <1>2
  <2>3. completed_size' = completed_size - 1
    BY <1>2, <2>1, <2>5 DEF completed_size, Distance, Cells
  <2>4. reserved' = reserved - 1
    BY <1>2, <2>1, <2>2, <2>5 DEF reserved, Distance, Cells
  <2> QED BY <2>1, <2>2, <2>3, <2>4
<1>5. HeadsInOrder'
  BY <1>1, <1>2, <1>4 DEF RingInv, HeadsInOrder
<1> HIDE DEF n
<1>6. /\ Completed \in Seq(0 .. Messages) /\ Len(Completed) = n
      /\ \A i \in 1 .. n : Completed[i] = array[(tail + i - 1) % Size]
  BY CompletedType DEF n
<1>7. Head(Completed) = msg
  <2>1. Head(Completed) = Completed[1]
    BY <1>4, <1>6
  <2>2. Completed[1] = array[(tail + 1 - 1) % Size]
    BY <1>4, <1>6
  <2> QED BY <1>1, <1>2, <2>1, <2>2, FirstCell
<1>8. Completed' = [i \in 1 .. (n - 1) |-> array[(tail' + i - 1) % Size]]
  BY <1>1, <1>4 DEF Completed
<1>9. \A i \in 1 .. (n - 1) : /\ (tail' + i - 1) % Size = (tail + (i + 1) - 1) % Size
                             /\ (tail' + i - 1) % Size \in Cells
  <2> TAKE i \in 1 .. (n - 1)
  <2>1. i \in 1 .. Size /\ i + 1 \in 1 .. Size /\ tail' \in Cells
    BY <1>2, <1>4 DEF Cells
  <2> DEFINE c == (tail' + i - 1) % Size
             d == (tail + (i + 1) - 1) % Size
  <2>2. c = (IF tail' + i - 1 < Size THEN tail' + i - 1 ELSE tail' + i - 1 - Size) /\ c \in Cells
    BY <2>1, CellAhead
  <2>3. d = IF tail + (i + 1) - 1 < Size THEN tail + (i + 1) - 1 ELSE tail + (i + 1) - 1 - Size
    BY <1>2, <2>1, CellAhead
  <2> HIDE DEF c, d
  <2>4. c = d
    BY <1>2, <2>1, <2>2, <2>3 DEF Cells
  <2> QED BY <2>2, <2>4 DEF c, d
<1>10. Completed' \in [1 .. (n - 1) -> 0 .. Messages]
  BY <1>2, <1>8, <1>9
<1>11. \A i \in 1 .. (n - 1) : Completed'[i] = Completed[i + 1]
  <2> TAKE i \in 1 .. (n - 1)
  <2>1. i + 1 \in 1 .. n
    BY <1>4
  <2>2. Completed'[i] = array[(tail' + i - 1) % Size]
    BY <1>8
  <2>3. Completed[i + 1] = array[(tail + (i + 1) - 1) % Size]
    BY <1>6, <2>1
  <2> QED BY <1>9, <2>2, <2>3
<1>12. Completed # <<>>
  BY <1>4, <1>6
<1>13. Completed' = Tail(Completed)
  BY <1>6, <1>10, <1>11, <1>12, IsTail
<1>14. Queue!Pop
  BY <1>1, <1>7, <1>12, <1>13 DEF Queue!Pop
<1> QED BY <1>3, <1>5, <1>14 DEF RingInv

(* A process that dies leaves the ring as it is; its successor begins anew. *)
LEMMA DeathKeeps ==
  ASSUME RingInv, WriterDies \/ ReaderDies \/ UNCHANGED ringVars, ~torn
  PROVE  RingUpTo' /\ UNCHANGED <<Completed, printed>>
<1>1. UNCHANGED <<array, reserv_head, completed_head, tail, cell, msg, printed>>
  BY DEF WriterDies, ReaderDies, ringVars
<1>2. completed_size' = completed_size /\ reserved' = reserved /\ head' = head
  BY <1>1 DEF completed_size, reserved, head, Distance
<1>3. torn' \/ RingTypeOK'
  <2>1. CASE WriterDies
    <3>1. writer' = "reserve" /\ id' = 1 /\ deaths' = deaths + 1 /\ reader' = reader
      BY <2>1 DEF WriterDies
    <3>3. torn' \/ reserv_head # Size
      BY <2>1, Zenon DEF WriterDies
    <3>2. reserv_head # Size => reserv_head' \in Cells /\ reserv_head' \in Nat
      BY <1>1 DEF RingInv, RingTypeOK, Cells
    <3> QED BY <1>1, <3>1, <3>2, <3>3 DEF RingInv, RingTypeOK
  <2>2. CASE ReaderDies
    BY <1>1, <2>2 DEF RingInv, RingTypeOK, ReaderDies
  <2>3. CASE UNCHANGED ringVars
    BY <2>3 DEF RingInv, RingTypeOK, ringVars
  <2> QED BY <2>1, <2>2, <2>3
<1>4. writer' \in {"reserve", writer} /\ reader' \in {"look", reader}
  BY DEF WriterDies, ReaderDies, ringVars
<1>5. HeadsInOrder'
  BY <1>1, <1>2, <1>4 DEF RingInv, HeadsInOrder
<1>6. Completed' = Completed
  BY <1>1, <1>2 DEF Completed
<1> QED BY <1>1, <1>3, <1>5, <1>6 DEF RingInv, RingUpTo

(* Every step of the ring is a step of the queue, or changes nothing of it, *)
(* up to such a death.                                                      *)
LEMMA RingStep ==
  ASSUME RingUpTo, [NextRing]_ringVars
  PROVE  RingUpTo' /\ [Queue!Next \/ torn]_<<Completed, printed>>
<1>1. CASE torn
  <2>1. torn'
    BY <1>1 DEF NextRing, Reserve, Wrap, Write, CompleteCell, Look, Pop, WriterDies, ReaderDies, ringVars
  <2> QED BY <1>1, <2>1 DEF RingUpTo
<1>2. CASE ~torn /\ RingInv
  <2>1. CASE WriterDies \/ ReaderDies \/ UNCHANGED ringVars
    BY <1>2, <2>1, DeathKeeps
  <2>2. ASSUME Reserve \/ Wrap \/ Write \/ CompleteCell \/ Look \/ Pop
        PROVE  RingInv' /\ [Queue!Next]_<<Completed, printed>>
    <3> QED BY <1>2, <2>2, ReserveKeeps, WrapKeeps, WriteKeeps, CompleteKeeps, LookKeeps, PopKeeps DEF Queue!Next
  <2> QED BY <2>1, <2>2 DEF NextRing, RingUpTo
<1> QED BY <1>1, <1>2 DEF RingUpTo

(* The log ring implements a FIFO of its messages: what is completed is     *)
(* printed once and in order, wherever the writing and the reading process  *)
(* die, up to a writer that dies between the two stores of reserve_new with *)
(* the last cell (AsyncQueue in shared memory, SharedMemoryLoger's          *)
(* init_memory and use_memory).                                             *)
THEOREM RingImplementsFifo == InitRing /\ [][NextRing]_ringVars => IsFifo
<1>1. InitRing => Queue!Init
  <2> SUFFICES ASSUME InitRing PROVE Queue!Init
    OBVIOUS
  <2>1. completed_size = 0
    BY DEF InitRing, completed_size, Distance
  <2>2. Completed \in Seq(0 .. Messages) /\ Len(Completed) = 0
    BY <2>1, RingInit, CompletedType
  <2> QED BY <2>2 DEF Queue!Init, InitRing
<1>2. InitRing => RingUpTo
  BY RingInit DEF InitRing, RingUpTo
<1> QED BY <1>1, <1>2, RingStep, PTL DEF IsFifo

HIDE RingAssumption DEF RingAssumption

-----------------------------------------------------------------------------
(* The request parser.                                                      *)

(* Where headers end, and what the last bytes are in each state.            *)
EndAt(s, i) == s[i] = "CR" /\ s[i + 1] = "LF" /\ s[i + 2] = "CR" /\ s[i + 3] = "LF"

LastBytes ==
  LET n == Len(input) IN
  /\ state = "method_start" => n = 0
  /\ state # "method_start" => n >= 1
  /\ state \notin {"method_start", "header_line_start"} => input[n] # "LF"
  /\ state \in {"expecting_newline_1", "expecting_newline_2"} =>
       n >= 2 /\ input[n - 1] # "LF" /\ input[n] = "CR"
  /\ state = "header_line_start" => n >= 2 /\ input[n - 1] = "CR" /\ input[n] = "LF"
  /\ state = "expecting_newline_3" =>
       n >= 3 /\ input[n - 2] = "CR" /\ input[n - 1] = "LF" /\ input[n] = "CR"

(* No headers end before the request is complete, and then they end at the  *)
(* last byte.                                                               *)
EndsOnce ==
  LET n == Len(input) IN
  /\ result = "indeterminate" => LastBytes /\ \A i \in 1 .. (n - 3) : ~EndAt(input, i)
  /\ result = "good" => n >= 4 /\ EndAt(input, n - 3) /\ \A i \in 1 .. (n - 4) : ~EndAt(input, i)

(* The current read is the last of the input.                               *)
ReadIsLast ==
  /\ input \in Seq(Symbols) /\ read \in Seq(Symbols) /\ Len(read) <= Len(input)
  /\ \A i \in 1 .. Len(read) : read[i] = input[Len(input) - Len(read) + i]

ParserInv == ReadIsLast /\ EndsOnce

(* Nothing is read yet.                                                     *)
LEMMA ParserInit == InitParser => ParserInv
BY DEF InitParser, ParserInv, ReadIsLast, EndsOnce, LastBytes

(* How the rules go about the ends of lines.                                *)
EndsLine(rule) ==
  /\ rule[3] # "method_start"
  /\ rule[3] = "header_line_start" => rule[1] \in {"expecting_newline_1", "expecting_newline_2"}
  /\ \A c \in rule[2] : c = "LF" <=> rule[3] = "header_line_start"
  /\ rule[3] \in {"expecting_newline_1", "expecting_newline_2"} =>
       rule[2] = {"CR"} /\ rule[1] \notin {"method_start", "header_line_start"}
  /\ rule[3] = "expecting_newline_3" => rule[2] = {"CR"} /\ rule[1] = "header_line_start"

(* Every rule of the parser ends lines as EndsLine says.                    *)
LEMMA LineEnds == \A rule \in Rules : EndsLine(rule)
<1>1. \A c \in Token \cup Text \cup Blank : c # "LF"
  BY DEF Token, Text, Blank, Symbols, Ctl, Special
<1>2. /\ EndsLine(<<"method_start", Token, "method", "method">>)
      /\ EndsLine(<<"method", {"space"}, "uri", "none">>)
      /\ EndsLine(<<"method", Token, "method", "method">>)
  BY <1>1 DEF EndsLine
<1>3. /\ EndsLine(<<"uri", {"space"}, "http_version_h", "none">>)
      /\ EndsLine(<<"uri", Text \ {"space"}, "uri", "uri">>)
      /\ EndsLine(<<"http_version_h", {"H"}, "http_version_t_1", "none">>)
  BY <1>1 DEF EndsLine
<1>4. /\ EndsLine(<<"http_version_t_1", {"T"}, "http_version_t_2", "none">>)
      /\ EndsLine(<<"http_version_t_2", {"T"}, "http_version_p", "none">>)
      /\ EndsLine(<<"http_version_p", {"P"}, "http_version_slash", "none">>)
  BY <1>1 DEF EndsLine
<1>5. /\ EndsLine(<<"http_version_slash", {"/"}, "http_version_major_start", "none">>)
      /\ EndsLine(<<"http_version_major_start", {"1"}, "http_version_major", "none">>)
      /\ EndsLine(<<"http_version_major", {"."}, "http_version_minor_start", "none">>)
      /\ EndsLine(<<"http_version_major", {"1"}, "http_version_major", "none">>)
  BY <1>1 DEF EndsLine
<1>6. /\ EndsLine(<<"http_version_minor_start", {"1"}, "http_version_minor", "none">>)
      /\ EndsLine(<<"http_version_minor", {"CR"}, "expecting_newline_1", "none">>)
      /\ EndsLine(<<"http_version_minor", {"1"}, "http_version_minor", "none">>)
      /\ EndsLine(<<"expecting_newline_1", {"LF"}, "header_line_start", "none">>)
  BY <1>1 DEF EndsLine
<1>7. \A rule \in RequestLineRules : EndsLine(rule)
  BY <1>2, <1>3, <1>4, <1>5, <1>6, Zenon DEF RequestLineRules
<1>8. /\ EndsLine(<<"header_line_start", {"CR"}, "expecting_newline_3", "none">>)
      /\ EndsLine(<<"header_line_start", Blank, "header_lws", "none">>)
      /\ EndsLine(<<"header_line_start", Token, "header_name", "header">>)
  BY <1>1 DEF EndsLine
<1>9. /\ EndsLine(<<"header_lws", {"CR"}, "expecting_newline_2", "none">>)
      /\ EndsLine(<<"header_lws", Blank, "header_lws", "none">>)
      /\ EndsLine(<<"header_lws", Text \ Blank, "header_value", "value">>)
  BY <1>1 DEF EndsLine
<1>10. /\ EndsLine(<<"header_name", {":"}, "space_before_header_value", "none">>)
      /\ EndsLine(<<"header_name", Token, "header_name", "name">>)
      /\ EndsLine(<<"space_before_header_value", {"space"}, "header_value", "none">>)
  BY <1>1 DEF EndsLine
<1>11. /\ EndsLine(<<"header_value", {"CR"}, "expecting_newline_2", "none">>)
      /\ EndsLine(<<"header_value", Text, "header_value", "value">>)
      /\ EndsLine(<<"expecting_newline_2", {"LF"}, "header_line_start", "none">>)
  BY <1>1 DEF EndsLine
<1>12. \A rule \in HeaderRules : EndsLine(rule)
  BY <1>8, <1>9, <1>10, <1>11, Zenon DEF HeaderRules
<1> QED BY <1>7, <1>12 DEF Rules

(* The bytes read so far stay the last of the input with one more.          *)
LEMMA OneMoreByte ==
  ASSUME ReadIsLast, NEW c \in Symbols, input' = Append(input, c), read' = Append(read, c)
  PROVE  /\ ReadIsLast'
         /\ Len(input) \in Nat /\ Len(input') = Len(input) + 1
         /\ input'[Len(input) + 1] = c
         /\ \A i \in 1 .. Len(input) : input'[i] = input[i]
<1>1. input \in Seq(Symbols) /\ read \in Seq(Symbols) /\ Len(input) \in Nat /\ Len(read) \in Nat
  BY DEF ReadIsLast
<1>2. /\ input' \in Seq(Symbols) /\ Len(input') = Len(input) + 1
      /\ input'[Len(input) + 1] = c
      /\ \A i \in 1 .. Len(input) : input'[i] = input[i]
  BY <1>1
<1>3. /\ read' \in Seq(Symbols) /\ Len(read') = Len(read) + 1
      /\ read'[Len(read) + 1] = c
      /\ \A i \in 1 .. Len(read) : read'[i] = read[i]
  BY <1>1
<1>4. ReadIsLast'
  <2> DEFINE n == Len(input)
             m == Len(read)
  <2>1. m <= n /\ \A i \in 1 .. m : read[i] = input[n - m + i]
    BY DEF ReadIsLast
  <2> HIDE DEF m, n
  <2>2. \A i \in 1 .. m : n - m + i \in 1 .. n
    BY <1>1, <2>1 DEF m, n
  <2>3. n - m + (m + 1) = n + 1
    BY <1>1 DEF m, n
  <2>4. \A i \in 1 .. (m + 1) : i \in 1 .. m \/ i = m + 1
    BY <1>1 DEF m, n
  <2>5. \A i \in 1 .. (m + 1) : read'[i] = input'[n - m + i]
    BY <1>2, <1>3, <2>1, <2>2, <2>3, <2>4 DEF m, n
  <2>6. Len(read') = m + 1 /\ Len(input') = n + 1 /\ n + 1 - (m + 1) = n - m /\ m + 1 <= n + 1
    BY <1>1, <1>2, <1>3, <2>1 DEF m, n
  <2>7. \A i \in 1 .. Len(read') : read'[i] = input'[Len(input') - Len(read') + i]
    <3> TAKE i \in 1 .. Len(read')
    <3>1. i \in 1 .. (m + 1)
      BY <2>6
    <3>2. Len(input') - Len(read') + i = n - m + i
      BY <1>1, <2>6 DEF m, n
    <3> QED BY <2>5, <3>1, <3>2
  <2>8. Len(read') <= Len(input')
    BY <2>6
  <2> QED BY <1>2, <1>3, <2>7, <2>8 DEF ReadIsLast
<1> QED BY <1>1, <1>2, <1>4

(* A byte that is consumed ends the headers at once, or does not end them.  *)
LEMMA ConsumeKeeps == ASSUME ParserInv, NEW c \in Symbols, Consume(c) PROVE ParserInv'
<1> DEFINE n == Len(input)
<1>1. /\ ReadIsLast' /\ n \in Nat /\ Len(input') = n + 1 /\ input'[n + 1] = c
      /\ \A i \in 1 .. n : input'[i] = input[i]
  BY OneMoreByte DEF Consume, ParserInv
<1>2. result = "indeterminate" /\ LastBytes /\ \A i \in 1 .. (n - 3) : ~EndAt(input, i)
  BY DEF Consume, ParserInv, EndsOnce
<1>3. \A i \in 1 .. (n - 3) : ~EndAt(input', i)
  <2> TAKE i \in 1 .. (n - 3)
  <2>1. i \in 1 .. n /\ i + 1 \in 1 .. n /\ i + 2 \in 1 .. n /\ i + 3 \in 1 .. n
    BY <1>1
  <2> HIDE DEF n
  <2>2. ~EndAt(input, i)
    BY <1>2
  <2> QED BY <1>1, <2>1, <2>2 DEF EndAt
<1>4. ASSUME NEW rule \in Rules, Applies(rule, c), state' = rule[3], UNCHANGED result
      PROVE  ParserInv'
  <2>1. c \in rule[2] /\ rule[1] = state
    BY <1>4 DEF Applies
  <2>0. /\ state' # "method_start"
        /\ c = "LF" <=> state' = "header_line_start"
        /\ c = "LF" => state \in {"expecting_newline_1", "expecting_newline_2"}
        /\ state' \in {"expecting_newline_1", "expecting_newline_2"} =>
             c = "CR" /\ state \notin {"method_start", "header_line_start"}
        /\ state' = "expecting_newline_3" => c = "CR" /\ state = "header_line_start"
    <3>1. EndsLine(rule)
      BY LineEnds
    <3> QED BY <1>4, <2>1, <3>1 DEF EndsLine
  <2>2. LastBytes'
    <3>1. n >= 1 => input'[n] = input[n]
      BY <1>1
    <3>2. n >= 2 => input'[n - 1] = input[n - 1]
      BY <1>1
    <3>3. n + 1 - 1 = n /\ n + 1 - 2 = n - 1
      BY <1>1
    <3> HIDE DEF n
    <3>4. LastBytes <=>
            /\ state = "method_start" => n = 0
            /\ state # "method_start" => n >= 1
            /\ state \notin {"method_start", "header_line_start"} => input[n] # "LF"
            /\ state \in {"expecting_newline_1", "expecting_newline_2"} =>
                 n >= 2 /\ input[n - 1] # "LF" /\ input[n] = "CR"
            /\ state = "header_line_start" => n >= 2 /\ input[n - 1] = "CR" /\ input[n] = "LF"
            /\ state = "expecting_newline_3" =>
                 n >= 3 /\ input[n - 2] = "CR" /\ input[n - 1] = "LF" /\ input[n] = "CR"
      BY DEF LastBytes, n
    <3>5. LastBytes' <=>
            /\ state' = "method_start" => n + 1 = 0
            /\ state' # "method_start" => n + 1 >= 1
            /\ state' \notin {"method_start", "header_line_start"} => input'[n + 1] # "LF"
            /\ state' \in {"expecting_newline_1", "expecting_newline_2"} =>
                 n + 1 >= 2 /\ input'[n] # "LF" /\ input'[n + 1] = "CR"
            /\ state' = "header_line_start" =>
                 n + 1 >= 2 /\ input'[n] = "CR" /\ input'[n + 1] = "LF"
            /\ state' = "expecting_newline_3" =>
                 n + 1 >= 3 /\ input'[n - 1] = "CR" /\ input'[n] = "LF" /\ input'[n + 1] = "CR"
      BY <1>1, <3>3 DEF LastBytes
    <3> QED BY <1>1, <1>2, <2>0, <3>1, <3>2, <3>4, <3>5
  <2>3. n >= 3 => ~EndAt(input', n - 2)
    <3> SUFFICES ASSUME n >= 3, EndAt(input', n - 2)
                 PROVE  FALSE
      OBVIOUS
    <3>1. c = "LF" /\ input[n - 1] = "LF"
      BY <1>1 DEF EndAt
    <3>2. state \in {"expecting_newline_1", "expecting_newline_2"}
      BY <2>0, <3>1
    <3> QED BY <1>2, <3>1, <3>2 DEF LastBytes
  <2>4. \A i \in 1 .. (Len(input') - 3) : i \in 1 .. (n - 3) \/ (n >= 3 /\ i = n - 2)
    BY <1>1
  <2>5. EndsOnce'
    BY <1>2, <1>3, <1>4, <2>2, <2>3, <2>4 DEF EndsOnce
  <2> QED BY <1>1, <2>5 DEF ParserInv
<1>5. ASSUME result' = IF state = "expecting_newline_3" /\ c = "LF" THEN "good" ELSE "bad"
      PROVE  ParserInv'
  <2>1. CASE state = "expecting_newline_3" /\ c = "LF"
    <3>1. n >= 3 /\ input[n - 2] = "CR" /\ input[n - 1] = "LF" /\ input[n] = "CR"
      BY <1>2, <2>1 DEF LastBytes
    <3>2. Len(input') >= 4 /\ EndAt(input', Len(input') - 3)
      BY <1>1, <2>1, <3>1 DEF EndAt
    <3>3. \A i \in 1 .. (Len(input') - 4) : ~EndAt(input', i)
      BY <1>1, <1>3
    <3>4. EndsOnce'
      BY <1>5, <2>1, <3>2, <3>3 DEF EndsOnce
    <3> QED BY <1>1, <3>4 DEF ParserInv
  <2>2. CASE ~(state = "expecting_newline_3" /\ c = "LF")
    BY <1>1, <1>5, <2>2 DEF ParserInv, EndsOnce
  <2> QED BY <2>1, <2>2
<1> QED BY <1>4, <1>5 DEF Consume

(* A read that ends leaves the input as it is.                              *)
LEMMA ReadEnds ==
  ASSUME ParserInv, UNCHANGED <<state, input>>, read' \in {read, <<>>}, result' \in {result, "thrown"}
  PROVE  ParserInv'
<1>1. ReadIsLast'
  <2>1. <<>> \in Seq(Symbols) /\ Len(<<>>) = 0 /\ Len(input) \in Nat
    BY DEF ParserInv, ReadIsLast
  <2>2. CASE read' = read
    BY <2>2 DEF ParserInv, ReadIsLast
  <2>3. CASE read' = <<>>
    BY <2>1, <2>3 DEF ParserInv, ReadIsLast
  <2> QED BY <2>2, <2>3
<1>2. EndsOnce'
  BY DEF ParserInv, EndsOnce, LastBytes, EndAt
<1> QED BY <1>1, <1>2 DEF ParserInv

(* Every step of the parser and of do_read keeps the invariant.             *)
LEMMA ParserStep == ASSUME ParserInv, [NextParser]_parserVars PROVE ParserInv'
<1>1. EndRead \/ (\E rest \in {<<>>, <<"H">>, End \o <<"1">>} : Complete(rest)) \/ UNCHANGED parserVars
        => UNCHANGED <<state, input>> /\ read' \in {read, <<>>} /\ result' \in {result, "thrown"}
  BY DEF EndRead, Complete, parserVars
<1> QED BY <1>1, ConsumeKeeps, ReadEnds DEF NextParser

(* The four bytes from i on are the end of the headers.                     *)
LEMMA EndBytes ==
  /\ End \in Seq(Symbols) /\ Len(End) = 4
  /\ End[1] = "CR" /\ End[2] = "LF" /\ End[3] = "CR" /\ End[4] = "LF"
<1>1. "CR" \in Symbols /\ "LF" \in Symbols
  BY DEF Symbols, Ctl
<1>2. CRLF \in Seq(Symbols) /\ Len(CRLF) = 2 /\ CRLF[1] = "CR" /\ CRLF[2] = "LF"
  BY <1>1 DEF CRLF
<1> HIDE DEF CRLF
<1>3. /\ End \in Seq(Symbols) /\ Len(End) = Len(CRLF) + Len(CRLF)
      /\ \A i \in 1 .. Len(CRLF) + Len(CRLF) :
           End[i] = IF i <= Len(CRLF) THEN CRLF[i] ELSE CRLF[i - Len(CRLF)]
  <2>1. End = CRLF \o CRLF
    BY DEF End
  <2> HIDE DEF End
  <2> QED BY <1>2, <2>1, ConcatProperties
<1> HIDE DEF End
<1> QED BY <1>2, <1>3

(* A part of four bytes is the end of the headers just where EndAt says.    *)
LEMMA EndIs ==
  ASSUME NEW s \in Seq(Symbols), NEW i \in 1 .. Len(s), i + 3 <= Len(s)
  PROVE  SubSeq(s, i, i + 3) = End <=> EndAt(s, i)
<1> DEFINE sub == SubSeq(s, i, i + 3)
<1>1. \A j \in i .. (i + 3) : s[j] \in Symbols
  OBVIOUS
<1>2. /\ sub \in Seq(Symbols) /\ Len(sub) = 4
      /\ \A j \in 1 .. 4 : sub[j] = s[i + j - 1]
  <2>1. i \in Int /\ i + 3 \in Int /\ i <= i + 3 /\ i + 3 - i + 1 = 4
    OBVIOUS
  <2> DEFINE k == i + 3
  <2>2. k \in Int /\ i <= k /\ k - i + 1 = 4 /\ \A j \in i .. k : s[j] \in Symbols
    BY <1>1, <2>1
  <2> HIDE DEF k
  <2>3. /\ SubSeq(s, i, k) \in Seq(Symbols) /\ Len(SubSeq(s, i, k)) = k - i + 1
        /\ \A j \in 1 .. k - i + 1 : SubSeq(s, i, k)[j] = s[i + j - 1]
    BY <2>1, <2>2, SubSeqProperties
  <2> QED BY <2>2, <2>3 DEF k
<1> HIDE DEF sub
<1>3. sub[1] = s[i] /\ sub[2] = s[i + 1] /\ sub[3] = s[i + 2] /\ sub[4] = s[i + 3]
  BY <1>2
<1>4. ASSUME EndAt(s, i) PROVE sub = End
  <2>1. \A j \in 1 .. 4 : j = 1 \/ j = 2 \/ j = 3 \/ j = 4
    OBVIOUS
  <2>2. \A j \in 1 .. 4 : sub[j] = End[j]
    BY <1>3, <1>4, <2>1, EndBytes DEF EndAt
  <2> QED BY <1>2, <2>2, EndBytes, SeqEqual
<1>5. ASSUME sub = End PROVE EndAt(s, i)
  BY <1>3, <1>5, EndBytes DEF EndAt
<1> QED BY <1>4, <1>5 DEF sub

(* The second of two sequences follows the first.                           *)
LEMMA AfterFirst ==
  ASSUME NEW S, NEW a \in Seq(S), NEW b \in Seq(S)
  PROVE  \A i \in 1 .. Len(b) : (a \o b)[Len(a) + i] = b[i]
<1> TAKE i \in 1 .. Len(b)
<1> DEFINE j == Len(a) + i
<1>1. j \in 1 .. Len(a) + Len(b) /\ ~(j <= Len(a)) /\ j - Len(a) = i
  OBVIOUS
<1>2. \A k \in 1 .. Len(a) + Len(b) : (a \o b)[k] = IF k <= Len(a) THEN a[k] ELSE b[k - Len(a)]
  BY ConcatProperties, Zenon
<1> HIDE DEF j
<1>3. (a \o b)[j] = b[i]
  BY <1>1, <1>2
<1> QED BY <1>3 DEF j

(* The first end of the headers in a read is the last one of the input.     *)
LEMMA BodyIs ==
  ASSUME ParserInv, result = "good", Len(read) >= 4, NEW rest \in Seq(Symbols)
  PROVE  BodyOf(read \o rest) = rest
<1> DEFINE s == read \o rest
           m == Len(read)
           n == Len(input)
           x == {i \in DOMAIN s : i + 3 <= Len(s) /\ SubSeq(s, i, i + 3) = End}
<1>1. /\ s \in Seq(Symbols) /\ Len(s) = m + Len(rest) /\ m \in Nat /\ Len(rest) \in Nat /\ n \in Nat
      /\ \A i \in 1 .. m : s[i] = read[i] /\ s[i] = input[n - m + i]
      /\ \A i \in 1 .. Len(rest) : s[m + i] = rest[i]
      /\ DOMAIN s = 1 .. Len(s)
  <2>1. read \in Seq(Symbols) /\ input \in Seq(Symbols)
    BY DEF ParserInv, ReadIsLast
  <2>2. m \in Nat /\ Len(rest) \in Nat /\ n \in Nat
    BY <2>1
  <2>3. /\ s \in Seq(Symbols) /\ Len(s) = m + Len(rest)
        /\ \A i \in 1 .. (m + Len(rest)) : s[i] = IF i <= m THEN read[i] ELSE rest[i - m]
    BY <2>1, ConcatProperties
  <2> HIDE DEF s
  <2>4. DOMAIN s = 1 .. Len(s)
    BY <2>3
  <2>5. \A i \in 1 .. m : s[i] = read[i] /\ s[i] = input[n - m + i]
    BY <2>2, <2>3 DEF ParserInv, ReadIsLast
  <2>6. \A i \in 1 .. Len(rest) : s[m + i] = rest[i]
    BY <2>1, AfterFirst DEF s
  <2> QED BY <2>2, <2>3, <2>4, <2>5, <2>6
<1>2. m >= 4 /\ m <= n
  BY DEF ParserInv, ReadIsLast
<1> HIDE DEF s
<1>3. \A i \in x : i \in 1 .. (m + Len(rest)) /\ EndAt(s, i)
  BY <1>1, EndIs
<1>4. EndAt(s, m - 3)
  <2>1. EndAt(input, n - 3)
    BY DEF ParserInv, EndsOnce
  <2>2. /\ m - 3 \in 1 .. m /\ m - 2 \in 1 .. m /\ m - 1 \in 1 .. m /\ m \in 1 .. m
    BY <1>1, <1>2
  <2>3. /\ n - m + (m - 3) = n - 3 /\ n - m + (m - 2) = (n - 3) + 1
        /\ n - m + (m - 1) = (n - 3) + 2 /\ n - m + m = (n - 3) + 3
        /\ m - 2 = (m - 3) + 1 /\ m - 1 = (m - 3) + 2 /\ m = (m - 3) + 3
    BY <1>1
  <2> HIDE DEF m, n
  <2>4. s[m - 3] = input[n - 3] /\ s[(m - 3) + 1] = input[(n - 3) + 1]
    BY <1>1, <2>2, <2>3
  <2>5. s[(m - 3) + 2] = input[(n - 3) + 2] /\ s[(m - 3) + 3] = input[(n - 3) + 3]
    BY <1>1, <2>2, <2>3
  <2> QED BY <2>1, <2>4, <2>5 DEF EndAt
<1>5. m - 3 \in x
  <2>1. m - 3 \in 1 .. Len(s) /\ (m - 3) + 3 <= Len(s)
    BY <1>1, <1>2
  <2>2. SubSeq(s, m - 3, (m - 3) + 3) = End
    BY <1>1, <1>4, <2>1, EndIs
  <2> QED BY <1>1, <2>1, <2>2
<1>6. \A i \in 1 .. (m - 4) : ~EndAt(s, i)
  <2> TAKE i \in 1 .. (m - 4)
  <2>1. n - m + i \in 1 .. (n - 4)
    BY <1>1, <1>2
  <2>2. ~EndAt(input, n - m + i)
    BY <2>1 DEF ParserInv, EndsOnce
  <2>3. i \in 1 .. m /\ i + 1 \in 1 .. m /\ i + 2 \in 1 .. m /\ i + 3 \in 1 .. m
    BY <1>1
  <2>4. /\ s[i] = input[n - m + i] /\ s[i + 1] = input[(n - m + i) + 1]
        /\ s[i + 2] = input[(n - m + i) + 2] /\ s[i + 3] = input[(n - m + i) + 3]
    <3>1. /\ n - m + (i + 1) = (n - m + i) + 1 /\ n - m + (i + 2) = (n - m + i) + 2
          /\ n - m + (i + 3) = (n - m + i) + 3
      BY <1>1
    <3> HIDE DEF m, n
    <3> QED BY <1>1, <2>3, <3>1
  <2> QED BY <2>2, <2>4 DEF EndAt
<1>7. \A i \in x : m - 3 <= i
  <2> TAKE i \in x
  <2> HIDE DEF x, m
  <2>1. i \in 1 .. (m + Len(rest)) /\ i \notin 1 .. (m - 4)
    BY <1>3, <1>6
  <2> QED BY <1>1, <2>1
<1> HIDE DEF x
<1>8. (CHOOSE i \in x : \A j \in x : i <= j) = m - 3
  <2>1. \A i \in x : (\A j \in x : i <= j) => i = m - 3
    BY <1>1, <1>3, <1>5, <1>7
  <2> QED BY <1>5, <1>7, <2>1
<1>9. BodyOf(s) = SubSeq(s, m + 1, Len(s))
  <2>1. x # {} /\ (m - 3) + 3 = m
    BY <1>1, <1>5
  <2> HIDE DEF m
  <2> QED BY <1>8, <2>1 DEF BodyOf, x
<1>10. SubSeq(s, m + 1, Len(s)) = rest
  <2> DEFINE sub == SubSeq(s, m + 1, Len(s))
  <2>1. \A i \in (m + 1) .. Len(s) : s[i] \in Symbols
    BY <1>1
  <2>2. /\ sub \in Seq(Symbols) /\ Len(sub) = Len(rest)
        /\ \A i \in 1 .. Len(rest) : sub[i] = s[(m + 1) + i - 1]
    BY <1>1, <2>1, SubSeqProperties
  <2> HIDE DEF sub
  <2>3. \A i \in 1 .. Len(rest) : sub[i] = rest[i]
    <3>1. \A i \in 1 .. Len(rest) : (m + 1) + i - 1 = m + i
      BY <1>1
    <3> HIDE DEF m
    <3> QED BY <1>1, <2>2, <3>1
  <2>4. sub = rest
    BY <2>2, <2>3, SeqEqual
  <2> QED BY <2>4 DEF sub
<1> QED BY <1>9, <1>10 DEF s

(* The body is what comes after the end of the headers, for requests of any *)
(* length in any reads of which the last has the whole end.                 *)
THEOREM BodyIsFound == InitParser /\ [][NextParser]_parserVars => BodyFollows
<1>1. ASSUME ParserInv, [NextParser]_parserVars
      PROVE  [\A rest \in {<<>>, <<"H">>, End \o <<"1">>} :
                Complete(rest) /\ Len(read) >= 4 => body' = rest]_parserVars
  <2> SUFFICES ASSUME NEW rest \in {<<>>, <<"H">>, End \o <<"1">>}, Complete(rest), Len(read) >= 4
               PROVE  body' = rest
    OBVIOUS
  <2>1. rest \in Seq(Symbols)
    <3>1. <<>> \in Seq(Symbols) /\ <<"H">> \in Seq(Symbols) /\ <<"1">> \in Seq(Symbols)
      BY DEF Symbols
    <3>2. End \o <<"1">> \in Seq(Symbols)
      BY <3>1, EndBytes, ConcatProperties
    <3> QED BY <3>1, <3>2
  <2>2. result = "good" /\ body' = BodyOf(read \o rest)
    BY DEF Complete
  <2>3. BodyOf(read \o rest) = rest
    BY <1>1, <2>1, <2>2, BodyIs
  <2> QED BY <2>2, <2>3
<1> QED BY <1>1, ParserInit, ParserStep, PTL DEF BodyFollows

USE ParserAssumption DEF ParserAssumption

-----------------------------------------------------------------------------
(* Texts that follow each other.                                            *)
LEMMA ConcatTexts ==
  \A t \in Seq(Symbols), u \in Seq(Symbols), v \in Seq(Symbols) : t \o (u \o v) = (t \o u) \o v
<1> SUFFICES ASSUME NEW t \in Seq(Symbols), NEW u \in Seq(Symbols), NEW v \in Seq(Symbols)
             PROVE  t \o (u \o v) = (t \o u) \o v
  OBVIOUS
<1> QED BY ConcatAssociative

(* What is appended to the second part of a text is appended to the text.   *)
LEMMA AppendLast ==
  \A t \in Seq(Symbols), v \in Seq(Symbols), c \in Symbols : Append(t \o v, c) = t \o Append(v, c)
<1> SUFFICES ASSUME NEW a \in Seq(Symbols), NEW b \in Seq(Symbols), NEW c \in Symbols
             PROVE  Append(a \o b, c) = a \o Append(b, c)
  OBVIOUS
<1>1. <<c>> \in Seq(Symbols) /\ a \o b \in Seq(Symbols)
  BY ConcatProperties
<1>2. Append(b, c) = b \o <<c>>
  BY AppendIsConcat, Zenon
<1>3. Append(a \o b, c) = (a \o b) \o <<c>>
  BY <1>1, AppendIsConcat, Zenon
<1>4. (a \o b) \o <<c>> = a \o (b \o <<c>>)
  <2> DEFINE e == <<c>>
  <2>1. e \in Seq(Symbols)
    BY <1>1
  <2> HIDE DEF e
  <2>2. (a \o b) \o e = a \o (b \o e)
    BY <2>1, ConcatAssociative
  <2> QED BY <2>2 DEF e
<1> QED BY <1>2, <1>3, <1>4, Zenon

(* Two symbols are appended one after the other.                            *)
LEMMA AppendTwo ==
  ASSUME NEW a \in Seq(Symbols), NEW c \in Symbols, NEW d \in Symbols
  PROVE  a \o <<c, d>> = Append(Append(a, c), d)
<1>1. <<c, d>> = Append(<<c>>, d)
  OBVIOUS
<1>2. <<c>> \in Seq(Symbols) /\ a \o <<c>> = Append(a, c)
  BY AppendIsConcat
<1>3. Append(a \o <<c>>, d) = a \o Append(<<c>>, d)
  BY <1>2, AppendLast
<1> QED BY <1>1, <1>2, <1>3

(* The next element is appended to the first ones.                          *)
LEMMA AppendNext ==
  ASSUME NEW S, NEW s \in Seq(S), NEW k \in Nat, k + 1 \in 1 .. Len(s)
  PROVE  SubSeq(s, 1, k) \in Seq(S) /\ Append(SubSeq(s, 1, k), s[k + 1]) = SubSeq(s, 1, k + 1)
<1>1. /\ SubSeq(s, 1, k) \in Seq(S) /\ Len(SubSeq(s, 1, k)) = k
      /\ \A i \in 1 .. k : SubSeq(s, 1, k)[i] = s[i]
  OBVIOUS
<1>2. /\ SubSeq(s, 1, k + 1) \in Seq(S) /\ Len(SubSeq(s, 1, k + 1)) = k + 1
      /\ \A i \in 1 .. (k + 1) : SubSeq(s, 1, k + 1)[i] = s[i]
  OBVIOUS
<1> DEFINE a == SubSeq(s, 1, k)
           b == SubSeq(s, 1, k + 1)
<1> HIDE DEF a, b
<1>3. s[k + 1] \in S
  OBVIOUS
<1>4. Append(a, s[k + 1]) \in Seq(S) /\ Len(Append(a, s[k + 1])) = k + 1
  BY <1>1, <1>3 DEF a
<1>5. \A i \in 1 .. (k + 1) : Append(a, s[k + 1])[i] = b[i]
  BY <1>1, <1>2, <1>3 DEF a, b
<1>6. Append(a, s[k + 1]) = b
  BY <1>2, <1>4, <1>5, SeqEqual DEF b
<1> QED BY <1>1, <1>6 DEF a, b

(* The elements at the end of a sequence, and the others.                   *)
LEMMA AppendElements ==
  ASSUME NEW S, NEW s \in Seq(S), NEW c \in S
  PROVE  /\ Append(s, c) \in Seq(S) /\ Len(Append(s, c)) = Len(s) + 1
         /\ Append(s, c)[Len(s) + 1] = c
         /\ \A i \in 1 .. Len(s) : Append(s, c)[i] = s[i]
OBVIOUS

(* A sequence goes on with another.                                         *)
Continues(t, s) == Len(s) <= Len(t) /\ \A i \in 1 .. Len(s) : t[i] = s[i]

(* A sequence goes on with what is added to it.                             *)
LEMMA ConcatContinues ==
  ASSUME NEW S, NEW a \in Seq(S), NEW b \in Seq(S)
  PROVE  Continues(a \o b, a)
<1>1. Len(a \o b) = Len(a) + Len(b) /\ Len(a) \in Nat /\ Len(b) \in Nat
  BY ConcatProperties
<1>2. \A i \in 1 .. Len(a) + Len(b) : (a \o b)[i] = IF i <= Len(a) THEN a[i] ELSE b[i - Len(a)]
  BY ConcatProperties, Zenon
<1> QED BY <1>1, <1>2 DEF Continues

(* And so does one that is appended to.                                     *)
LEMMA AppendContinues ==
  ASSUME NEW S, NEW a \in Seq(S), NEW c \in S
  PROVE  Continues(Append(a, c), a)
BY DEF Continues

(* What goes on with a sequence goes on with what that begins with.         *)
LEMMA ContinuesOn ==
  ASSUME NEW S, NEW a \in Seq(S), NEW b \in Seq(S), NEW c \in Seq(S), Continues(c, b), Continues(b, a)
  PROVE  Continues(c, a)
<1>1. Len(a) \in Nat /\ Len(b) \in Nat /\ Len(c) \in Nat
  OBVIOUS
<1>2. \A i \in 1 .. Len(a) : i \in 1 .. Len(b)
  BY <1>1 DEF Continues
<1> QED BY <1>1, <1>2 DEF Continues

(* The prefixes of a sequence are those that it goes on from.               *)
LEMMA PrefixesAre ==
  ASSUME NEW S, NEW t \in Seq(S), NEW s \in Seq(S)
  PROVE  s \in Prefixes(t) <=> Continues(t, s)
<1>1. ASSUME Continues(t, s) PROVE s \in Prefixes(t)
  <2>1. Len(s) \in 0 .. Len(t)
    BY <1>1 DEF Continues
  <2>2. s = SubSeq(t, 1, Len(s))
    BY <1>1, <2>1 DEF Continues
  <2>3. s = [i \in 1 .. Len(s) |-> t[i]]
    BY <1>1 DEF Continues
  <2> QED BY <2>1, <2>2, <2>3 DEF Prefixes
<1>2. ASSUME s \in Prefixes(t) PROVE Continues(t, s)
  BY <1>2 DEF Prefixes, Continues
<1> QED BY <1>1, <1>2

-----------------------------------------------------------------------------
(* The requests and the room their fields take.                             *)
RequestType ==
  [method : Seq(Symbols), uri : Seq(Symbols), headers : Seq(Seq(Symbols) \X Seq(Symbols))]

(* The sum that TextOf speaks of exists.                                    *)
LEMMA TextIs ==
  ASSUME NEW r, Len(r.headers) \in Nat
  PROVE  \E sum : /\ sum[0] = Len(r.method) + Len(r.uri)
                  /\ \A n \in 1 .. Len(r.headers) :
                       sum[n] = sum[n - 1] + Len(r.headers[n][1]) + Len(r.headers[n][2])
                  /\ TextOf(r) = sum[Len(r.headers)]
<1> DEFINE L == Len(r.headers)
           next(g, n) == IF n = 0 THEN Len(r.method) + Len(r.uri)
                         ELSE g[n - 1] + Len(r.headers[n][1]) + Len(r.headers[n][2])
           sum == CHOOSE g : g = [n \in 0 .. L |-> next(g, n)]
           A == {m \in Nat : \E g : g = [n \in 0 .. m |-> next(g, n)]}
<1>1. TextOf(r) = sum[L]
  BY DEF TextOf
<1>2. Nat \subseteq A
  <2>1. 0 \in A
    <3> DEFINE g == [n \in 0 .. 0 |-> Len(r.method) + Len(r.uri)]
    <3>1. \A n \in 0 .. 0 : n = 0
      OBVIOUS
    <3>2. g = [n \in 0 .. 0 |-> next(g, n)]
      BY <3>1
    <3> QED BY <3>2
  <2>2. ASSUME NEW m \in Nat, m \in A PROVE m + 1 \in A
    <3>1. PICK g : g = [n \in 0 .. m |-> next(g, n)]
      BY <2>2
    <3> DEFINE h == [n \in 0 .. (m + 1) |-> next(g, n)]
    <3>2. \A n \in 0 .. m : h[n] = g[n]
      <4>1. \A n \in 0 .. m : n \in 0 .. (m + 1)
        OBVIOUS
      <4>2. \A n \in 0 .. m : g[n] = next(g, n)
        BY <3>1
      <4> HIDE DEF next
      <4> QED BY <4>1, <4>2
    <3>3. \A n \in 0 .. (m + 1) : next(h, n) = next(g, n)
      <4> HIDE DEF h
      <4>1. \A n \in 0 .. (m + 1) : n # 0 => n - 1 \in 0 .. m
        OBVIOUS
      <4> QED BY <3>2, <4>1
    <3>4. h = [n \in 0 .. (m + 1) |-> next(h, n)]
      <4> HIDE DEF next
      <4>1. h = [n \in 0 .. (m + 1) |-> next(g, n)]
        OBVIOUS
      <4> HIDE DEF h
      <4> QED BY <3>3, <4>1
    <3> HIDE DEF h, next
    <3>5. \E f : f = [n \in 0 .. (m + 1) |-> next(f, n)]
      BY <3>4
    <3> QED BY <3>5
  <2> HIDE DEF A
  <2> QED BY <2>1, <2>2, Induction
<1>3. sum = [n \in 0 .. L |-> next(sum, n)]
  <2>1. \E g : g = [n \in 0 .. L |-> next(g, n)]
    BY <1>2
  <2> HIDE DEF next
  <2> QED BY <2>1
<1> HIDE DEF sum
<1>4. sum[0] = Len(r.method) + Len(r.uri)
  BY <1>3
<1>5. ASSUME NEW n \in 1 .. L
      PROVE  sum[n] = sum[n - 1] + Len(r.headers[n][1]) + Len(r.headers[n][2])
  <2>1. n \in 0 .. L /\ n # 0
    OBVIOUS
  <2> QED BY <1>3, <2>1
<1> QED BY <1>1, <1>4, <1>5

(* A header that is added adds its name and its value.                      *)
LEMMA WithHeaderType ==
  ASSUME NEW r \in RequestType, NEW name \in Seq(Symbols), NEW value \in Seq(Symbols)
  PROVE  LET s == WithHeader(r, name, value) IN
         /\ s \in RequestType /\ s.method = r.method /\ s.uri = r.uri
         /\ s.headers = Append(r.headers, <<name, value>>)
         /\ Len(r.headers) \in Nat /\ Len(s.headers) = Len(r.headers) + 1
         /\ s.headers[Len(r.headers) + 1] = <<name, value>>
         /\ \A n \in 1 .. Len(r.headers) : s.headers[n] = r.headers[n]
<1> DEFINE s == WithHeader(r, name, value)
           h == r.headers
           e == <<name, value>>
           P == Seq(Symbols) \X Seq(Symbols)
<1>1. h \in Seq(P) /\ e \in P
  BY DEF RequestType
<1>2. s = [r EXCEPT !.headers = Append(h, e)]
  BY DEF WithHeader
<1>3. /\ Append(h, e) \in Seq(P) /\ Len(h) \in Nat /\ Len(Append(h, e)) = Len(h) + 1
      /\ Append(h, e)[Len(h) + 1] = e
      /\ \A n \in 1 .. Len(h) : Append(h, e)[n] = h[n]
  <2> HIDE DEF e, h, P
  <2> QED BY <1>1
<1>4. s \in RequestType /\ s.method = r.method /\ s.uri = r.uri /\ s.headers = Append(h, e)
  BY <1>2, <1>3 DEF RequestType
<1> HIDE DEF s
<1>5. s.headers = Append(r.headers, <<name, value>>)
  BY <1>4
<1> QED BY <1>3, <1>4, <1>5 DEF s

(* And the text that they take.                                             *)
LEMMA TextWith ==
  ASSUME NEW r \in RequestType, NEW name \in Seq(Symbols), NEW value \in Seq(Symbols)
  PROVE  TextOf(WithHeader(r, name, value)) = TextOf(r) + Len(name) + Len(value)
<1> DEFINE s == WithHeader(r, name, value)
           L == Len(r.headers)
<1>1. /\ s.method = r.method /\ s.uri = r.uri
      /\ L \in Nat /\ Len(s.headers) = L + 1
      /\ s.headers[L + 1] = <<name, value>>
      /\ \A n \in 1 .. L : s.headers[n] = r.headers[n]
  BY WithHeaderType
<1> HIDE DEF s
<1>2. PICK f : /\ f[0] = Len(r.method) + Len(r.uri)
               /\ \A n \in 1 .. L : f[n] = f[n - 1] + Len(r.headers[n][1]) + Len(r.headers[n][2])
               /\ TextOf(r) = f[L]
  BY <1>1, TextIs, Zenon
<1>3. PICK g : /\ g[0] = Len(s.method) + Len(s.uri)
               /\ \A n \in 1 .. (L + 1) : g[n] = g[n - 1] + Len(s.headers[n][1]) + Len(s.headers[n][2])
               /\ TextOf(s) = g[L + 1]
  <2>1. Len(s.headers) \in Nat
    BY <1>1
  <2>2. \E g : /\ g[0] = Len(s.method) + Len(s.uri)
               /\ \A n \in 1 .. Len(s.headers) :
                    g[n] = g[n - 1] + Len(s.headers[n][1]) + Len(s.headers[n][2])
               /\ TextOf(s) = g[Len(s.headers)]
    BY <2>1, TextIs, Zenon
  <2> QED BY <1>1, <2>2, Zenon
<1> DEFINE S == {n \in Nat : n <= L => g[n] = f[n]}
<1>4. 0 \in S
  BY <1>1, <1>2, <1>3
<1>5. ASSUME NEW n \in Nat, n \in S PROVE n + 1 \in S
  <2> SUFFICES ASSUME n + 1 <= L PROVE g[n + 1] = f[n + 1]
    OBVIOUS
  <2>1. n + 1 \in 1 .. L /\ n + 1 \in 1 .. (L + 1) /\ n + 1 - 1 = n /\ g[n] = f[n]
    BY <1>1, <1>5
  <2> HIDE DEF L, S
  <2>2. f[n + 1] = f[n] + Len(r.headers[n + 1][1]) + Len(r.headers[n + 1][2])
    BY <1>2, <2>1
  <2>3. g[n + 1] = g[n] + Len(s.headers[n + 1][1]) + Len(s.headers[n + 1][2])
    BY <1>3, <2>1
  <2>4. s.headers[n + 1] = r.headers[n + 1]
    BY <1>1, <2>1
  <2> QED BY <2>1, <2>2, <2>3, <2>4
<1>6. Nat \subseteq S
  <2> HIDE DEF S
  <2> QED BY <1>4, <1>5, Induction
<1>7. g[L] = f[L]
  BY <1>1, <1>6
<1>8. L + 1 \in 1 .. (L + 1) /\ L + 1 - 1 = L
  BY <1>1
<1> HIDE DEF L, S
<1>9. g[L + 1] = g[L] + Len(s.headers[L + 1][1]) + Len(s.headers[L + 1][2])
  <2> DEFINE M == L + 1
  <2>1. M \in 1 .. M /\ M - 1 = L
    BY <1>1, <1>8
  <2>2. \A n \in 1 .. M : g[n] = g[n - 1] + Len(s.headers[n][1]) + Len(s.headers[n][2])
    BY <1>3
  <2> HIDE DEF M
  <2>3. g[M] = g[M - 1] + Len(s.headers[M][1]) + Len(s.headers[M][2])
    BY <2>1, <2>2
  <2>4. g[M] = g[L] + Len(s.headers[M][1]) + Len(s.headers[M][2])
    BY <2>1, <2>3
  <2> QED BY <2>4 DEF M
<1>10. s.headers[L + 1][1] = name /\ s.headers[L + 1][2] = value
  BY <1>1
<1>11. TextOf(s) = TextOf(r) + Len(name) + Len(value)
  BY <1>2, <1>3, <1>7, <1>9, <1>10
<1> QED BY <1>11 DEF s

(* A request takes some room.                                               *)
LEMMA TextType == ASSUME NEW r \in RequestType PROVE TextOf(r) \in Nat
<1>0. Len(r.method) \in Nat /\ Len(r.uri) \in Nat
  BY DEF RequestType
<1>1. /\ Len(r.headers) \in Nat
      /\ \A n \in 1 .. Len(r.headers) : Len(r.headers[n][1]) \in Nat /\ Len(r.headers[n][2]) \in Nat
  <2>1. r.headers \in Seq(Seq(Symbols) \X Seq(Symbols)) /\ r.method \in Seq(Symbols) /\ r.uri \in Seq(Symbols)
    BY DEF RequestType
  <2>2. \A n \in 1 .. Len(r.headers) : r.headers[n] \in Seq(Symbols) \X Seq(Symbols)
    BY <2>1
  <2>3. \A x \in Seq(Symbols) : Len(x) \in Nat
    OBVIOUS
  <2>4. \A x \in Seq(Symbols) \X Seq(Symbols) : Len(x[1]) \in Nat /\ Len(x[2]) \in Nat
    BY <2>3
  <2>5. Len(r.headers) \in Nat
    BY <2>1
  <2> QED BY <2>1, <2>2, <2>3, <2>4, <2>5, Zenon
<1>2. PICK f : /\ f[0] = Len(r.method) + Len(r.uri)
               /\ \A n \in 1 .. Len(r.headers) : f[n] = f[n - 1] + Len(r.headers[n][1]) + Len(r.headers[n][2])
               /\ TextOf(r) = f[Len(r.headers)]
  BY <1>1, TextIs, Zenon
<1> DEFINE S == {n \in Nat : n <= Len(r.headers) => f[n] \in Nat}
<1>3. 0 \in S
  <2>1. f[0] \in Nat
    <3>1. \A x \in Nat, y \in Nat : x + y \in Nat
      OBVIOUS
    <3> QED BY <1>0, <1>2, <3>1, Zenon
  <2> QED BY <2>1
<1>4. ASSUME NEW n \in Nat, n \in S PROVE n + 1 \in S
  <2> SUFFICES ASSUME n + 1 <= Len(r.headers) PROVE f[n + 1] \in Nat
    OBVIOUS
  <2> DEFINE m == n + 1
  <2>1. m \in 1 .. Len(r.headers) /\ m - 1 = n /\ f[n] \in Nat
    BY <1>1, <1>4
  <2> HIDE DEF m, S
  <2>2. f[m] = f[n] + Len(r.headers[m][1]) + Len(r.headers[m][2])
    BY <1>2, <2>1
  <2>3. Len(r.headers[m][1]) \in Nat /\ Len(r.headers[m][2]) \in Nat
    BY <1>1, <2>1
  <2>4. f[m] \in Nat
    <3>1. \A x \in Nat, y \in Nat, z \in Nat : x + y + z \in Nat
      OBVIOUS
    <3>2. f[n] \in Nat /\ Len(r.headers[m][1]) \in Nat /\ Len(r.headers[m][2]) \in Nat
      BY <2>1, <2>3
    <3>3. f[n] + Len(r.headers[m][1]) + Len(r.headers[m][2]) \in Nat
      BY <3>1, <3>2
    <3> QED BY <2>2, <3>3
  <2> QED BY <2>4 DEF m
<1>5. Nat \subseteq S
  <2> HIDE DEF S
  <2> QED BY <1>3, <1>4, Induction
<1> QED BY <1>1, <1>2, <1>5

(* Without headers a request takes that of its first line.                  *)
LEMMA TextWithout ==
  ASSUME NEW r \in RequestType, r.headers = <<>>
  PROVE  TextOf(r) = Len(r.method) + Len(r.uri)
<1>1. Len(r.headers) = 0
  OBVIOUS
<1> QED BY <1>1, TextIs

(* The last header is given another name or value.                          *)
Renamed(r, n, x) == [r EXCEPT !.headers[n][1] = x]
Revalued(r, n, x) == [r EXCEPT !.headers[n][2] = x]

(* The last header is the one that was added, and it alone changes.         *)
LEMMA LastHeader ==
  ASSUME NEW r \in RequestType, NEW name \in Seq(Symbols), NEW value \in Seq(Symbols), NEW x
  PROVE  LET s == WithHeader(r, name, value)
             n == Len(s.headers)
         IN  /\ s.headers[n] = <<name, value>>
             /\ Renamed(s, n, x) = WithHeader(r, x, value)
             /\ Revalued(s, n, x) = WithHeader(r, name, x)
<1> DEFINE s == WithHeader(r, name, value)
           L == Len(r.headers)
           h == s.headers
<1>1. /\ s \in RequestType
      /\ h = Append(r.headers, <<name, value>>)
      /\ L \in Nat /\ Len(h) = L + 1
      /\ h[L + 1] = <<name, value>>
      /\ \A n \in 1 .. L : h[n] = r.headers[n]
  BY WithHeaderType
<1>2. ASSUME NEW y, NEW z
      PROVE  [s EXCEPT !.headers[L + 1] = <<y, z>>] = WithHeader(r, y, z)
  <2>1. [h EXCEPT ![L + 1] = <<y, z>>] = Append(r.headers, <<y, z>>)
    <3> DEFINE a == [h EXCEPT ![L + 1] = <<y, z>>]
               e == <<y, z>>
               b == Append(r.headers, e)
               P == Seq(Symbols) \X Seq(Symbols)
    <3>1. r.headers \in Seq(P) /\ h \in Seq(P)
      BY <1>1 DEF RequestType
    <3> HIDE DEF s, e, P
    <3>2. b \in Seq(P \cup {e}) /\ Len(b) = L + 1 /\ b[L + 1] = e /\ \A n \in 1 .. L : b[n] = r.headers[n]
      BY <3>1
    <3>3. h = [i \in 1 .. (L + 1) |-> h[i]]
      BY <1>1, <3>1
    <3>4. a = [i \in 1 .. (L + 1) |-> IF i = L + 1 THEN e ELSE h[i]]
      BY <3>3 DEF e
    <3>5. b = [i \in 1 .. (L + 1) |-> b[i]]
      BY <3>2
    <3>6. \A i \in 1 .. (L + 1) : b[i] = IF i = L + 1 THEN e ELSE h[i]
      BY <1>1, <3>2
    <3> HIDE DEF b
    <3>7. a = b
      BY <3>4, <3>5, <3>6
    <3> QED BY <3>7 DEF b, e
  <2>2. [s EXCEPT !.headers[L + 1] = <<y, z>>] = [s EXCEPT !.headers = Append(r.headers, <<y, z>>)]
    BY <2>1
  <2>3. s = [r EXCEPT !.headers = Append(r.headers, <<name, value>>)]
    BY DEF WithHeader
  <2>4. [s EXCEPT !.headers = Append(r.headers, <<y, z>>)] = [r EXCEPT !.headers = Append(r.headers, <<y, z>>)]
    BY <2>3 DEF RequestType
  <2> QED BY <2>2, <2>4 DEF WithHeader
<1>3. ASSUME NEW y
      PROVE  /\ [s EXCEPT !.headers[L + 1][1] = y] = [s EXCEPT !.headers[L + 1] = <<y, value>>]
             /\ [s EXCEPT !.headers[L + 1][2] = y] = [s EXCEPT !.headers[L + 1] = <<name, y>>]
  <2>1. [h[L + 1] EXCEPT ![1] = y] = <<y, value>> /\ [h[L + 1] EXCEPT ![2] = y] = <<name, y>>
    <3>1. h[L + 1] = <<name, value>>
      BY <1>1
    <3>2. [<<name, value>> EXCEPT ![1] = y] = <<y, value>> /\ [<<name, value>> EXCEPT ![2] = y] = <<name, y>>
      OBVIOUS
    <3> HIDE DEF h, L
    <3> QED BY <3>1, <3>2
  <2> QED BY <2>1
<1>4. h[L + 1][1] = name /\ h[L + 1][2] = value
  BY <1>1
<1>5. Renamed(s, L + 1, x) = WithHeader(r, x, value) /\ Revalued(s, L + 1, x) = WithHeader(r, name, x)
  BY <1>2, <1>3 DEF Renamed, Revalued
<1> HIDE DEF s
<1>6. L + 1 = Len(s.headers) /\ s.headers[L + 1] = <<name, value>>
  BY <1>1
<1> QED BY <1>5, <1>6 DEF s

(* A value is continued, and a name or a value is added to.                 *)
LEMMA ContinuedIs ==
  ASSUME NEW r \in RequestType, NEW name \in Seq(Symbols), NEW value \in Seq(Symbols), NEW more
  PROVE  Continued(WithHeader(r, name, value), more) = WithHeader(r, name, value \o more)
<1> DEFINE s == WithHeader(r, name, value)
           n == Len(s.headers)
           x == value \o more
<1> HIDE DEF x
<1>1. s.headers[n] = <<name, value>> /\ Revalued(s, n, x) = WithHeader(r, name, x)
  BY LastHeader
<1> HIDE DEF s
<1>2. s.headers[n][2] = value
  BY <1>1
<1>3. Continued(s, more) = Revalued(s, n, x)
  BY <1>2 DEF Continued, Revalued, x
<1>4. Continued(s, more) = WithHeader(r, name, x)
  BY <1>1, <1>3
<1> QED BY <1>4 DEF s, x

(* What consume stores goes to the header that was added last.              *)
LEMMA StoredIs ==
  ASSUME NEW r \in RequestType, NEW name \in Seq(Symbols), NEW value \in Seq(Symbols), NEW c,
         req = WithHeader(r, name, value)
  PROVE  /\ Stored("name", c) = WithHeader(r, Append(name, c), value)
         /\ Stored("value", c) = WithHeader(r, name, Append(value, c))
<1> DEFINE s == WithHeader(r, name, value)
           n == Len(s.headers)
           x == Append(name, c)
           y == Append(value, c)
<1> HIDE DEF x, y
<1>1. /\ s.headers[n] = <<name, value>>
      /\ Renamed(s, n, x) = WithHeader(r, x, value)
      /\ Revalued(s, n, y) = WithHeader(r, name, y)
  BY LastHeader
<1>2. req = s
  OBVIOUS
<1> HIDE DEF s
<1>3. s.headers[n][1] = name /\ s.headers[n][2] = value
  BY <1>1
<1>4. Stored("name", c) = Renamed(s, n, x) /\ Stored("value", c) = Revalued(s, n, y)
  BY <1>2, <1>3 DEF Stored, Renamed, Revalued, x, y
<1>5. Stored("name", c) = WithHeader(r, x, value) /\ Stored("value", c) = WithHeader(r, name, y)
  BY <1>1, <1>4
<1> QED BY <1>5 DEF x, y

-----------------------------------------------------------------------------
(* The grammar: Heads is the function that it is defined by.                *)
LEMMA HeadsAre ==
  ASSUME NEW n \in 0 .. MaxText
  PROVE  /\ n = 0 => Heads[n] = RequestLines
         /\ n = 1 => Heads[n] = Header(RequestLines) \cup Folded(Header(RequestLines))
         /\ n > 1 => Heads[n] = Header(Heads[n - 1])
<1> DEFINE next(g, k) == IF k = 0 THEN RequestLines
                         ELSE IF k = 1 THEN Header(RequestLines) \cup Folded(Header(RequestLines))
                         ELSE Header(g[k - 1])
           A == {m \in Nat : \E g : g = [k \in 0 .. m |-> next(g, k)]}
<1>1. Heads = CHOOSE g : g = [k \in 0 .. MaxText |-> next(g, k)]
  BY DEF Heads
<1>2. Nat \subseteq A
  <2>1. 0 \in A
    <3> DEFINE g == [k \in 0 .. 0 |-> RequestLines]
    <3>1. \A k \in 0 .. 0 : k = 0
      OBVIOUS
    <3>2. g = [k \in 0 .. 0 |-> next(g, k)]
      BY <3>1
    <3> QED BY <3>2
  <2>2. ASSUME NEW m \in Nat, m \in A PROVE m + 1 \in A
    <3>1. PICK g : g = [k \in 0 .. m |-> next(g, k)]
      BY <2>2
    <3> DEFINE h == [k \in 0 .. (m + 1) |-> next(g, k)]
    <3>2. \A k \in 0 .. m : h[k] = g[k]
      <4>1. \A k \in 0 .. m : k \in 0 .. (m + 1)
        OBVIOUS
      <4>2. \A k \in 0 .. m : g[k] = next(g, k)
        BY <3>1
      <4> HIDE DEF next
      <4> QED BY <4>1, <4>2
    <3>3. \A k \in 0 .. (m + 1) : next(h, k) = next(g, k)
      <4> HIDE DEF h
      <4>1. \A k \in 0 .. (m + 1) : k # 0 => k - 1 \in 0 .. m
        OBVIOUS
      <4> QED BY <3>2, <4>1
    <3>4. h = [k \in 0 .. (m + 1) |-> next(h, k)]
      <4> HIDE DEF next
      <4>1. h = [k \in 0 .. (m + 1) |-> next(g, k)]
        OBVIOUS
      <4> HIDE DEF h
      <4> QED BY <3>3, <4>1
    <3> HIDE DEF h, next
    <3>5. \E f : f = [k \in 0 .. (m + 1) |-> next(f, k)]
      BY <3>4
    <3> QED BY <3>5
  <2> HIDE DEF A
  <2> QED BY <2>1, <2>2, Induction
<1>3. Heads = [k \in 0 .. MaxText |-> next(Heads, k)]
  <2>1. \E g : g = [k \in 0 .. MaxText |-> next(g, k)]
    BY <1>2
  <2> HIDE DEF next
  <2> QED BY <1>1, <2>1
<1>4. Heads[n] = next(Heads, n)
  <2> HIDE DEF next
  <2> QED BY <1>3
<1> QED BY <1>4

(* Words are sequences of symbols a client writes, within the bound.        *)
LEMMA WordIs ==
  ASSUME NEW C \in SUBSET Symbols, NEW least \in Nat, NEW w
  PROVE  /\ w \in Words(C, least) <=> w \in Seq(C \cap Written) /\ least <= Len(w) /\ Len(w) <= MaxText
         /\ w \in Words(C, least) => w \in Seq(Symbols) /\ w \in Seq(C) /\ Len(w) \in Nat
<1>1. ASSUME w \in Words(C, least)
      PROVE  w \in Seq(C \cap Written) /\ least <= Len(w) /\ Len(w) <= MaxText
  <2>1. PICK n \in least .. MaxText : w \in [1 .. n -> C \cap Written]
    BY <1>1 DEF Words
  <2>2. n \in Nat
    OBVIOUS
  <2>3. w \in Seq(C \cap Written)
    BY <2>1, <2>2, SeqDef
  <2>4. Len(w) = n
    BY <2>1, <2>2, <2>3
  <2> QED BY <2>1, <2>3, <2>4
<1>2. ASSUME w \in Seq(C \cap Written), least <= Len(w), Len(w) <= MaxText
      PROVE  w \in Words(C, least)
  <2>1. Len(w) \in least .. MaxText /\ w \in [1 .. Len(w) -> C \cap Written]
    BY <1>2
  <2> QED BY <2>1 DEF Words
<1>3. w \in Seq(C \cap Written) => w \in Seq(Symbols) /\ w \in Seq(C) /\ Len(w) \in Nat
  OBVIOUS
<1> QED BY <1>1, <1>2, <1>3

(* The symbols of the grammar.                                              *)
LEMMA SymbolSets ==
  /\ Token \subseteq Text /\ Text \subseteq Symbols /\ Blank \subseteq Symbols
  /\ "CR" \in Symbols /\ "LF" \in Symbols /\ "space" \in Symbols /\ ":" \in Symbols /\ "/" \in Symbols
  /\ "." \in Symbols /\ "1" \in Symbols /\ "H" \in Symbols /\ "T" \in Symbols /\ "P" \in Symbols
  /\ "space" \in Text /\ ":" \notin Token /\ "space" \notin Token
  /\ "CR" \notin Text /\ "LF" \notin Text /\ "tab" \notin Text
BY DEF Token, Text, Blank, Symbols, Ctl, Special

(* The end of a line is appended.                                           *)
LEMMA LineEnd ==
  ASSUME NEW t \in Seq(Symbols)
  PROVE  /\ t \o CRLF = Append(Append(t, "CR"), "LF")
         /\ Append(t, "CR") \in Seq(Symbols) /\ t \o CRLF \in Seq(Symbols)
<1>1. "CR" \in Symbols /\ "LF" \in Symbols
  BY SymbolSets
<1>2. t \o CRLF = Append(Append(t, "CR"), "LF")
  BY <1>1, AppendTwo DEF CRLF
<1> QED BY <1>1, <1>2

(* What headers there are: what a line without headers is, a header after   *)
(* lines, and a continued one.                                              *)
NewRequest(method, uri) == [method |-> method, uri |-> uri, headers |-> <<>>]
UpToVersion(method, uri) == method \o <<"space">> \o uri \o <<"space">>
UpToValue(t, name, value) == t \o name \o <<":", "space">> \o value
UpToFold(t, b, more) == t \o <<b>> \o more

(* A first line, with its method, its uri and its version.                  *)
LEMMA RequestLineIs ==
  ASSUME NEW p
  PROVE  p \in RequestLines <=>
           \E method \in Words(Token, 1), uri \in Words(Text \ {"space"}, 0), version \in Versions :
             /\ p = <<UpToVersion(method, uri) \o version \o CRLF, NewRequest(method, uri)>>
             /\ TextOf(p[2]) <= MaxText
<1> DEFINE triples == Words(Token, 1) \X Words(Text \ {"space"}, 0) \X Versions
<1>1. p \in RequestLines <=>
        \E w \in triples : /\ p = <<UpToVersion(w[1], w[2]) \o w[3] \o CRLF, NewRequest(w[1], w[2])>>
                           /\ TextOf(p[2]) <= MaxText
  BY DEF RequestLines, Within, UpToVersion, NewRequest
<1>2. \A w \in triples : w[1] \in Words(Token, 1) /\ w[2] \in Words(Text \ {"space"}, 0) /\ w[3] \in Versions
  OBVIOUS
<1>3. ASSUME NEW method \in Words(Token, 1), NEW uri \in Words(Text \ {"space"}, 0), NEW version \in Versions
      PROVE  \E w \in triples : w[1] = method /\ w[2] = uri /\ w[3] = version
  <2>1. <<method, uri, version>> \in triples
    OBVIOUS
  <2> DEFINE w == <<method, uri, version>>
  <2>2. w[1] = method /\ w[2] = uri /\ w[3] = version
    OBVIOUS
  <2> HIDE DEF triples
  <2> QED BY <2>1, <2>2
<1> HIDE DEF triples
<1>4. ASSUME p \in RequestLines
      PROVE  \E method \in Words(Token, 1), uri \in Words(Text \ {"space"}, 0), version \in Versions :
               /\ p = <<UpToVersion(method, uri) \o version \o CRLF, NewRequest(method, uri)>>
               /\ TextOf(p[2]) <= MaxText
  <2>1. PICK w \in triples : /\ p = <<UpToVersion(w[1], w[2]) \o w[3] \o CRLF, NewRequest(w[1], w[2])>>
                             /\ TextOf(p[2]) <= MaxText
    BY <1>1, <1>4
  <2> QED BY <1>2, <2>1
<1>5. ASSUME NEW method \in Words(Token, 1), NEW uri \in Words(Text \ {"space"}, 0), NEW version \in Versions,
             p = <<UpToVersion(method, uri) \o version \o CRLF, NewRequest(method, uri)>>,
             TextOf(p[2]) <= MaxText
      PROVE  p \in RequestLines
  <2>1. PICK w \in triples : w[1] = method /\ w[2] = uri /\ w[3] = version
    BY <1>3
  <2>2. p = <<UpToVersion(w[1], w[2]) \o w[3] \o CRLF, NewRequest(w[1], w[2])>>
    BY <1>5, <2>1
  <2> QED BY <1>1, <1>5, <2>2
<1> QED BY <1>4, <1>5

(* A header after lines, with its name and its value.                       *)
LEMMA HeaderIs ==
  ASSUME NEW lines, NEW p
  PROVE  p \in Header(lines) <=>
           \E q \in lines, name \in Words(Token, 1), value \in Words(Text, 0) :
             /\ p = <<UpToValue(q[1], name, value) \o CRLF, WithHeader(q[2], name, value)>>
             /\ TextOf(p[2]) <= MaxText
<1> DEFINE triples == lines \X Words(Token, 1) \X Words(Text, 0)
<1>1. ASSUME p \in Header(lines)
      PROVE  \E q \in lines, name \in Words(Token, 1), value \in Words(Text, 0) :
               /\ p = <<UpToValue(q[1], name, value) \o CRLF, WithHeader(q[2], name, value)>>
               /\ TextOf(p[2]) <= MaxText
  <2>1. PICK w \in triples :
          /\ p = <<UpToValue(w[1][1], w[2], w[3]) \o CRLF, WithHeader(w[1][2], w[2], w[3])>>
          /\ TextOf(p[2]) <= MaxText
    BY <1>1 DEF Header, Within, UpToValue
  <2>2. w[1] \in lines /\ w[2] \in Words(Token, 1) /\ w[3] \in Words(Text, 0)
    OBVIOUS
  <2> QED BY <2>1, <2>2
<1>2. ASSUME NEW q \in lines, NEW name \in Words(Token, 1), NEW value \in Words(Text, 0),
             p = <<UpToValue(q[1], name, value) \o CRLF, WithHeader(q[2], name, value)>>,
             TextOf(p[2]) <= MaxText
      PROVE  p \in Header(lines)
  <2>1. PICK w \in triples : w[1] = q /\ w[2] = name /\ w[3] = value
    <3>1. <<q, name, value>> \in triples
      OBVIOUS
    <3> HIDE DEF triples
    <3> QED BY <3>1
  <2> QED BY <1>2, <2>1 DEF Header, Within, UpToValue
<1> QED BY <1>1, <1>2

(* A line that continues a header, with what it adds.                       *)
LEMMA FoldedIs ==
  ASSUME NEW lines, NEW p
  PROVE  p \in Folded(lines) <=>
           \E q \in lines, b \in Blank, more \in Words(Text, 0) :
             /\ more = <<>> \/ more[1] # "space"
             /\ p = <<UpToFold(q[1], b, more) \o CRLF, Continued(q[2], more)>>
             /\ TextOf(p[2]) <= MaxText
<1> DEFINE continuations == {more \in Words(Text, 0) : more = <<>> \/ more[1] # "space"}
           triples == lines \X Blank \X continuations
<1>1. ASSUME p \in Folded(lines)
      PROVE  \E q \in lines, b \in Blank, more \in continuations :
               /\ p = <<UpToFold(q[1], b, more) \o CRLF, Continued(q[2], more)>>
               /\ TextOf(p[2]) <= MaxText
  <2>1. PICK w \in triples :
          /\ p = <<UpToFold(w[1][1], w[2], w[3]) \o CRLF, Continued(w[1][2], w[3])>>
          /\ TextOf(p[2]) <= MaxText
    BY <1>1 DEF Folded, Within, UpToFold
  <2>2. w[1] \in lines /\ w[2] \in Blank /\ w[3] \in continuations
    <3> HIDE DEF continuations
    <3> QED OBVIOUS
  <2> QED BY <2>1, <2>2
<1>2. ASSUME NEW q \in lines, NEW b \in Blank, NEW more \in continuations,
             p = <<UpToFold(q[1], b, more) \o CRLF, Continued(q[2], more)>>,
             TextOf(p[2]) <= MaxText
      PROVE  p \in Folded(lines)
  <2>1. PICK w \in triples : w[1] = q /\ w[2] = b /\ w[3] = more
    <3> HIDE DEF continuations
    <3>1. <<q, b, more>> \in triples
      OBVIOUS
    <3> HIDE DEF triples
    <3> QED BY <3>1
  <2> QED BY <1>2, <2>1 DEF Folded, Within, UpToFold
<1> QED BY <1>1, <1>2

-----------------------------------------------------------------------------
(* The parts of a text are sequences of symbols, each going on with the one *)
(* before.                                                                  *)
LEMMA UpToType ==
  ASSUME NEW t \in Seq(Symbols), NEW name \in Seq(Symbols), NEW value \in Seq(Symbols), NEW b \in Symbols
  PROVE  /\ UpToVersion(name, value) \in Seq(Symbols)
         /\ UpToValue(t, name, value) \in Seq(Symbols) /\ Continues(UpToValue(t, name, value), t)
         /\ UpToFold(t, b, value) \in Seq(Symbols) /\ Continues(UpToFold(t, b, value), t)
<1>1. "space" \in Symbols /\ ":" \in Symbols
  BY SymbolSets
<1>2. \A s \in Seq(Symbols) : Append(s, "space") \in Seq(Symbols) /\ s \o <<"space">> = Append(s, "space")
  BY <1>1, AppendIsConcat
<1>3. \A s \in Seq(Symbols), u \in Seq(Symbols) : s \o u \in Seq(Symbols) /\ Continues(s \o u, s)
  BY ConcatProperties, ConcatContinues
<1>4. UpToVersion(name, value) \in Seq(Symbols)
  BY <1>2, <1>3 DEF UpToVersion
<1>5. <<":", "space">> \in Seq(Symbols) /\ <<b>> \in Seq(Symbols)
  BY <1>1
<1> DEFINE x == t \o name
           y == x \o <<":", "space">>
           z == t \o <<b>>
<1>6. x \in Seq(Symbols) /\ Continues(x, t)
  BY <1>3
<1> HIDE DEF x
<1>7. y \in Seq(Symbols) /\ Continues(y, x)
  BY <1>3, <1>5, <1>6
<1> HIDE DEF y
<1>8. y \o value \in Seq(Symbols) /\ Continues(y \o value, y)
  BY <1>3, <1>7
<1>9. Continues(y \o value, t)
  BY <1>6, <1>7, <1>8, ContinuesOn
<1>10. UpToValue(t, name, value) = y \o value
  BY DEF UpToValue, x, y
<1>11. z \in Seq(Symbols) /\ Continues(z, t)
  BY <1>3, <1>5
<1> HIDE DEF z
<1>12. z \o value \in Seq(Symbols) /\ Continues(z \o value, z)
  BY <1>3, <1>11
<1>13. Continues(z \o value, t)
  BY <1>11, <1>12, ContinuesOn
<1>14. UpToFold(t, b, value) = z \o value
  BY DEF UpToFold, z
<1> QED BY <1>4, <1>8, <1>9, <1>10, <1>12, <1>13, <1>14

(* The ends of lines in a text.                                             *)
LineFeeds(t) == Cardinality({i \in DOMAIN t : t[i] = "LF"})

(* A text that goes on with another has its ends of lines.                  *)
LEMMA LineFeedsGrow ==
  ASSUME NEW s \in Seq(Symbols), NEW t \in Seq(Symbols), Continues(t, s)
  PROVE  LineFeeds(s) \in Nat /\ LineFeeds(t) \in Nat /\ LineFeeds(s) <= LineFeeds(t)
<1> DEFINE A == {i \in DOMAIN s : s[i] = "LF"}
           B == {i \in DOMAIN t : t[i] = "LF"}
<1>1. A \subseteq B
  BY DEF Continues
<1>2. IsFiniteSet(B)
  <2>1. IsFiniteSet(1 .. Len(t)) /\ B \subseteq 1 .. Len(t)
    BY FS_Interval
  <2> QED BY <2>1, FS_Subset
<1>3. IsFiniteSet(A) /\ Cardinality(A) <= Cardinality(B)
  BY <1>1, <1>2, FS_Subset
<1> QED BY <1>2, <1>3, FS_CardinalityType DEF LineFeeds

(* An end of a line adds one.                                               *)
LEMMA LineFeedsOfLine ==
  ASSUME NEW s \in Seq(Symbols)
  PROVE  LineFeeds(s) \in Nat /\ LineFeeds(Append(s, "LF")) = LineFeeds(s) + 1
<1> DEFINE A == {i \in DOMAIN s : s[i] = "LF"}
           t == Append(s, "LF")
           B == {i \in DOMAIN t : t[i] = "LF"}
           n == Len(s)
<1>1. "LF" \in Symbols /\ n \in Nat
  BY SymbolSets
<1>2. IsFiniteSet(A) /\ A \subseteq 1 .. n
  <2>1. IsFiniteSet(1 .. Len(s)) /\ A \subseteq 1 .. Len(s)
    BY FS_Interval
  <2> QED BY <2>1, FS_Subset
<1>3. t \in Seq(Symbols) /\ Len(t) = n + 1 /\ t[n + 1] = "LF" /\ \A i \in 1 .. n : t[i] = s[i]
  BY <1>1, AppendElements
<1>4. DOMAIN t = 1 .. (n + 1) /\ DOMAIN s = 1 .. n
  BY <1>3
<1> HIDE DEF t, n
<1>5. B = A \cup {n + 1} /\ n + 1 \notin A
  BY <1>1, <1>2, <1>3, <1>4
<1> HIDE DEF A, B
<1>6. Cardinality(B) = Cardinality(A) + 1
  BY <1>2, <1>5, FS_AddElement
<1> QED BY <1>2, <1>6, FS_CardinalityType DEF LineFeeds, A, B, t

(* And so does a line that is closed.                                       *)
LEMMA LineFeedsOfEnd ==
  ASSUME NEW s \in Seq(Symbols), NEW t \in Seq(Symbols), Continues(t, s)
  PROVE  LineFeeds(s) \in Nat /\ LineFeeds(t \o CRLF) \in Nat /\ LineFeeds(t \o CRLF) >= LineFeeds(s) + 1
<1>1. "CR" \in Symbols
  BY SymbolSets
<1>2. t \o CRLF = Append(Append(t, "CR"), "LF") /\ Append(t, "CR") \in Seq(Symbols)
  BY LineEnd
<1>3. Continues(Append(t, "CR"), s)
  BY <1>1, <1>2, AppendContinues, ContinuesOn
<1> DEFINE u == Append(t, "CR")
<1> HIDE DEF u
<1>4. LineFeeds(s) \in Nat /\ LineFeeds(u) \in Nat /\ LineFeeds(s) <= LineFeeds(u)
  BY <1>2, <1>3, LineFeedsGrow DEF u
<1>5. LineFeeds(Append(u, "LF")) = LineFeeds(u) + 1
  BY <1>2, LineFeedsOfLine DEF u
<1>6. LineFeeds(t \o CRLF) = LineFeeds(u) + 1
  BY <1>2, <1>5 DEF u
<1> QED BY <1>4, <1>6

(* What a text with n headers is: it takes at least a symbol for the method *)
(* and for each name.                                                       *)
IsHead(p, n) ==
  /\ p = <<p[1], p[2]>> /\ p[1] \in Seq(Symbols) /\ p[2] \in RequestType /\ Len(p[2].headers) = n
  /\ TextOf(p[2]) \in Nat /\ n < TextOf(p[2]) /\ TextOf(p[2]) <= MaxText
  /\ LineFeeds(p[1]) \in Nat /\ n < LineFeeds(p[1])

(* A request without headers.                                               *)
LEMMA NewRequestType ==
  ASSUME NEW method \in Seq(Symbols), NEW uri \in Seq(Symbols)
  PROVE  /\ NewRequest(method, uri) \in RequestType /\ NewRequest(method, uri).headers = <<>>
         /\ TextOf(NewRequest(method, uri)) = Len(method) + Len(uri)
<1>1. NewRequest(method, uri) \in RequestType /\ NewRequest(method, uri).headers = <<>>
  BY DEF NewRequest, RequestType
<1>2. NewRequest(method, uri).method = method /\ NewRequest(method, uri).uri = uri
  BY DEF NewRequest
<1> QED BY <1>1, <1>2, TextWithout

(* The digits of a number, and the versions.                                *)
LEMMA DigitsAre ==
  /\ \A a : a \in Digits <=> a \in Seq({"1"}) /\ 1 <= Len(a) /\ Len(a) <= MaxDigits
  /\ \A a \in Digits : a \in Seq({"1"}) /\ a \in Seq(Symbols) /\ a # <<>> /\ Len(a) \in Nat
  /\ <<"1">> \in Digits
<1>1. ASSUME NEW a \in Digits PROVE a \in Seq({"1"}) /\ 1 <= Len(a) /\ Len(a) <= MaxDigits
  <2>1. PICK n \in 1 .. MaxDigits : a \in [1 .. n -> {"1"}]
    BY DEF Digits
  <2>2. n \in Nat /\ 1 <= n /\ n <= MaxDigits
    OBVIOUS
  <2>3. a \in Seq({"1"}) /\ Len(a) = n
    BY <2>1, <2>2, SeqDef
  <2> QED BY <2>2, <2>3
<1>2. ASSUME NEW a \in Seq({"1"}), 1 <= Len(a), Len(a) <= MaxDigits PROVE a \in Digits
  <2>1. Len(a) \in 1 .. MaxDigits /\ a \in [1 .. Len(a) -> {"1"}]
    BY <1>2
  <2> QED BY <2>1 DEF Digits
<1>3. ASSUME NEW a \in Seq({"1"}), 1 <= Len(a) PROVE a \in Seq(Symbols) /\ a # <<>> /\ Len(a) \in Nat
  <2>1. {"1"} \subseteq Symbols
    BY SymbolSets
  <2>2. Seq({"1"}) \subseteq Seq(Symbols)
    BY <2>1
  <2>3. Len(<<>>) = 0
    BY EmptySeq
  <2> QED BY <1>3, <2>2, <2>3
<1>4. <<"1">> \in Seq({"1"}) /\ Len(<<"1">>) = 1
  OBVIOUS
<1>5. <<"1">> \in Digits
  <2> DEFINE d == <<"1">>
  <2>1. MaxDigits \in Nat /\ 1 <= MaxDigits
    BY ParserAssumption
  <2>2. d \in Seq({"1"}) /\ 1 <= Len(d) /\ Len(d) <= MaxDigits
    BY <1>4, <2>1
  <2> HIDE DEF d
  <2>3. d \in Digits
    BY <1>2, <2>2
  <2> QED BY <2>3 DEF d
<1> QED BY <1>1, <1>2, <1>3, <1>5

LEMMA StartIs ==
  /\ VersionStart \in Seq(Symbols) /\ Len(VersionStart) = 5
  /\ VersionStart[1] = "H" /\ VersionStart[2] = "T" /\ VersionStart[3] = "T" /\ VersionStart[4] = "P"
  /\ VersionStart[5] = "/"
<1>1. "H" \in Symbols /\ "T" \in Symbols /\ "P" \in Symbols /\ "/" \in Symbols
  BY SymbolSets
<1> QED BY <1>1 DEF VersionStart

UpToMajor(a) == VersionStart \o a
UpToMinor(a) == VersionStart \o a \o <<".">>

LEMMA VersionsAre ==
  /\ \A v : v \in Versions <=> \E a \in Digits, b \in Digits : v = UpToMinor(a) \o b
  /\ \A a \in Digits, b \in Digits :
       /\ UpToMajor(a) \in Seq(Symbols) /\ UpToMinor(a) \in Seq(Symbols) /\ UpToMinor(a) \o b \in Seq(Symbols)
       /\ UpToMinor(a) = Append(UpToMajor(a), ".")
       /\ Continues(UpToMajor(a), VersionStart) /\ Continues(UpToMinor(a), UpToMajor(a))
       /\ Continues(UpToMinor(a) \o b, UpToMinor(a))
  /\ \A v \in Versions : v \in Seq(Symbols)
<1>1. ASSUME NEW v PROVE v \in Versions <=> \E a \in Digits, b \in Digits : v = UpToMinor(a) \o b
  <2>1. v \in Versions <=> \E w \in Digits \X Digits : v = UpToMinor(w[1]) \o w[2]
    BY DEF Versions, UpToMinor
  <2>2. ASSUME NEW a \in Digits, NEW b \in Digits, v = UpToMinor(a) \o b PROVE v \in Versions
    <3> DEFINE w == <<a, b>>
    <3>1. w \in Digits \X Digits /\ w[1] = a /\ w[2] = b
      OBVIOUS
    <3> HIDE DEF w
    <3> QED BY <2>1, <2>2, <3>1
  <2>3. \A w \in Digits \X Digits : w[1] \in Digits /\ w[2] \in Digits
    OBVIOUS
  <2> QED BY <2>1, <2>2, <2>3
<1>2. ASSUME NEW a \in Digits, NEW b \in Digits
      PROVE  /\ UpToMajor(a) \in Seq(Symbols) /\ UpToMinor(a) \in Seq(Symbols) /\ UpToMinor(a) \o b \in Seq(Symbols)
             /\ UpToMinor(a) = Append(UpToMajor(a), ".")
             /\ Continues(UpToMajor(a), VersionStart) /\ Continues(UpToMinor(a), UpToMajor(a))
             /\ Continues(UpToMinor(a) \o b, UpToMinor(a))
  <2>1. a \in Seq(Symbols) /\ b \in Seq(Symbols) /\ "." \in Symbols
    BY DigitsAre, SymbolSets
  <2>2. UpToMajor(a) \in Seq(Symbols) /\ Continues(UpToMajor(a), VersionStart)
    BY <2>1, StartIs, ConcatProperties, ConcatContinues DEF UpToMajor
  <2>3. UpToMinor(a) = UpToMajor(a) \o <<".">>
    BY DEF UpToMinor, UpToMajor
  <2> HIDE DEF UpToMajor
  <2>4. UpToMinor(a) = Append(UpToMajor(a), ".")
    BY <2>1, <2>2, <2>3, AppendIsConcat
  <2>5. UpToMinor(a) \in Seq(Symbols) /\ Continues(UpToMinor(a), UpToMajor(a))
    BY <2>1, <2>2, <2>4, AppendContinues
  <2>6. UpToMinor(a) \o b \in Seq(Symbols) /\ Continues(UpToMinor(a) \o b, UpToMinor(a))
    BY <2>1, <2>5, ConcatProperties, ConcatContinues
  <2> QED BY <2>2, <2>4, <2>5, <2>6
<1>3. ASSUME NEW v \in Versions PROVE v \in Seq(Symbols)
  <2>1. PICK a \in Digits, b \in Digits : v = UpToMinor(a) \o b
    BY <1>1
  <2> QED BY <1>2, <2>1
<1> QED BY <1>1, <1>2, <1>3

(* A first line has no header and at least a symbol.                        *)
LEMMA RequestLineType == ASSUME NEW p \in RequestLines PROVE IsHead(p, 0)
<1>1. PICK method \in Words(Token, 1), uri \in Words(Text \ {"space"}, 0), version \in Versions :
             /\ p = <<UpToVersion(method, uri) \o version \o CRLF, NewRequest(method, uri)>>
             /\ TextOf(p[2]) <= MaxText
  BY RequestLineIs
<1>2. method \in Seq(Symbols) /\ Len(method) \in Nat \ {0} /\ uri \in Seq(Symbols) /\ Len(uri) \in Nat
  <2>1. Token \in SUBSET Symbols /\ Text \ {"space"} \in SUBSET Symbols
    BY SymbolSets
  <2>2. method \in Seq(Symbols) /\ Len(method) \in Nat /\ Len(method) >= 1
    BY <2>1, WordIs
  <2>3. uri \in Seq(Symbols) /\ Len(uri) \in Nat
    BY <2>1, WordIs
  <2> QED BY <2>2, <2>3
<1> DEFINE t == UpToVersion(method, uri) \o version
           r == NewRequest(method, uri)
<1>3. t \in Seq(Symbols) /\ Continues(t, <<>>)
  <2>1. UpToVersion(method, uri) \in Seq(Symbols)
    <3>1. <<>> \in Seq(Symbols) /\ "space" \in Symbols
      BY SymbolSets, EmptySeq
    <3> QED BY <1>2, <3>1, UpToType
  <2>2. t \in Seq(Symbols)
    BY <2>1, VersionsAre, ConcatProperties
  <2> QED BY <2>2 DEF Continues
<1>4. r \in RequestType /\ r.headers = <<>> /\ TextOf(r) = Len(method) + Len(uri)
  BY <1>2, NewRequestType
<1> HIDE DEF t, r
<1>5. p = <<t \o CRLF, r>>
  BY <1>1 DEF t, r
<1>6. t \o CRLF \in Seq(Symbols)
  BY <1>3, LineEnd
<1>7. LineFeeds(t \o CRLF) \in Nat /\ 0 < LineFeeds(t \o CRLF)
  <2>1. <<>> \in Seq(Symbols)
    BY EmptySeq
  <2>2. LineFeeds(<<>>) \in Nat /\ LineFeeds(t \o CRLF) \in Nat /\ LineFeeds(t \o CRLF) >= LineFeeds(<<>>) + 1
    BY <1>3, <2>1, LineFeedsOfEnd
  <2> QED BY <2>2
<1>8. p[1] = t \o CRLF /\ p[2] = r
  BY <1>5
<1>9. Len(r.headers) = 0
  BY <1>4
<1>10. p = <<p[1], p[2]>> /\ TextOf(r) \in Nat /\ 0 < TextOf(r) /\ TextOf(r) <= MaxText
  BY <1>1, <1>2, <1>4, <1>5, <1>8
<1> QED BY <1>4, <1>6, <1>7, <1>8, <1>9, <1>10 DEF IsHead

(* A header makes one more, on a line of its own.                           *)
LEMMA HeaderType ==
  ASSUME NEW n \in Nat, NEW lines, \A q \in lines : IsHead(q, n), NEW p \in Header(lines)
  PROVE  IsHead(p, n + 1)
<1>1. PICK q \in lines, name \in Words(Token, 1), value \in Words(Text, 0) :
             /\ p = <<UpToValue(q[1], name, value) \o CRLF, WithHeader(q[2], name, value)>>
             /\ TextOf(p[2]) <= MaxText
  BY HeaderIs
<1>2. name \in Seq(Symbols) /\ Len(name) \in Nat \ {0} /\ value \in Seq(Symbols) /\ Len(value) \in Nat
  <2>1. Token \in SUBSET Symbols /\ Text \in SUBSET Symbols
    BY SymbolSets
  <2>2. name \in Seq(Symbols) /\ Len(name) \in Nat /\ Len(name) >= 1
    BY <2>1, WordIs
  <2>3. value \in Seq(Symbols) /\ Len(value) \in Nat
    BY <2>1, WordIs
  <2> QED BY <2>2, <2>3
<1>3. /\ q[1] \in Seq(Symbols) /\ q[2] \in RequestType /\ Len(q[2].headers) = n
      /\ TextOf(q[2]) \in Nat /\ n < TextOf(q[2]) /\ LineFeeds(q[1]) \in Nat /\ n < LineFeeds(q[1])
  BY DEF IsHead
<1> DEFINE t == UpToValue(q[1], name, value)
           r == WithHeader(q[2], name, value)
<1>4. t \in Seq(Symbols) /\ Continues(t, q[1])
  BY <1>2, <1>3, SymbolSets, UpToType
<1>5. r \in RequestType /\ Len(r.headers) = n + 1
  <2> DEFINE a == q[2]
  <2>1. a \in RequestType /\ name \in Seq(Symbols) /\ value \in Seq(Symbols) /\ Len(a.headers) = n
    BY <1>2, <1>3
  <2> HIDE DEF a
  <2>2. WithHeader(a, name, value) \in RequestType /\ Len(WithHeader(a, name, value).headers) = Len(a.headers) + 1
    BY <2>1, WithHeaderType
  <2> QED BY <2>1, <2>2 DEF a
<1>6. TextOf(r) = TextOf(q[2]) + Len(name) + Len(value)
  BY <1>2, <1>3, TextWith
<1> HIDE DEF t, r
<1>7. p = <<t \o CRLF, r>>
  BY <1>1 DEF t, r
<1>8. t \o CRLF \in Seq(Symbols)
  BY <1>4, LineEnd
<1>9. LineFeeds(t \o CRLF) \in Nat /\ LineFeeds(t \o CRLF) >= LineFeeds(q[1]) + 1
  BY <1>3, <1>4, LineFeedsOfEnd
<1>10. p[1] = t \o CRLF /\ p[2] = r
  BY <1>7
<1>11. TextOf(r) \in Nat /\ n + 1 < TextOf(r)
  BY <1>2, <1>3, <1>6
<1>12. n + 1 < LineFeeds(t \o CRLF)
  BY <1>3, <1>9
<1> QED BY <1>1, <1>5, <1>7, <1>8, <1>9, <1>10, <1>11, <1>12 DEF IsHead

(* A line that continues a header leaves the number of headers and adds one *)
(* of lines.                                                                *)
LEMMA FoldedType ==
  ASSUME NEW p \in Folded(Header(RequestLines))
  PROVE  IsHead(p, 1) /\ LineFeeds(p[1]) > 2
<1>1. PICK h \in Header(RequestLines), b \in Blank, more \in Words(Text, 0) :
             /\ more = <<>> \/ more[1] # "space"
             /\ p = <<UpToFold(h[1], b, more) \o CRLF, Continued(h[2], more)>>
             /\ TextOf(p[2]) <= MaxText
  BY FoldedIs
<1>2. IsHead(h, 1)
  <2>1. \A q \in RequestLines : IsHead(q, 0)
    BY RequestLineType
  <2> QED BY <2>1, HeaderType
<1>3. PICK q \in RequestLines, name \in Words(Token, 1), value \in Words(Text, 0) :
        h[2] = WithHeader(q[2], name, value)
  <2>1. PICK q \in RequestLines, name \in Words(Token, 1), value \in Words(Text, 0) :
          /\ h = <<UpToValue(q[1], name, value) \o CRLF, WithHeader(q[2], name, value)>>
          /\ TextOf(h[2]) <= MaxText
    BY HeaderIs, Zenon
  <2> QED BY <2>1
<1>4. /\ name \in Seq(Symbols) /\ Len(name) \in Nat \ {0} /\ value \in Seq(Symbols) /\ Len(value) \in Nat
      /\ more \in Seq(Symbols) /\ b \in Symbols
  <2>1. Token \in SUBSET Symbols /\ Text \in SUBSET Symbols
    BY SymbolSets
  <2>2. name \in Seq(Symbols) /\ Len(name) \in Nat /\ Len(name) >= 1
    BY <2>1, WordIs
  <2>3. value \in Seq(Symbols) /\ Len(value) \in Nat /\ more \in Seq(Symbols)
    BY <2>1, WordIs
  <2> QED BY <2>2, <2>3, SymbolSets
<1>5. q[2] \in RequestType /\ Len(q[2].headers) = 0 /\ TextOf(q[2]) \in Nat /\ TextOf(q[2]) > 0
  BY RequestLineType DEF IsHead
<1> DEFINE t == UpToFold(h[1], b, more)
           v == value \o more
           r == WithHeader(q[2], name, v)
<1>6. v \in Seq(Symbols) /\ Len(v) \in Nat
  BY <1>4, ConcatProperties
<1> HIDE DEF v
<1>7. r \in RequestType /\ Len(r.headers) = 1
  <2>1. q[2] \in RequestType /\ name \in Seq(Symbols) /\ v \in Seq(Symbols)
    BY <1>4, <1>5, <1>6
  <2>2. r \in RequestType /\ Len(r.headers) = Len(q[2].headers) + 1
    BY <2>1, WithHeaderType
  <2> QED BY <1>5, <2>2
<1>8. TextOf(r) = TextOf(q[2]) + Len(name) + Len(v)
  BY <1>4, <1>5, <1>6, TextWith
<1>9. Continued(h[2], more) = r
  BY <1>3, <1>4, <1>5, ContinuedIs DEF v
<1>10. h[1] \in Seq(Symbols) /\ LineFeeds(h[1]) \in Nat /\ LineFeeds(h[1]) > 1
  BY <1>2 DEF IsHead
<1>11. t \in Seq(Symbols) /\ Continues(t, h[1])
  BY <1>4, <1>10, UpToType
<1> HIDE DEF t, r
<1>12. p = <<t \o CRLF, r>>
  BY <1>1, <1>9 DEF t
<1>13. t \o CRLF \in Seq(Symbols)
  BY <1>11, LineEnd
<1>14. LineFeeds(t \o CRLF) \in Nat /\ LineFeeds(t \o CRLF) >= LineFeeds(h[1]) + 1
  BY <1>10, <1>11, LineFeedsOfEnd
<1>15. p[1] = t \o CRLF /\ p[2] = r
  BY <1>12
<1>16. TextOf(r) \in Nat /\ 1 < TextOf(r)
  BY <1>4, <1>5, <1>6, <1>8
<1>17. 2 < LineFeeds(t \o CRLF)
  BY <1>10, <1>14
<1>18. p = <<p[1], p[2]>> /\ TextOf(r) <= MaxText
  BY <1>1, <1>12, <1>15
<1>19. 1 < LineFeeds(t \o CRLF)
  BY <1>14, <1>17
<1> QED BY <1>7, <1>13, <1>14, <1>15, <1>16, <1>17, <1>18, <1>19 DEF IsHead

(* Every text of Heads is one, and a second header comes on a third line.   *)
LEMMA HeadsType ==
  ASSUME NEW n \in 0 .. MaxText, NEW p \in Heads[n]
  PROVE  IsHead(p, n)
<1> DEFINE S == {k \in Nat : k <= MaxText => \A q \in Heads[k] : IsHead(q, k)}
<1>1. 0 \in S
  <2>1. 0 \in 0 .. MaxText
    OBVIOUS
  <2>2. Heads[0] = RequestLines
    BY <2>1, HeadsAre
  <2> QED BY <2>2, RequestLineType
<1>2. ASSUME NEW k \in Nat, k \in S PROVE k + 1 \in S
  <2> SUFFICES ASSUME k + 1 <= MaxText, NEW q \in Heads[k + 1] PROVE IsHead(q, k + 1)
    OBVIOUS
  <2>1. k + 1 \in 0 .. MaxText /\ k \in 0 .. MaxText /\ k + 1 - 1 = k /\ k + 1 # 0 /\ (k + 1 = 1 \/ k + 1 > 1)
    OBVIOUS
  <2>2. \A h \in Heads[k] : IsHead(h, k)
    BY <1>2, <2>1
  <2> HIDE DEF S
  <2>3. CASE k = 0
    <3>1. Heads[1] = Header(RequestLines) \cup Folded(Header(RequestLines))
      BY <2>1, <2>3, HeadsAre
    <3>2. \A h \in RequestLines : IsHead(h, 0)
      BY RequestLineType
    <3>3. \A h \in Header(RequestLines) : IsHead(h, 0 + 1)
      BY <3>2, HeaderType
    <3>4. q \in Header(RequestLines) \cup Folded(Header(RequestLines))
      BY <2>3, <3>1
    <3>5. IsHead(q, 1)
      BY <3>3, <3>4, FoldedType
    <3> QED BY <2>3, <3>5
  <2>4. CASE k + 1 > 1
    <3>1. Heads[k + 1] = Header(Heads[k])
      BY <2>1, <2>4, HeadsAre
    <3> QED BY <2>2, <3>1, HeaderType
  <2> QED BY <2>1, <2>3, <2>4
<1>3. Nat \subseteq S
  <2> HIDE DEF S
  <2> QED BY <1>1, <1>2, Induction
<1> QED BY <1>3

-----------------------------------------------------------------------------
(* What the parser has read in each state, and with which fields.           *)
VersionStates ==
  <<"http_version_h", "http_version_t_1", "http_version_t_2", "http_version_p", "http_version_slash",
    "http_version_major_start", "http_version_major", "http_version_minor_start", "http_version_minor">>

AtStart(s, t, r) == s = "method_start" /\ t = <<>> /\ r = NewRequest(<<>>, <<>>)
InMethod(s, t, r) == s = "method" /\ t \in Words(Token, 1) /\ r = NewRequest(t, <<>>)
InUri(s, t, r) ==
  \E method \in Words(Token, 1), uri \in Words(Text \ {"space"}, 0) :
    s = "uri" /\ t = Append(method, "space") \o uri /\ r = NewRequest(method, uri)
(* What was read of the version in each of its states.                      *)
Reading(s, x) ==
  \/ \E k \in 0 .. 5 : s = VersionStates[k + 1] /\ x = SubSeq(VersionStart, 1, k)
  \/ \E a \in Digits :
       \/ s = "http_version_major" /\ x = UpToMajor(a)
       \/ s = "http_version_minor_start" /\ x = UpToMinor(a)
       \/ \E b \in Digits : s = "http_version_minor" /\ x = UpToMinor(a) \o b
InVersion(s, t, r) ==
  \E method \in Words(Token, 1), uri \in Words(Text \ {"space"}, 0) : \E x :
    /\ Reading(s, x)
    /\ t = UpToVersion(method, uri) \o x
    /\ r = NewRequest(method, uri)
AfterVersion(s, t, r) ==
  \E method \in Words(Token, 1), uri \in Words(Text \ {"space"}, 0), version \in Versions :
    /\ s = "expecting_newline_1"
    /\ t = Append(UpToVersion(method, uri) \o version, "CR")
    /\ r = NewRequest(method, uri)
AtLine(s, t, r) ==
  s = "header_line_start" /\ \E n \in 0 .. MaxText : <<t, r>> \in Heads[n]
AtEnd(s, t, r) ==
  \E n \in 0 .. MaxText : \E p \in Heads[n] :
    s = "expecting_newline_3" /\ t = Append(p[1], "CR") /\ r = p[2]
InName(s, t, r) ==
  \E n \in 0 .. MaxText : \E p \in Heads[n] : \E name \in Words(Token, 1) :
    /\ r = WithHeader(p[2], name, <<>>)
    /\ \/ s = "header_name" /\ t = p[1] \o name
       \/ s = "space_before_header_value" /\ t = Append(p[1] \o name, ":")
InValue(s, t, r) ==
  \E n \in 0 .. MaxText : \E p \in Heads[n] : \E name \in Words(Token, 1), value \in Words(Text, 0) :
    /\ r = WithHeader(p[2], name, value)
    /\ \/ s = "header_value" /\ t = UpToValue(p[1], name, value)
       \/ s = "expecting_newline_2" /\ t = Append(UpToValue(p[1], name, value), "CR")
InFold(s, t, r) ==
  \E p \in Header(RequestLines) : \E b \in Blank, more \in Words(Text, 0) :
    /\ more = <<>> \/ more[1] # "space"
    /\ r = Continued(p[2], more)
    /\ \/ s = "header_lws" /\ more = <<>> /\ t = UpToFold(p[1], b, more)
       \/ s = "header_value" /\ more # <<>> /\ t = UpToFold(p[1], b, more)
       \/ s = "expecting_newline_2" /\ t = Append(UpToFold(p[1], b, more), "CR")

HasRead(s, t, r) ==
  /\ TextOf(r) <= MaxText
  /\ \/ AtStart(s, t, r) \/ InMethod(s, t, r) \/ InUri(s, t, r)
     \/ InVersion(s, t, r) \/ AfterVersion(s, t, r)
     \/ AtLine(s, t, r) \/ AtEnd(s, t, r)
     \/ InName(s, t, r) \/ InValue(s, t, r) \/ InFold(s, t, r)

(* The rules of each state.                                                 *)
LEMMA RulesFrom ==
  ASSUME NEW rule \in Rules
  PROVE  /\ rule[1] = "method_start" => rule = <<"method_start", Token, "method", "method">>
         /\ rule[1] = "method" =>
              rule = <<"method", {"space"}, "uri", "none">> \/ rule = <<"method", Token, "method", "method">>
         /\ rule[1] = "uri" =>
              \/ rule = <<"uri", {"space"}, "http_version_h", "none">>
              \/ rule = <<"uri", Text \ {"space"}, "uri", "uri">>
         /\ \A k \in 0 .. 4 : rule[1] = VersionStates[k + 1] =>
              rule = <<VersionStates[k + 1], {VersionStart[k + 1]}, VersionStates[k + 2], "none">>
         /\ rule[1] = "http_version_major_start" =>
              rule = <<"http_version_major_start", {"1"}, "http_version_major", "none">>
         /\ rule[1] = "http_version_major" =>
              \/ rule = <<"http_version_major", {"."}, "http_version_minor_start", "none">>
              \/ rule = <<"http_version_major", {"1"}, "http_version_major", "none">>
         /\ rule[1] = "http_version_minor_start" =>
              rule = <<"http_version_minor_start", {"1"}, "http_version_minor", "none">>
         /\ rule[1] = "http_version_minor" =>
              \/ rule = <<"http_version_minor", {"CR"}, "expecting_newline_1", "none">>
              \/ rule = <<"http_version_minor", {"1"}, "http_version_minor", "none">>
         /\ rule[1] = "expecting_newline_1" => rule = <<"expecting_newline_1", {"LF"}, "header_line_start", "none">>
         /\ rule[1] = "header_line_start" =>
              \/ rule = <<"header_line_start", {"CR"}, "expecting_newline_3", "none">>
              \/ rule = <<"header_line_start", Blank, "header_lws", "none">>
              \/ rule = <<"header_line_start", Token, "header_name", "header">>
         /\ rule[1] = "header_lws" =>
              \/ rule = <<"header_lws", {"CR"}, "expecting_newline_2", "none">>
              \/ rule = <<"header_lws", Blank, "header_lws", "none">>
              \/ rule = <<"header_lws", Text \ Blank, "header_value", "value">>
         /\ rule[1] = "header_name" =>
              \/ rule = <<"header_name", {":"}, "space_before_header_value", "none">>
              \/ rule = <<"header_name", Token, "header_name", "name">>
         /\ rule[1] = "space_before_header_value" =>
              rule = <<"space_before_header_value", {"space"}, "header_value", "none">>
         /\ rule[1] = "header_value" =>
              \/ rule = <<"header_value", {"CR"}, "expecting_newline_2", "none">>
              \/ rule = <<"header_value", Text, "header_value", "value">>
         /\ rule[1] = "expecting_newline_2" => rule = <<"expecting_newline_2", {"LF"}, "header_line_start", "none">>
         /\ rule[1] # "expecting_newline_3"
<1>1. rule[1] = "method_start" => rule = <<"method_start", Token, "method", "method">>
  BY DEF Rules, RequestLineRules, HeaderRules
<1>2. rule[1] = "method" =>
       rule = <<"method", {"space"}, "uri", "none">> \/ rule = <<"method", Token, "method", "method">>
  BY DEF Rules, RequestLineRules, HeaderRules
<1>3. rule[1] = "uri" =>
       \/ rule = <<"uri", {"space"}, "http_version_h", "none">>
       \/ rule = <<"uri", Text \ {"space"}, "uri", "uri">>
  BY DEF Rules, RequestLineRules, HeaderRules
<1>4. \A k \in 0 .. 4 : rule[1] = VersionStates[k + 1] =>
       rule = <<VersionStates[k + 1], {VersionStart[k + 1]}, VersionStates[k + 2], "none">>
  BY DEF Rules, RequestLineRules, HeaderRules, VersionStates, VersionStart
<1>5. /\ rule[1] = "http_version_major_start" =>
           rule = <<"http_version_major_start", {"1"}, "http_version_major", "none">>
      /\ rule[1] = "http_version_minor_start" =>
           rule = <<"http_version_minor_start", {"1"}, "http_version_minor", "none">>
  BY DEF Rules, RequestLineRules, HeaderRules
<1>14. /\ rule[1] = "http_version_major" =>
            \/ rule = <<"http_version_major", {"."}, "http_version_minor_start", "none">>
            \/ rule = <<"http_version_major", {"1"}, "http_version_major", "none">>
       /\ rule[1] = "http_version_minor" =>
            \/ rule = <<"http_version_minor", {"CR"}, "expecting_newline_1", "none">>
            \/ rule = <<"http_version_minor", {"1"}, "http_version_minor", "none">>
  BY DEF Rules, RequestLineRules, HeaderRules
<1>6. rule[1] = "expecting_newline_1" => rule = <<"expecting_newline_1", {"LF"}, "header_line_start", "none">>
  BY DEF Rules, RequestLineRules, HeaderRules
<1>7. rule[1] = "header_line_start" =>
       \/ rule = <<"header_line_start", {"CR"}, "expecting_newline_3", "none">>
       \/ rule = <<"header_line_start", Blank, "header_lws", "none">>
       \/ rule = <<"header_line_start", Token, "header_name", "header">>
  BY DEF Rules, RequestLineRules, HeaderRules
<1>8. rule[1] = "header_lws" =>
       \/ rule = <<"header_lws", {"CR"}, "expecting_newline_2", "none">>
       \/ rule = <<"header_lws", Blank, "header_lws", "none">>
       \/ rule = <<"header_lws", Text \ Blank, "header_value", "value">>
  BY DEF Rules, RequestLineRules, HeaderRules
<1>9. rule[1] = "header_name" =>
       \/ rule = <<"header_name", {":"}, "space_before_header_value", "none">>
       \/ rule = <<"header_name", Token, "header_name", "name">>
  BY DEF Rules, RequestLineRules, HeaderRules
<1>10. rule[1] = "space_before_header_value" =>
       rule = <<"space_before_header_value", {"space"}, "header_value", "none">>
  BY DEF Rules, RequestLineRules, HeaderRules
<1>11. rule[1] = "header_value" =>
       \/ rule = <<"header_value", {"CR"}, "expecting_newline_2", "none">>
       \/ rule = <<"header_value", Text, "header_value", "value">>
  BY DEF Rules, RequestLineRules, HeaderRules
<1>12. rule[1] = "expecting_newline_2" => rule = <<"expecting_newline_2", {"LF"}, "header_line_start", "none">>
  BY DEF Rules, RequestLineRules, HeaderRules
<1>13. rule[1] # "expecting_newline_3"
  BY DEF Rules, RequestLineRules, HeaderRules
<1> QED BY <1>1, <1>2, <1>3, <1>4, <1>5, <1>6, <1>7, <1>8, <1>9, <1>10, <1>11, <1>12, <1>13, <1>14

(* A word that is added to is a word.                                       *)
LEMMA WordGrows ==
  ASSUME NEW C \in SUBSET Symbols, NEW w \in Words(C, 0), NEW c \in C \cap Written, Len(w) < MaxText
  PROVE  Append(w, c) \in Words(C, 0) /\ Append(w, c) \in Words(C, 1)
<1>1. w \in Seq(C \cap Written) /\ Len(w) \in Nat
  BY WordIs
<1>2. Append(w, c) \in Seq(C \cap Written) /\ Len(Append(w, c)) = Len(w) + 1
  BY <1>1
<1>3. Len(Append(w, c)) >= 1 /\ Len(Append(w, c)) >= 0 /\ Len(Append(w, c)) <= MaxText
  BY <1>1, <1>2
<1> QED BY <1>2, <1>3, WordIs

(* The words of the grammar; the empty word is one of them.                 *)
LEMMA WordsAre ==
  /\ Token \in SUBSET Symbols /\ Text \in SUBSET Symbols /\ Text \ {"space"} \in SUBSET Symbols
  /\ \A w \in Words(Token, 1) : w \in Words(Token, 0) /\ w \in Seq(Symbols) /\ Len(w) \in Nat /\ Len(w) > 0
  /\ \A w \in Words(Token, 0) : w \in Seq(Symbols) /\ Len(w) \in Nat
  /\ \A w \in Words(Text, 0) : w \in Seq(Symbols) /\ Len(w) \in Nat
  /\ \A w \in Words(Text \ {"space"}, 0) : w \in Seq(Symbols) /\ Len(w) \in Nat
  /\ <<>> \in Words(Token, 0) /\ <<>> \in Words(Text, 0) /\ <<>> \in Words(Text \ {"space"}, 0)
<1>1. Token \in SUBSET Symbols /\ Text \in SUBSET Symbols /\ Text \ {"space"} \in SUBSET Symbols
  BY SymbolSets
<1>2. \A w \in Words(Token, 1) :
        w \in Seq(Token \cap Written) /\ w \in Seq(Symbols) /\ Len(w) \in Nat /\ 1 <= Len(w) /\ Len(w) <= MaxText
  BY <1>1, WordIs
<1>3. \A w \in Words(Token, 1) : w \in Words(Token, 0)
  <2> SUFFICES ASSUME NEW w \in Words(Token, 1) PROVE w \in Words(Token, 0)
    OBVIOUS
  <2>1. w \in Seq(Token \cap Written) /\ 0 <= Len(w) /\ Len(w) <= MaxText /\ 0 \in Nat
    BY <1>2
  <2> QED BY <1>1, <2>1, WordIs
<1>4. \A C \in SUBSET Symbols : \A w \in Words(C, 0) : w \in Seq(Symbols) /\ Len(w) \in Nat
  BY WordIs
<1>5. \A C \in SUBSET Symbols : <<>> \in Words(C, 0)
  <2> SUFFICES ASSUME NEW C \in SUBSET Symbols PROVE <<>> \in Words(C, 0)
    OBVIOUS
  <2>1. <<>> \in Seq(C \cap Written) /\ Len(<<>>) = 0
    BY EmptySeq
  <2>2. 0 \in Nat /\ 0 <= Len(<<>>) /\ Len(<<>>) <= MaxText
    BY <2>1
  <2> QED BY <2>1, <2>2, WordIs
<1> QED BY <1>1, <1>2, <1>3, <1>4, <1>5

-----------------------------------------------------------------------------
(* A symbol that a rule takes, within the bounds of Consume.                *)
Taken(rule, c) ==
  /\ rule \in Rules /\ c \in Symbols /\ Applies(rule, c)
  /\ rule[4] # "none" => c \in Written
  /\ TextOf(Stored(rule[4], c)) <= MaxText
  /\ state \in {"http_version_major", "http_version_minor"} /\ c = "1" => MoreDigits
  /\ rule[3] = "header_lws" => LineFeeds(input) <= 2 /\ state # "header_lws"

(* The states of the version.                                               *)
LEMMA InVersionState ==
  ASSUME NEW s, NEW t, NEW r, InVersion(s, t, r)
  PROVE  s \in {"http_version_h", "http_version_t_1", "http_version_t_2", "http_version_p", "http_version_slash",
                "http_version_major_start", "http_version_major", "http_version_minor_start", "http_version_minor"}
<1>1. PICK x : Reading(s, x)
  BY DEF InVersion
<1>2. \A k \in 0 .. 5 :
        VersionStates[k + 1] \in {"http_version_h", "http_version_t_1", "http_version_t_2", "http_version_p",
                                 "http_version_slash", "http_version_major_start"}
  BY DEF VersionStates
<1> QED BY <1>1, <1>2 DEF Reading

(* The method, up to its first symbol or further.                           *)
LEMMA MethodRead ==
  ASSUME HasRead(state, input, req), state \in {"method_start", "method"}, NEW rule, NEW c, Taken(rule, c)
  PROVE  HasRead(rule[3], Append(input, c), Stored(rule[4], c))
<1>1. rule \in Rules /\ c \in Symbols /\ rule[1] = state /\ c \in rule[2]
  BY DEF Taken, Applies
<1>2. input \in Words(Token, 0) /\ req = NewRequest(input, <<>>) /\ (state = "method" => input \in Words(Token, 1))
  <2>1. AtStart(state, input, req) \/ InMethod(state, input, req)
    BY InVersionState DEF HasRead, InUri, AfterVersion, AtLine, AtEnd, InName, InValue, InFold
  <2> QED BY <2>1, WordsAre DEF AtStart, InMethod
<1>3. \/ rule[3] = "uri" /\ rule[4] = "none" /\ c = "space" /\ state = "method"
      \/ rule[3] = "method" /\ rule[4] = "method" /\ c \in Token
  BY <1>1, RulesFrom
<1>4. CASE rule[4] = "none"
  <2>1. Stored(rule[4], c) = req
    BY <1>4 DEF Stored
  <2>2. Append(input, c) = Append(input, "space") \o <<>>
    <3>1. Append(input, "space") \in Seq(Symbols)
      BY <1>2, WordsAre, SymbolSets
    <3> QED BY <1>3, <1>4, <3>1, ConcatEmptySeq
  <2>3. InUri(rule[3], Append(input, c), req)
    BY <1>2, <1>3, <1>4, <2>2, WordsAre DEF InUri
  <2> QED BY <2>1, <2>3 DEF HasRead, Taken
<1>5. CASE rule[4] = "method"
  <2>1. Stored(rule[4], c) = NewRequest(Append(input, c), <<>>)
    BY <1>2, <1>5 DEF Stored, NewRequest
  <2>2. input \in Seq(Symbols) /\ Append(input, c) \in Seq(Symbols) /\ Len(Append(input, c)) = Len(input) + 1
    BY <1>1, <1>2, WordsAre
  <2>3. Len(input) < MaxText
    <3>1. TextOf(NewRequest(Append(input, c), <<>>)) = Len(Append(input, c)) + Len(<<>>)
      BY <2>2, EmptySeq, NewRequestType
    <3> QED BY <2>1, <2>2, <3>1, EmptySeq DEF Taken
  <2>4. Append(input, c) \in Words(Token, 1)
    BY <1>2, <1>3, <1>5, <2>3, WordGrows, WordsAre DEF Taken
  <2>5. InMethod(rule[3], Append(input, c), Stored(rule[4], c))
    BY <1>3, <1>5, <2>1, <2>4 DEF InMethod
  <2> QED BY <2>5 DEF HasRead, Taken
<1> QED BY <1>3, <1>4, <1>5

(* The uri.                                                                 *)
LEMMA UriRead ==
  ASSUME HasRead(state, input, req), state = "uri", NEW rule, NEW c, Taken(rule, c)
  PROVE  HasRead(rule[3], Append(input, c), Stored(rule[4], c))
<1>1. rule \in Rules /\ c \in Symbols /\ rule[1] = state /\ c \in rule[2]
  BY DEF Taken, Applies
<1>2. PICK m \in Words(Token, 1), u \in Words(Text \ {"space"}, 0) :
        input = Append(m, "space") \o u /\ req = NewRequest(m, u)
  <2>1. InUri(state, input, req)
    BY InVersionState DEF HasRead, AtStart, InMethod, AfterVersion, AtLine, AtEnd, InName, InValue, InFold
  <2> QED BY <2>1 DEF InUri
<1>3. \/ rule[3] = "http_version_h" /\ rule[4] = "none" /\ c = "space"
      \/ rule[3] = "uri" /\ rule[4] = "uri" /\ c \in Text \ {"space"}
  BY <1>1, RulesFrom
<1>4. /\ m \in Seq(Symbols) /\ Append(m, "space") \in Seq(Symbols) /\ u \in Seq(Symbols)
      /\ "space" \in Symbols /\ m \o <<"space">> = Append(m, "space")
      /\ Len(m) \in Nat /\ Len(u) \in Nat
  <2>1. m \in Seq(Symbols) /\ u \in Seq(Symbols) /\ "space" \in Symbols /\ Len(m) \in Nat /\ Len(u) \in Nat
    BY WordsAre, SymbolSets
  <2> QED BY <2>1, AppendIsConcat, AppendElements
<1>5. CASE rule[4] = "none"
  <2>1. Stored(rule[4], c) = req
    BY <1>5 DEF Stored
  <2> DEFINE t == Append(m, "space") \o u
  <2>2. t \in Seq(Symbols)
    BY <1>4, ConcatProperties
  <2>3. UpToVersion(m, u) = t \o <<"space">>
    BY <1>4 DEF UpToVersion
  <2> HIDE DEF t
  <2>4. Append(t, "space") = t \o <<"space">> /\ Append(t, "space") \in Seq(Symbols)
    BY <1>4, <2>2, AppendIsConcat
  <2>5. SubSeq(VersionStart, 1, 0) = <<>>
    BY StartIs
  <2>6. Append(input, c) = UpToVersion(m, u) \o SubSeq(VersionStart, 1, 0)
    BY <1>2, <1>3, <1>5, <2>3, <2>4, <2>5, ConcatEmptySeq DEF t
  <2>7. rule[3] = VersionStates[0 + 1] /\ 0 \in 0 .. 5
    BY <1>3, <1>5 DEF VersionStates
  <2>8. Reading(rule[3], SubSeq(VersionStart, 1, 0))
    BY <2>7 DEF Reading
  <2>9. InVersion(rule[3], Append(input, c), req)
    BY <1>2, <2>6, <2>8 DEF InVersion
  <2> QED BY <2>1, <2>9 DEF HasRead, Taken
<1>6. CASE rule[4] = "uri"
  <2>1. Stored(rule[4], c) = NewRequest(m, Append(u, c))
    <3>1. Stored(rule[4], c) = [req EXCEPT !.uri = Append(req.uri, c)]
      BY <1>6 DEF Stored
    <3>2. req = [method |-> m, uri |-> u, headers |-> <<>>]
      BY <1>2 DEF NewRequest
    <3>3. \A x : [req EXCEPT !.uri = x] = [method |-> m, uri |-> x, headers |-> <<>>]
      BY <3>2
    <3> QED BY <3>1, <3>2, <3>3, Zenon DEF NewRequest
  <2>2. Append(u, c) \in Seq(Symbols) /\ Len(Append(u, c)) = Len(u) + 1
    BY <1>1, <1>4
  <2>3. Len(u) < MaxText
    <3>1. TextOf(NewRequest(m, Append(u, c))) = Len(m) + Len(Append(u, c))
      BY <1>4, <2>2, NewRequestType
    <3> QED BY <1>4, <2>1, <2>2, <3>1 DEF Taken
  <2>4. Append(u, c) \in Words(Text \ {"space"}, 0)
    BY <1>3, <1>6, <2>3, WordGrows, WordsAre DEF Taken
  <2> DEFINE t == Append(m, "space")
  <2>5. Append(input, c) = Append(m, "space") \o Append(u, c)
    <3>1. t \in Seq(Symbols) /\ input = t \o u
      BY <1>2, <1>4
    <3> HIDE DEF t
    <3>2. Append(t \o u, c) = t \o Append(u, c)
      BY <1>1, <1>4, <3>1, AppendLast
    <3> QED BY <3>1, <3>2 DEF t
  <2>6. InUri(rule[3], Append(input, c), Stored(rule[4], c))
    BY <1>3, <1>6, <2>1, <2>4, <2>5 DEF InUri
  <2> QED BY <2>6 DEF HasRead, Taken
<1> QED BY <1>3, <1>5, <1>6

(* A sequence goes on with its first elements.                              *)
LEMMA FirstContinue ==
  ASSUME NEW S, NEW a \in Seq(S), NEW k \in 0 .. Len(a)
  PROVE  SubSeq(a, 1, k) \in Seq(S) /\ Continues(a, SubSeq(a, 1, k))
<1>1. /\ SubSeq(a, 1, k) \in Seq(S) /\ Len(SubSeq(a, 1, k)) = k
      /\ \A i \in 1 .. k : SubSeq(a, 1, k)[i] = a[i]
  OBVIOUS
<1> QED BY <1>1 DEF Continues

(* A number to which the parser takes another digit has one.                *)
LEMMA LastDigits ==
  ASSUME NEW t \in Seq(Symbols), NEW a \in Digits, input = t \o a, MoreDigits
  PROVE  Append(a, "1") \in Digits /\ Append(t \o a, "1") = t \o Append(a, "1")
<1>1. a \in Seq({"1"}) /\ a \in Seq(Symbols) /\ Len(a) \in Nat /\ Len(a) <= MaxDigits /\ Len(t) \in Nat
      /\ "1" \in Symbols
  BY DigitsAre, SymbolSets
<1>2. /\ Len(input) = Len(t) + Len(a)
      /\ \A i \in 1 .. Len(t) + Len(a) : input[i] = IF i <= Len(t) THEN t[i] ELSE a[i - Len(t)]
  BY <1>1, ConcatProperties
<1>3. Len(a) # MaxDigits
  <2> SUFFICES ASSUME Len(a) = MaxDigits PROVE FALSE
    OBVIOUS
  <2>1. PICK i \in (Len(input) - MaxDigits + 1) .. Len(input) : input[i] # "1"
    BY DEF MoreDigits
  <2>2. i \in 1 .. Len(t) + Len(a) /\ ~(i <= Len(t)) /\ i - Len(t) \in 1 .. Len(a)
    BY <1>1, <1>2, <2>1
  <2>3. input[i] = a[i - Len(t)]
    BY <1>2, <2>2
  <2> QED BY <1>1, <2>1, <2>2, <2>3
<1>4. Append(a, "1") \in Seq({"1"}) /\ Len(Append(a, "1")) = Len(a) + 1
  BY <1>1
<1>5. 1 <= Len(Append(a, "1")) /\ Len(Append(a, "1")) <= MaxDigits
  BY <1>1, <1>3, <1>4
<1> QED BY <1>1, <1>4, <1>5, DigitsAre, AppendLast

(* The version goes on with its next symbol.                                *)
LEMMA ReadingGrows ==
  ASSUME NEW t \in Seq(Symbols), NEW x, Reading(state, x), input = t \o x,
         NEW rule, NEW c, Taken(rule, c), c # "CR"
  PROVE  rule[4] = "none" /\ x \in Seq(Symbols) /\ Reading(rule[3], Append(x, c))
<1>1. rule \in Rules /\ c \in Symbols /\ rule[1] = state /\ c \in rule[2]
  BY DEF Taken, Applies
<1>2. ASSUME NEW k \in 0 .. 4, state = VersionStates[k + 1], x = SubSeq(VersionStart, 1, k)
      PROVE  rule[4] = "none" /\ x \in Seq(Symbols) /\ Reading(rule[3], Append(x, c))
  <2>1. rule = <<VersionStates[k + 1], {VersionStart[k + 1]}, VersionStates[k + 2], "none">>
    BY <1>1, <1>2, RulesFrom, Zenon
  <2>2. rule[2] = {VersionStart[k + 1]} /\ rule[3] = VersionStates[k + 2] /\ rule[4] = "none"
    BY <2>1
  <2>3. k \in Nat /\ k + 1 \in 1 .. Len(VersionStart) /\ k + 1 \in 0 .. 5 /\ k + 1 + 1 = k + 2
    BY StartIs
  <2>4. x \in Seq(Symbols) /\ Append(x, VersionStart[k + 1]) = SubSeq(VersionStart, 1, k + 1)
    BY <1>2, <2>3, StartIs, AppendNext
  <2>5. Reading(rule[3], SubSeq(VersionStart, 1, k + 1))
    <3>1. rule[3] = VersionStates[k + 1 + 1]
      BY <2>2, <2>3
    <3> QED BY <2>3, <3>1 DEF Reading
  <2> QED BY <1>1, <2>2, <2>4, <2>5
<1>3. ASSUME state = "http_version_major_start", x = SubSeq(VersionStart, 1, 5)
      PROVE  rule[4] = "none" /\ x \in Seq(Symbols) /\ Reading(rule[3], Append(x, c))
  <2>1. x = VersionStart /\ x \in Seq(Symbols) /\ "1" \in Symbols
    BY <1>3, StartIs, SymbolSets
  <2>2. rule[3] = "http_version_major" /\ rule[4] = "none" /\ c = "1"
    BY <1>1, <1>3, RulesFrom
  <2>3. Append(x, c) = UpToMajor(<<"1">>)
    BY <2>1, <2>2, AppendIsConcat DEF UpToMajor
  <2> QED BY <2>1, <2>2, <2>3, DigitsAre DEF Reading
<1>4. ASSUME NEW a \in Digits, state = "http_version_major", x = UpToMajor(a)
      PROVE  rule[4] = "none" /\ x \in Seq(Symbols) /\ Reading(rule[3], Append(x, c))
  <2>1. x \in Seq(Symbols) /\ UpToMinor(a) = Append(x, ".")
    BY <1>4, VersionsAre
  <2>2. /\ rule[4] = "none"
        /\ \/ rule[3] = "http_version_minor_start" /\ c = "."
           \/ rule[3] = "http_version_major" /\ c = "1"
    BY <1>1, <1>4, RulesFrom
  <2>3. CASE c = "."
    <3>1. rule[3] = "http_version_minor_start"
      BY <2>2, <2>3
    <3> QED BY <2>1, <2>2, <2>3, <3>1 DEF Reading
  <2>4. CASE c = "1"
    <3> DEFINE y == t \o VersionStart
    <3>1. MoreDigits /\ a \in Seq(Symbols) /\ rule[3] = "http_version_major"
      BY <1>4, <2>2, <2>4, DigitsAre DEF Taken
    <3>2. y \in Seq(Symbols) /\ input = y \o a
      <4>1. t \o (VersionStart \o a) = (t \o VersionStart) \o a
        BY <3>1, StartIs, ConcatTexts, Zenon
      <4> QED BY <1>4, <4>1, StartIs, ConcatProperties DEF UpToMajor
    <3> HIDE DEF y
    <3>3. Append(a, "1") \in Digits
      BY <3>1, <3>2, LastDigits
    <3>4. Append(x, "1") = UpToMajor(Append(a, "1"))
      BY <1>4, <3>1, StartIs, SymbolSets, AppendLast DEF UpToMajor
    <3> QED BY <2>1, <2>2, <2>4, <3>1, <3>3, <3>4 DEF Reading
  <2> QED BY <2>2, <2>3, <2>4
<1>5. ASSUME NEW a \in Digits, state = "http_version_minor_start", x = UpToMinor(a)
      PROVE  rule[4] = "none" /\ x \in Seq(Symbols) /\ Reading(rule[3], Append(x, c))
  <2>1. x \in Seq(Symbols) /\ "1" \in Symbols
    BY <1>5, VersionsAre, SymbolSets
  <2>2. rule[3] = "http_version_minor" /\ rule[4] = "none" /\ c = "1"
    BY <1>1, <1>5, RulesFrom
  <2>3. Append(x, c) = UpToMinor(a) \o <<"1">>
    BY <1>5, <2>1, <2>2, AppendIsConcat
  <2> QED BY <2>1, <2>2, <2>3, DigitsAre DEF Reading
<1>6. ASSUME NEW a \in Digits, NEW b \in Digits, state = "http_version_minor", x = UpToMinor(a) \o b
      PROVE  rule[4] = "none" /\ x \in Seq(Symbols) /\ Reading(rule[3], Append(x, c))
  <2>1. x \in Seq(Symbols) /\ UpToMinor(a) \in Seq(Symbols)
    BY <1>6, VersionsAre
  <2>2. rule[3] = "http_version_minor" /\ rule[4] = "none" /\ c = "1"
    BY <1>1, <1>6, RulesFrom
  <2> DEFINE y == t \o UpToMinor(a)
  <2>3. MoreDigits /\ b \in Seq(Symbols)
    BY <1>6, <2>2, DigitsAre DEF Taken
  <2>4. y \in Seq(Symbols) /\ input = y \o b
    <3>1. t \o (UpToMinor(a) \o b) = (t \o UpToMinor(a)) \o b
      BY <2>1, <2>3, ConcatTexts, Zenon
    <3> QED BY <1>6, <2>1, <3>1, ConcatProperties
  <2> HIDE DEF y
  <2>5. Append(b, "1") \in Digits
    BY <2>3, <2>4, LastDigits
  <2>6. Append(x, "1") = UpToMinor(a) \o Append(b, "1")
    BY <1>6, <2>1, <2>3, SymbolSets, AppendLast
  <2> QED BY <2>1, <2>2, <2>5, <2>6 DEF Reading
<1>7. \A k \in 0 .. 5 : k \in 0 .. 4 \/ k = 5
  OBVIOUS
<1>8. VersionStates[5 + 1] = "http_version_major_start"
  BY DEF VersionStates
<1>9. \/ \E k \in 0 .. 5 : state = VersionStates[k + 1] /\ x = SubSeq(VersionStart, 1, k)
      \/ \E a \in Digits : state = "http_version_major" /\ x = UpToMajor(a)
      \/ \E a \in Digits : state = "http_version_minor_start" /\ x = UpToMinor(a)
      \/ \E a \in Digits, b \in Digits : state = "http_version_minor" /\ x = UpToMinor(a) \o b
  BY Zenon DEF Reading
<1>10. CASE \E k \in 0 .. 5 : state = VersionStates[k + 1] /\ x = SubSeq(VersionStart, 1, k)
  BY <1>2, <1>3, <1>7, <1>8, <1>10
<1> QED BY <1>4, <1>5, <1>6, <1>9, <1>10

(* What was read of a version begins one, and is one at its end.            *)
LEMMA ReadingIs ==
  ASSUME NEW s, NEW x, Reading(s, x)
  PROVE  /\ s \in {VersionStates[k + 1] : k \in 0 .. 8}
         /\ s = "http_version_minor" => x \in Versions
         /\ x \in Seq(Symbols) /\ \E v \in Versions : Continues(v, x)
<1>1. <<"1">> \in Digits /\ \A a \in Digits : UpToMinor(a) \o <<"1">> \in Versions
  BY DigitsAre, VersionsAre
<1>2. ASSUME NEW k \in 0 .. 5, s = VersionStates[k + 1], x = SubSeq(VersionStart, 1, k)
      PROVE  s # "http_version_minor" /\ x \in Seq(Symbols) /\ \E v \in Versions : Continues(v, x)
  <2>1. k \in 0 .. Len(VersionStart)
    BY StartIs
  <2>2. x \in Seq(Symbols) /\ Continues(VersionStart, x)
    BY <1>2, <2>1, StartIs, FirstContinue
  <2> DEFINE a == UpToMajor(<<"1">>)
             b == UpToMinor(<<"1">>)
             v == UpToMinor(<<"1">>) \o <<"1">>
  <2>3. /\ a \in Seq(Symbols) /\ b \in Seq(Symbols) /\ v \in Seq(Symbols) /\ v \in Versions
        /\ Continues(a, VersionStart) /\ Continues(b, a) /\ Continues(v, b)
    BY <1>1, VersionsAre
  <2> HIDE DEF a, b, v
  <2>4. Continues(a, x)
    BY <2>2, <2>3, StartIs, ContinuesOn
  <2>5. Continues(b, x)
    BY <2>2, <2>3, <2>4, ContinuesOn
  <2>6. Continues(v, x)
    BY <2>2, <2>3, <2>5, ContinuesOn
  <2>7. s # "http_version_minor"
    BY <1>2 DEF VersionStates
  <2> QED BY <2>2, <2>3, <2>6, <2>7
<1>3. ASSUME NEW a \in Digits, x = UpToMajor(a) \/ x = UpToMinor(a)
      PROVE  x \in Seq(Symbols) /\ \E v \in Versions : Continues(v, x)
  <2> DEFINE b == UpToMinor(a)
             v == UpToMinor(a) \o <<"1">>
  <2>1. /\ x \in Seq(Symbols) /\ b \in Seq(Symbols) /\ v \in Seq(Symbols) /\ v \in Versions
        /\ Continues(b, UpToMajor(a)) /\ Continues(v, b) /\ UpToMajor(a) \in Seq(Symbols)
    BY <1>1, <1>3, VersionsAre
  <2>2. x = UpToMajor(a) \/ x = b
    BY <1>3
  <2> HIDE DEF b, v
  <2>3. Continues(v, x)
    BY <2>1, <2>2, ContinuesOn
  <2> QED BY <2>1, <2>3
<1>4. ASSUME NEW a \in Digits, NEW b \in Digits, x = UpToMinor(a) \o b
      PROVE  x \in Versions /\ x \in Seq(Symbols) /\ \E v \in Versions : Continues(v, x)
  <2>1. x \in Versions /\ x \in Seq(Symbols)
    BY <1>4, VersionsAre
  <2>2. Continues(x, x)
    BY <2>1 DEF Continues
  <2> QED BY <2>1, <2>2
<1>5. s \in {VersionStates[k + 1] : k \in 0 .. 8}
  <2>1. /\ "http_version_major" = VersionStates[6 + 1] /\ "http_version_minor_start" = VersionStates[7 + 1]
        /\ "http_version_minor" = VersionStates[8 + 1]
    BY DEF VersionStates
  <2>2. 6 \in 0 .. 8 /\ 7 \in 0 .. 8 /\ 8 \in 0 .. 8 /\ \A k \in 0 .. 5 : k \in 0 .. 8
    OBVIOUS
  <2>3. (\E k \in 0 .. 5 : s = VersionStates[k + 1])
        \/ s \in {"http_version_major", "http_version_minor_start", "http_version_minor"}
    BY DEF Reading
  <2>4. CASE \E k \in 0 .. 5 : s = VersionStates[k + 1]
    BY <2>2, <2>4
  <2> QED BY <2>1, <2>2, <2>3, <2>4
<1>6. \/ \E k \in 0 .. 5 : s = VersionStates[k + 1] /\ x = SubSeq(VersionStart, 1, k)
      \/ \E a \in Digits : s \in {"http_version_major", "http_version_minor_start"}
                          /\ (x = UpToMajor(a) \/ x = UpToMinor(a))
      \/ \E a \in Digits, b \in Digits : x = UpToMinor(a) \o b
  BY DEF Reading
<1> QED BY <1>2, <1>3, <1>4, <1>5, <1>6

(* The version, and the end of the first line.                              *)
LEMMA VersionRead ==
  ASSUME HasRead(state, input, req), state \in {"expecting_newline_1"} \cup {VersionStates[k + 1] : k \in 0 .. 8},
         NEW rule, NEW c, Taken(rule, c)
  PROVE  HasRead(rule[3], Append(input, c), Stored(rule[4], c))
<1>1. rule \in Rules /\ c \in Symbols /\ rule[1] = state /\ c \in rule[2]
  BY DEF Taken, Applies
<1>2. InVersion(state, input, req) \/ AfterVersion(state, input, req)
  BY DEF HasRead, AtStart, InMethod, InUri, VersionStates, AtLine, AtEnd, InName, InValue, InFold
<1>3. PICK m \in Words(Token, 1), u \in Words(Text \ {"space"}, 0) :
        /\ req = NewRequest(m, u)
        /\ \/ \E x : Reading(state, x) /\ input = UpToVersion(m, u) \o x
           \/ \E v \in Versions : state = "expecting_newline_1" /\ input = Append(UpToVersion(m, u) \o v, "CR")
  BY <1>2 DEF InVersion, AfterVersion
<1> DEFINE t == UpToVersion(m, u)
<1>4. t \in Seq(Symbols)
  BY WordsAre, UpToType, SymbolSets, EmptySeq
<1> HIDE DEF t
<1>5. ASSUME NEW x, Reading(state, x), input = t \o x
      PROVE  HasRead(rule[3], Append(input, c), Stored(rule[4], c))
  <2>1. CASE c # "CR"
    <3>1. rule[4] = "none" /\ x \in Seq(Symbols) /\ Reading(rule[3], Append(x, c))
      BY <1>4, <1>5, <2>1, ReadingGrows
    <3>2. Stored(rule[4], c) = req
      BY <3>1 DEF Stored
    <3>3. Append(input, c) = t \o Append(x, c)
      BY <1>1, <1>4, <1>5, <3>1, AppendLast
    <3>4. InVersion(rule[3], Append(input, c), req)
      BY <1>3, <3>1, <3>3 DEF InVersion, t
    <3> QED BY <3>2, <3>4 DEF HasRead, Taken
  <2>2. CASE c = "CR"
    <3>1. state \in {VersionStates[k + 1] : k \in 0 .. 8} /\ (state = "http_version_minor" => x \in Versions)
      BY <1>5, ReadingIs
    <3>2. state = "http_version_minor" /\ rule[3] = "expecting_newline_1" /\ rule[4] = "none"
      <4>1. PICK k \in 0 .. 8 : state = VersionStates[k + 1]
        BY <3>1
      <4>2. CASE k \in 0 .. 4
        <5>1. rule[2] = {VersionStart[k + 1]}
          <6>1. rule = <<VersionStates[k + 1], {VersionStart[k + 1]}, VersionStates[k + 2], "none">>
            BY <1>1, <4>1, <4>2, RulesFrom, Zenon
          <6> QED BY <6>1
        <5>2. VersionStart[k + 1] # "CR"
          BY <4>2, StartIs
        <5> QED BY <1>1, <2>2, <5>1, <5>2
      <4>3. CASE k \in 5 .. 8
        <5>1. state \in {"http_version_major_start", "http_version_major", "http_version_minor_start",
                         "http_version_minor"}
          BY <4>1, <4>3 DEF VersionStates
        <5> QED BY <1>1, <2>2, <5>1, RulesFrom
      <4> QED BY <4>2, <4>3
    <3>3. Stored(rule[4], c) = req
      BY <3>2 DEF Stored
    <3>4. AfterVersion(rule[3], Append(input, c), req)
      BY <1>3, <1>5, <2>2, <3>1, <3>2 DEF AfterVersion, t
    <3> QED BY <3>3, <3>4 DEF HasRead, Taken
  <2> QED BY <2>1, <2>2
<1>6. ASSUME NEW v \in Versions, state = "expecting_newline_1", input = Append(t \o v, "CR")
      PROVE  HasRead(rule[3], Append(input, c), Stored(rule[4], c))
  <2>1. rule[2] = {"LF"} /\ rule[3] = "header_line_start" /\ rule[4] = "none"
    BY <1>1, <1>6, RulesFrom
  <2>2. Stored(rule[4], c) = req /\ c = "LF"
    BY <1>1, <2>1 DEF Stored
  <2>3. t \o v \in Seq(Symbols)
    BY <1>4, VersionsAre, ConcatProperties
  <2>4. Append(input, c) = t \o v \o CRLF
    BY <1>6, <2>2, <2>3, LineEnd
  <2>5. <<Append(input, c), req>> \in RequestLines
    <3> DEFINE p == <<Append(input, c), req>>
    <3>1. p = <<t \o v \o CRLF, NewRequest(m, u)>> /\ p[2] = req
      BY <1>3, <2>4
    <3>2. TextOf(p[2]) <= MaxText
      BY <3>1 DEF HasRead
    <3> HIDE DEF p
    <3>3. p \in RequestLines
      BY <3>1, <3>2, RequestLineIs DEF t
    <3> QED BY <3>3 DEF p
  <2>6. 0 \in 0 .. MaxText /\ Heads[0] = RequestLines
    BY HeadsAre
  <2>7. AtLine(rule[3], Append(input, c), req)
    BY <2>1, <2>5, <2>6 DEF AtLine
  <2> QED BY <2>2, <2>7 DEF HasRead, Taken
<1> QED BY <1>3, <1>5, <1>6 DEF t

-----------------------------------------------------------------------------
(* A line that begins.                                                      *)
LEMMA FirstHeader ==
  ASSUME NEW p \in Header(RequestLines)
  PROVE  /\ IsHead(p, 1)
         /\ \E r \in RequestType, name \in Seq(Symbols), value \in Seq(Symbols) :
              p[2] = WithHeader(r, name, value)
<1>1. IsHead(p, 1)
  <2>1. \A q \in RequestLines : IsHead(q, 0)
    BY RequestLineType
  <2> QED BY <2>1, HeaderType
<1>2. PICK q \in RequestLines, name \in Words(Token, 1), value \in Words(Text, 0) :
        /\ p = <<UpToValue(q[1], name, value) \o CRLF, WithHeader(q[2], name, value)>>
        /\ TextOf(p[2]) <= MaxText
  BY HeaderIs, Zenon
<1>3. p[2] = WithHeader(q[2], name, value)
  BY <1>2
<1>4. q[2] \in RequestType /\ name \in Seq(Symbols) /\ value \in Seq(Symbols)
  BY RequestLineType, WordsAre DEF IsHead
<1> QED BY <1>1, <1>3, <1>4

(* A symbol that a client writes is a word.                                 *)
LEMMA OneSymbol ==
  ASSUME NEW C \in SUBSET Symbols, NEW c \in C \cap Written
  PROVE  <<c>> \in Words(C, 1) /\ <<c>> \in Words(C, 0)
<1>1. <<c>> \in Seq(C \cap Written) /\ Len(<<c>>) = 1
  OBVIOUS
<1>2. 1 \in Nat /\ 1 <= Len(<<c>>) /\ 0 <= Len(<<c>>) /\ Len(<<c>>) <= MaxText
  BY <1>1
<1> QED BY <1>1, <1>2, WordIs

(* A line that begins: a header, a continued value, or the end.             *)
LEMMA LineRead ==
  ASSUME HasRead(state, input, req), state = "header_line_start", NEW rule, NEW c, Taken(rule, c)
  PROVE  HasRead(rule[3], Append(input, c), Stored(rule[4], c))
<1>1. rule \in Rules /\ c \in Symbols /\ rule[1] = state /\ c \in rule[2]
  BY DEF Taken, Applies
<1>2. PICK n \in 0 .. MaxText : <<input, req>> \in Heads[n]
  <2>1. AtLine(state, input, req)
    BY InVersionState DEF HasRead, AtStart, InMethod, InUri, AfterVersion, AtEnd, InName, InValue, InFold
  <2> QED BY <2>1 DEF AtLine
<1>3. PICK p \in Heads[n] : p[1] = input /\ p[2] = req
  BY <1>2
<1>4. IsHead(p, n)
  BY HeadsType
<1>5. /\ input \in Seq(Symbols) /\ req \in RequestType /\ Len(req.headers) = n
      /\ LineFeeds(input) \in Nat /\ n < LineFeeds(input)
  BY <1>3, <1>4 DEF IsHead
<1>6. \/ rule = <<"header_line_start", {"CR"}, "expecting_newline_3", "none">>
      \/ rule = <<"header_line_start", Blank, "header_lws", "none">>
      \/ rule = <<"header_line_start", Token, "header_name", "header">>
  BY <1>1, RulesFrom
<1>7. Append(input, c) = input \o <<c>>
  BY <1>1, <1>5, AppendIsConcat
<1>8. CASE rule[3] = "expecting_newline_3"
  <2>1. Stored(rule[4], c) = req /\ c = "CR"
    BY <1>1, <1>6, <1>8 DEF Stored
  <2>2. AtEnd(rule[3], Append(input, c), req)
    BY <1>3, <1>8, <2>1 DEF AtEnd
  <2> QED BY <2>1, <2>2 DEF HasRead, Taken
<1>9. CASE rule[3] = "header_name"
  <2>1. c \in Token /\ rule[4] = "header"
    BY <1>1, <1>6, <1>9
  <2>2. Stored(rule[4], c) = WithHeader(req, <<c>>, <<>>)
    BY <2>1 DEF Stored, WithHeader
  <2>3. <<c>> \in Words(Token, 1)
    BY <2>1, WordsAre, OneSymbol DEF Taken
  <2>4. InName(rule[3], Append(input, c), Stored(rule[4], c))
    BY <1>3, <1>7, <1>9, <2>2, <2>3 DEF InName
  <2> QED BY <2>4 DEF HasRead, Taken
<1>10. CASE rule[3] = "header_lws"
  <2>1. c \in Blank /\ Stored(rule[4], c) = req
    BY <1>1, <1>6, <1>10 DEF Stored
  <2>2. req.headers # <<>> /\ LineFeeds(input) <= 2
    BY <1>10 DEF Taken, Applies
  <2>3. n = 1
    <3>1. n # 0
      BY <1>5, <2>2 DEF RequestType
    <3> QED BY <1>5, <2>2, <3>1
  <2>4. p \in Header(RequestLines)
    <3>1. Heads[1] = Header(RequestLines) \cup Folded(Header(RequestLines))
      BY <2>3, HeadsAre
    <3>2. p \notin Folded(Header(RequestLines))
      BY <1>3, <1>5, <2>2, FoldedType
    <3> QED BY <2>3, <3>1, <3>2
  <2>5. Continued(p[2], <<>>) = p[2]
    <3>1. PICK r \in RequestType, name \in Seq(Symbols), value \in Seq(Symbols) : p[2] = WithHeader(r, name, value)
      BY <2>4, FirstHeader
    <3>2. <<>> \in Seq(Symbols) /\ value \o <<>> = value
      BY ConcatEmptySeq, EmptySeq
    <3> DEFINE e == <<>>
    <3> HIDE DEF e
    <3>4. Continued(WithHeader(r, name, value), e) = WithHeader(r, name, value \o e)
      BY <3>1, ContinuedIs
    <3>3. Continued(p[2], <<>>) = WithHeader(r, name, value \o <<>>)
      BY <3>1, <3>4 DEF e
    <3> QED BY <3>1, <3>2, <3>3
  <2>6. Append(input, c) = UpToFold(p[1], c, <<>>)
    <3>1. input \o <<c>> \in Seq(Symbols)
      BY <1>1, <1>5, <1>7
    <3> QED BY <1>3, <1>7, <3>1, ConcatEmptySeq DEF UpToFold
  <2>7. InFold(rule[3], Append(input, c), req)
    BY <1>3, <1>10, <2>1, <2>4, <2>5, <2>6, WordsAre DEF InFold
  <2> QED BY <2>1, <2>7 DEF HasRead, Taken
<1> QED BY <1>6, <1>8, <1>9, <1>10

(* A header's name.                                                         *)
LEMMA NameRead ==
  ASSUME HasRead(state, input, req), state \in {"header_name", "space_before_header_value"},
         NEW rule, NEW c, Taken(rule, c)
  PROVE  HasRead(rule[3], Append(input, c), Stored(rule[4], c))
<1>1. rule \in Rules /\ c \in Symbols /\ rule[1] = state /\ c \in rule[2]
  BY DEF Taken, Applies
<1>2. PICK n \in 0 .. MaxText : \E p \in Heads[n] : \E name \in Words(Token, 1) :
        /\ req = WithHeader(p[2], name, <<>>)
        /\ \/ state = "header_name" /\ input = p[1] \o name
           \/ state = "space_before_header_value" /\ input = Append(p[1] \o name, ":")
  <2>1. InName(state, input, req)
    BY InVersionState DEF HasRead, AtStart, InMethod, InUri, AfterVersion, AtLine, AtEnd, InValue, InFold
  <2> QED BY <2>1 DEF InName
<1>3. PICK p \in Heads[n], name \in Words(Token, 1) :
        /\ req = WithHeader(p[2], name, <<>>)
        /\ \/ state = "header_name" /\ input = p[1] \o name
           \/ state = "space_before_header_value" /\ input = Append(p[1] \o name, ":")
  BY <1>2
<1>4. p[1] \in Seq(Symbols) /\ p[2] \in RequestType /\ TextOf(p[2]) \in Nat
  BY HeadsType DEF IsHead
<1>5. name \in Seq(Symbols) /\ Len(name) \in Nat /\ name \in Words(Token, 0)
  BY WordsAre
<1>6. p[1] \o name \in Seq(Symbols) /\ <<>> \in Seq(Symbols) /\ Len(<<>>) = 0
  BY <1>4, <1>5, ConcatProperties, EmptySeq
<1>7. CASE rule[3] = "space_before_header_value"
  <2>1. Stored(rule[4], c) = req /\ c = ":" /\ state = "header_name"
    BY <1>1, <1>7, RulesFrom DEF Stored
  <2>2. InName(rule[3], Append(input, c), req)
    BY <1>3, <1>7, <2>1 DEF InName
  <2> QED BY <2>1, <2>2 DEF HasRead, Taken
<1>8. CASE rule[3] = "header_name"
  <2>1. rule[4] = "name" /\ c \in Token /\ state = "header_name"
    BY <1>1, <1>8, RulesFrom
  <2>2. Stored(rule[4], c) = WithHeader(p[2], Append(name, c), <<>>)
    <3> DEFINE e == <<>>
    <3>2. e \in Seq(Symbols) /\ req = WithHeader(p[2], name, e)
      BY <1>3, <1>6
    <3> HIDE DEF e
    <3>3. Stored("name", c) = WithHeader(p[2], Append(name, c), e)
      BY <1>4, <1>5, <3>2, StoredIs
    <3>1. Stored("name", c) = WithHeader(p[2], Append(name, c), <<>>)
      BY <3>3 DEF e
    <3> QED BY <2>1, <3>1
  <2>3. Append(name, c) \in Seq(Symbols) /\ Len(Append(name, c)) = Len(name) + 1
    BY <1>1, <1>5
  <2>4. Len(name) < MaxText
    <3>1. TextOf(Stored(rule[4], c)) = TextOf(p[2]) + Len(Append(name, c)) + Len(<<>>)
      <4> DEFINE w == Append(name, c)
                 e == <<>>
      <4>1. w \in Seq(Symbols) /\ e \in Seq(Symbols)
        BY <1>6, <2>3
      <4> HIDE DEF w, e
      <4>2. TextOf(WithHeader(p[2], w, e)) = TextOf(p[2]) + Len(w) + Len(e)
        BY <1>4, <4>1, TextWith
      <4> QED BY <2>2, <4>2 DEF w, e
    <3> QED BY <1>4, <1>5, <1>6, <2>3, <3>1 DEF Taken
  <2>5. Append(name, c) \in Words(Token, 1)
    BY <1>5, <2>1, <2>4, WordGrows, WordsAre DEF Taken
  <2>6. Append(input, c) = p[1] \o Append(name, c)
    <3>1. Append(p[1] \o name, c) = p[1] \o Append(name, c)
      BY <1>1, <1>4, <1>5, AppendLast
    <3> QED BY <1>3, <2>1, <3>1
  <2>7. InName(rule[3], Append(input, c), Stored(rule[4], c))
    BY <1>8, <2>2, <2>5, <2>6 DEF InName
  <2> QED BY <2>7 DEF HasRead, Taken
<1>9. CASE rule[3] = "header_value"
  <2>1. Stored(rule[4], c) = req /\ c = "space" /\ state = "space_before_header_value"
    BY <1>1, <1>9, RulesFrom DEF Stored
  <2>2. Append(input, c) = p[1] \o name \o <<":", "space">>
    <3> DEFINE t == p[1] \o name
    <3>1. t \in Seq(Symbols) /\ ":" \in Symbols /\ "space" \in Symbols
      BY <1>6, SymbolSets
    <3> HIDE DEF t
    <3>2. t \o <<":", "space">> = Append(Append(t, ":"), "space")
      BY <3>1, AppendTwo
    <3> QED BY <1>3, <2>1, <3>2 DEF t
  <2>3. Append(input, c) \in Seq(Symbols)
    <3> DEFINE t == p[1] \o name
    <3>1. t \in Seq(Symbols)
      BY <1>6
    <3> HIDE DEF t
    <3>2. Append(Append(t, ":"), "space") \in Seq(Symbols)
      BY <3>1, SymbolSets
    <3> QED BY <1>3, <2>1, <3>2 DEF t
  <2>4. Append(input, c) = UpToValue(p[1], name, <<>>)
    BY <2>2, <2>3, ConcatEmptySeq DEF UpToValue
  <2>5. InValue(rule[3], Append(input, c), req)
    BY <1>3, <1>9, <2>1, <2>4, WordsAre DEF InValue
  <2> QED BY <2>1, <2>5 DEF HasRead, Taken
<1> QED BY <1>1, <1>7, <1>8, <1>9, RulesFrom

(* A header after those of a text makes a text with one more.               *)
LEMMA NextHead ==
  ASSUME NEW n \in 0 .. MaxText, NEW h \in Header(Heads[n])
  PROVE  n + 1 \in 0 .. MaxText /\ h \in Heads[n + 1]
<1>1. IsHead(h, n + 1)
  <2>1. \A q \in Heads[n] : IsHead(q, n)
    BY HeadsType
  <2> QED BY <2>1, HeaderType
<1>2. n + 1 \in 0 .. MaxText /\ n + 1 - 1 = n
  BY <1>1 DEF IsHead
<1>3. CASE n = 0
  <2>1. Heads[0] = RequestLines /\ Heads[1] = Header(RequestLines) \cup Folded(Header(RequestLines))
    BY <1>2, <1>3, HeadsAre
  <2> QED BY <1>2, <1>3, <2>1
<1>4. CASE n # 0
  <2>1. n + 1 > 1
    BY <1>4
  <2>2. Heads[n + 1] = Header(Heads[n])
    BY <1>2, <2>1, HeadsAre
  <2> QED BY <1>2, <2>2
<1> QED BY <1>3, <1>4

(* A header's value.                                                        *)
LEMMA ValueRead ==
  ASSUME HasRead(state, input, req), InValue(state, input, req), NEW rule, NEW c, Taken(rule, c)
  PROVE  HasRead(rule[3], Append(input, c), Stored(rule[4], c))
<1>1. rule \in Rules /\ c \in Symbols /\ rule[1] = state /\ c \in rule[2]
  BY DEF Taken, Applies
<1>3. PICK n \in 0 .. MaxText :
        \E p \in Heads[n] : \E name \in Words(Token, 1), value \in Words(Text, 0) :
          /\ req = WithHeader(p[2], name, value)
          /\ \/ state = "header_value" /\ input = UpToValue(p[1], name, value)
             \/ state = "expecting_newline_2" /\ input = Append(UpToValue(p[1], name, value), "CR")
  BY DEF InValue
<1>2. PICK p \in Heads[n], name \in Words(Token, 1), value \in Words(Text, 0) :
        /\ req = WithHeader(p[2], name, value)
        /\ \/ state = "header_value" /\ input = UpToValue(p[1], name, value)
           \/ state = "expecting_newline_2" /\ input = Append(UpToValue(p[1], name, value), "CR")
  BY <1>3
<1>4. p[1] \in Seq(Symbols) /\ p[2] \in RequestType /\ TextOf(p[2]) \in Nat /\ IsHead(p, n)
  BY HeadsType DEF IsHead
<1>5. name \in Seq(Symbols) /\ Len(name) \in Nat /\ value \in Seq(Symbols) /\ Len(value) \in Nat
  BY WordsAre
<1>6. UpToValue(p[1], name, value) \in Seq(Symbols)
  BY <1>4, <1>5, UpToType, SymbolSets
<1>7. CASE state = "header_value" /\ rule[3] = "expecting_newline_2"
  <2>1. Stored(rule[4], c) = req /\ c = "CR"
    BY <1>1, <1>7, RulesFrom DEF Stored
  <2>2. InValue(rule[3], Append(input, c), req)
    BY <1>2, <1>7, <2>1 DEF InValue
  <2> QED BY <2>1, <2>2 DEF HasRead, Taken
<1>8. CASE state = "header_value" /\ rule[3] = "header_value"
  <2>1. rule[4] = "value" /\ c \in Text
    BY <1>1, <1>8, RulesFrom
  <2>2. Stored(rule[4], c) = WithHeader(p[2], name, Append(value, c))
    <3>1. Stored("value", c) = WithHeader(p[2], name, Append(value, c))
      BY <1>2, <1>4, <1>5, StoredIs
    <3> QED BY <2>1, <3>1
  <2>3. Append(value, c) \in Seq(Symbols) /\ Len(Append(value, c)) = Len(value) + 1
    BY <1>1, <1>5
  <2>4. Len(value) < MaxText
    <3>1. TextOf(Stored(rule[4], c)) = TextOf(p[2]) + Len(name) + Len(Append(value, c))
      <4> DEFINE w == Append(value, c)
      <4>1. w \in Seq(Symbols)
        BY <2>3
      <4> HIDE DEF w
      <4>2. TextOf(WithHeader(p[2], name, w)) = TextOf(p[2]) + Len(name) + Len(w)
        BY <1>4, <1>5, <4>1, TextWith
      <4> QED BY <2>2, <4>2 DEF w
    <3> QED BY <1>4, <1>5, <2>3, <3>1 DEF Taken
  <2>5. Append(value, c) \in Words(Text, 0)
    BY <2>1, <2>4, WordGrows, WordsAre DEF Taken
  <2> DEFINE t == p[1] \o name \o <<":", "space">>
  <2>6. Append(input, c) = UpToValue(p[1], name, Append(value, c))
    <3>1. t \in Seq(Symbols)
      <4>1. p[1] \o name \in Seq(Symbols) /\ <<":", "space">> \in Seq(Symbols)
        BY <1>4, <1>5, ConcatProperties, SymbolSets
      <4> QED BY <4>1, ConcatProperties
    <3>2. input = t \o value
      BY <1>2, <1>8 DEF UpToValue
    <3> HIDE DEF t
    <3>3. Append(input, c) = t \o Append(value, c)
      BY <1>1, <1>5, <3>1, <3>2, AppendLast
    <3> QED BY <3>3 DEF UpToValue, t
  <2>7. InValue(rule[3], Append(input, c), Stored(rule[4], c))
    BY <1>8, <2>2, <2>5, <2>6 DEF InValue
  <2> QED BY <2>7 DEF HasRead, Taken
<1>9. CASE state = "expecting_newline_2"
  <2>1. Stored(rule[4], c) = req /\ c = "LF" /\ rule[3] = "header_line_start"
    BY <1>1, <1>9, RulesFrom DEF Stored
  <2>2. Append(input, c) = UpToValue(p[1], name, value) \o CRLF
    BY <1>2, <1>6, <1>9, <2>1, LineEnd
  <2> DEFINE h == <<Append(input, c), req>>
  <2>3. h = <<UpToValue(p[1], name, value) \o CRLF, WithHeader(p[2], name, value)>> /\ h[2] = req
    BY <1>2, <2>2
  <2>4. TextOf(h[2]) <= MaxText
    BY <2>3 DEF HasRead
  <2> HIDE DEF h
  <2>5. h \in Header(Heads[n])
    BY <2>3, <2>4, HeaderIs, Zenon
  <2>7. n + 1 \in 0 .. MaxText /\ h \in Heads[n + 1]
    BY <2>5, NextHead
  <2>9. AtLine(rule[3], Append(input, c), req)
    BY <2>1, <2>7 DEF AtLine, h
  <2> QED BY <2>1, <2>9 DEF HasRead, Taken
<1> QED BY <1>1, <1>2, <1>7, <1>8, <1>9, RulesFrom

(* A value that is continued.                                               *)
LEMMA FoldRead ==
  ASSUME HasRead(state, input, req), InFold(state, input, req), NEW rule, NEW c, Taken(rule, c)
  PROVE  HasRead(rule[3], Append(input, c), Stored(rule[4], c))
<1>1. rule \in Rules /\ c \in Symbols /\ rule[1] = state /\ c \in rule[2]
  BY DEF Taken, Applies
<1>2. PICK p \in Header(RequestLines), b \in Blank, more \in Words(Text, 0) :
        /\ more = <<>> \/ more[1] # "space"
        /\ req = Continued(p[2], more)
        /\ \/ state = "header_lws" /\ more = <<>> /\ input = UpToFold(p[1], b, more)
           \/ state = "header_value" /\ more # <<>> /\ input = UpToFold(p[1], b, more)
           \/ state = "expecting_newline_2" /\ input = Append(UpToFold(p[1], b, more), "CR")
  BY DEF InFold
<1>3. PICK r \in RequestType, name \in Seq(Symbols), value \in Seq(Symbols) : p[2] = WithHeader(r, name, value)
  BY FirstHeader
<1>4. p[1] \in Seq(Symbols) /\ b \in Symbols /\ more \in Seq(Symbols) /\ Len(more) \in Nat
  BY FirstHeader, WordsAre, SymbolSets DEF IsHead
<1>5. UpToFold(p[1], b, more) \in Seq(Symbols)
  BY <1>4, UpToType, SymbolSets
<1>6. CASE state \in {"header_lws", "header_value"} /\ rule[3] = "expecting_newline_2"
  <2>1. Stored(rule[4], c) = req /\ c = "CR"
    BY <1>1, <1>6, RulesFrom DEF Stored
  <2>2. InFold(rule[3], Append(input, c), req)
    BY <1>2, <1>6, <2>1 DEF InFold
  <2> QED BY <2>1, <2>2 DEF HasRead, Taken
<1>7. CASE state \in {"header_lws", "header_value"} /\ rule[3] = "header_value"
  <2>1. rule[4] = "value" /\ c \in Text /\ (state = "header_lws" => c # "space")
    BY <1>1, <1>7, RulesFrom DEF Blank
  <2> DEFINE v == value \o more
             w == Append(more, c)
  <2>2. v \in Seq(Symbols) /\ w \in Seq(Symbols) /\ Len(w) = Len(more) + 1 /\ Append(v, c) \in Seq(Symbols)
    BY <1>1, <1>3, <1>4, ConcatProperties
  <2>3. req = WithHeader(r, name, v)
    BY <1>2, <1>3, <1>4, ContinuedIs
  <2>4. Append(v, c) = value \o w
    BY <1>1, <1>3, <1>4, AppendLast
  <2>5. w # <<>> /\ w[1] # "space"
    <3>1. CASE more = <<>>
      <4>1. w[1] = c /\ state = "header_lws"
        BY <1>1, <1>2, <1>7, <3>1
      <4> QED BY <2>1, <2>2, <4>1, <1>4, EmptySeq
    <3>2. CASE more # <<>>
      <4>1. w[1] = more[1]
        BY <1>1, <1>4, <3>2
      <4> QED BY <1>2, <1>4, <2>2, <3>2, <4>1, EmptySeq
    <3> QED BY <3>1, <3>2
  <2> HIDE DEF v, w
  <2>6. Stored(rule[4], c) = WithHeader(r, name, Append(v, c))
    <3>1. Stored("value", c) = WithHeader(r, name, Append(v, c))
      BY <1>3, <2>2, <2>3, StoredIs
    <3> QED BY <2>1, <3>1
  <2>7. Stored(rule[4], c) = Continued(p[2], w)
    BY <1>3, <2>2, <2>4, <2>6, ContinuedIs
  <2>8. Len(more) < MaxText
    <3>1. TextOf(Stored(rule[4], c)) = TextOf(r) + Len(name) + Len(Append(v, c))
      <4> DEFINE y == Append(v, c)
      <4>1. y \in Seq(Symbols)
        BY <2>2
      <4> HIDE DEF y
      <4>2. TextOf(WithHeader(r, name, y)) = TextOf(r) + Len(name) + Len(y)
        BY <1>3, <4>1, TextWith
      <4> QED BY <2>6, <4>2 DEF y
    <3>2. Len(Append(v, c)) = Len(value) + Len(w) /\ Len(value) \in Nat /\ Len(name) \in Nat
      <4>1. Len(value \o w) = Len(value) + Len(w)
        BY <1>3, <2>2, ConcatProperties
      <4> QED BY <1>3, <2>4, <4>1
    <3>3. TextOf(r) \in Nat
      BY <1>3, TextType
    <3> QED BY <1>4, <2>2, <3>1, <3>2, <3>3 DEF Taken
  <2>9. w \in Words(Text, 0)
    BY <2>1, <2>8, WordGrows, WordsAre DEF Taken, w
  <2> DEFINE t == p[1] \o <<b>>
  <2>10. Append(input, c) = UpToFold(p[1], b, w)
    <3>1. t \in Seq(Symbols)
      BY <1>4, ConcatProperties
    <3>2. input = t \o more
      BY <1>2, <1>7 DEF UpToFold
    <3> HIDE DEF t
    <3>3. Append(input, c) = t \o w
      BY <1>1, <1>4, <3>1, <3>2, AppendLast DEF w
    <3> QED BY <3>3 DEF UpToFold, t
  <2>11. InFold(rule[3], Append(input, c), Stored(rule[4], c))
    BY <1>7, <2>5, <2>7, <2>9, <2>10 DEF InFold
  <2> QED BY <2>11 DEF HasRead, Taken
<1>8. CASE state = "expecting_newline_2"
  <2>1. Stored(rule[4], c) = req /\ c = "LF" /\ rule[3] = "header_line_start"
    BY <1>1, <1>8, RulesFrom DEF Stored
  <2>2. Append(input, c) = UpToFold(p[1], b, more) \o CRLF
    BY <1>2, <1>5, <1>8, <2>1, LineEnd
  <2> DEFINE h == <<Append(input, c), req>>
  <2>3. h = <<UpToFold(p[1], b, more) \o CRLF, Continued(p[2], more)>> /\ h[2] = req
    BY <1>2, <2>2
  <2>4. TextOf(h[2]) <= MaxText
    BY <2>3 DEF HasRead
  <2> HIDE DEF h
  <2>5. h \in Folded(Header(RequestLines))
    BY <1>2, <2>3, <2>4, FoldedIs
  <2>6. 1 \in 0 .. MaxText /\ h \in Heads[1]
    BY <2>5, HeadsAre
  <2>7. AtLine(rule[3], Append(input, c), req)
    BY <2>1, <2>6 DEF AtLine, h
  <2> QED BY <2>1, <2>7 DEF HasRead, Taken
<1> QED BY <1>1, <1>2, <1>6, <1>7, <1>8, RulesFrom DEF Taken

(* Whatever a symbol does in any state, the parser has read one symbol more.*)
LEMMA SymbolRead ==
  ASSUME HasRead(state, input, req), NEW rule, NEW c, Taken(rule, c)
  PROVE  HasRead(rule[3], Append(input, c), Stored(rule[4], c))
<1>1. AtEnd(state, input, req) => FALSE
  BY RulesFrom DEF AtEnd, Taken, Applies
<1>2. AtStart(state, input, req) \/ InMethod(state, input, req) => state \in {"method_start", "method"}
  BY DEF AtStart, InMethod
<1>3. InUri(state, input, req) => state = "uri"
  BY DEF InUri
<1>4. InVersion(state, input, req) \/ AfterVersion(state, input, req)
        => state \in {"expecting_newline_1"} \cup {VersionStates[k + 1] : k \in 0 .. 8}
  BY ReadingIs DEF InVersion, AfterVersion
<1>5. AtLine(state, input, req) => state = "header_line_start"
  BY DEF AtLine
<1>6. InName(state, input, req) => state \in {"header_name", "space_before_header_value"}
  BY DEF InName
<1> QED BY <1>1, <1>2, <1>3, <1>4, <1>5, <1>6, MethodRead, UriRead, VersionRead, LineRead, NameRead, ValueRead,
           FoldRead DEF HasRead

-----------------------------------------------------------------------------
(* The end of a line is a sequence of symbols.                              *)
LEMMA CRLFType == CRLF \in Seq(Symbols)
<1>1. "CR" \in Symbols /\ "LF" \in Symbols
  BY SymbolSets
<1> QED BY <1>1 DEF CRLF

(* What the parser has read, a request goes on with.                        *)
LEMMA HeadOpens ==
  ASSUME NEW n \in 0 .. MaxText, NEW p \in Heads[n], NEW t \in Seq(Symbols), Continues(p[1] \o CRLF, t)
  PROVE  t \in Openings
<1>1. <<p[1] \o CRLF, p[2]>> \in Requests
  BY DEF Requests
<1>2. PICK r \in Requests : r[1] = p[1] \o CRLF
  BY <1>1
<1>3. p[1] \o CRLF \in Seq(Symbols)
  BY HeadsType, LineEnd DEF IsHead
<1>4. t \in Prefixes(r[1])
  BY <1>2, <1>3, PrefixesAre
<1> QED BY <1>4 DEF Openings

(* And so with what a text begins with.                                     *)
LEMMA HeadItselfOpens ==
  ASSUME NEW n \in 0 .. MaxText, NEW p \in Heads[n], NEW t \in Seq(Symbols), Continues(p[1], t)
  PROVE  t \in Openings
<1>1. p[1] \in Seq(Symbols) /\ CRLF \in Seq(Symbols)
  BY HeadsType, CRLFType DEF IsHead
<1>2. Continues(p[1] \o CRLF, p[1]) /\ p[1] \o CRLF \in Seq(Symbols)
  BY <1>1, ConcatContinues, ConcatProperties
<1>3. Continues(p[1] \o CRLF, t)
  <2> DEFINE e == p[1] \o CRLF
  <2>1. e \in Seq(Symbols) /\ Continues(e, p[1])
    BY <1>2
  <2> HIDE DEF e
  <2>2. Continues(e, t)
    BY <1>1, <2>1, ContinuesOn
  <2> QED BY <2>2 DEF e
<1> QED BY <1>3, HeadOpens

(* A first line begins a request.                                           *)
LEMMA RequestLineOpens ==
  ASSUME NEW method \in Words(Token, 1), NEW uri \in Words(Text \ {"space"}, 0), NEW version \in Versions,
         TextOf(NewRequest(method, uri)) <= MaxText,
         NEW t \in Seq(Symbols), Continues(UpToVersion(method, uri) \o version \o CRLF, t)
  PROVE  t \in Openings
<1> DEFINE p == <<UpToVersion(method, uri) \o version \o CRLF, NewRequest(method, uri)>>
<1>1. p[1] = UpToVersion(method, uri) \o version \o CRLF /\ p[2] = NewRequest(method, uri)
  OBVIOUS
<1>2. TextOf(p[2]) <= MaxText
  BY <1>1
<1>3. p = <<UpToVersion(method, uri) \o version \o CRLF, NewRequest(method, uri)>>
  OBVIOUS
<1> HIDE DEF p
<1>4. p \in RequestLines
  BY <1>2, <1>3, RequestLineIs
<1>5. 0 \in 0 .. MaxText /\ p \in Heads[0]
  BY <1>4, HeadsAre
<1> QED BY <1>1, <1>5, HeadItselfOpens

(* The parts of a request line go on from each other.                       *)
LEMMA RequestLineGoesOn ==
  ASSUME NEW method \in Words(Token, 1), NEW uri \in Words(Text \ {"space"}, 0), NEW version \in Versions
  PROVE  LET v == UpToVersion(method, uri)
             line == v \o version \o CRLF
         IN  /\ v \in Seq(Symbols) /\ v \o version \in Seq(Symbols) /\ line \in Seq(Symbols)
             /\ Continues(line, v \o version) /\ Continues(line, v)
             /\ Append(method, "space") \o uri \in Seq(Symbols)
             /\ Append(Append(method, "space") \o uri, "space") = v
             /\ Continues(v, Append(method, "space") \o uri) /\ Continues(v, method)
<1> DEFINE v == UpToVersion(method, uri)
           w == v \o version
           line == w \o CRLF
           m == Append(method, "space")
           x == m \o uri
<1>1. method \in Seq(Symbols) /\ uri \in Seq(Symbols) /\ "space" \in Symbols /\ CRLF \in Seq(Symbols)
  BY WordsAre, SymbolSets, CRLFType
<1>2. m \in Seq(Symbols) /\ method \o <<"space">> = m /\ Continues(m, method)
  BY <1>1, AppendElements, AppendIsConcat, AppendContinues
<1>3. v = x \o <<"space">>
  BY <1>2 DEF UpToVersion
<1> HIDE DEF m
<1>4. x \in Seq(Symbols) /\ Continues(x, m)
  BY <1>1, <1>2, ConcatProperties, ConcatContinues
<1> HIDE DEF x
<1>5. Append(x, "space") = x \o <<"space">> /\ Append(x, "space") \in Seq(Symbols)
      /\ Continues(Append(x, "space"), x)
  BY <1>1, <1>4, AppendIsConcat, AppendElements, AppendContinues
<1>6. v = Append(x, "space") /\ v \in Seq(Symbols) /\ Continues(v, x)
  BY <1>3, <1>5
<1> HIDE DEF v
<1>7. Continues(v, m)
  BY <1>2, <1>4, <1>6, ContinuesOn
<1>8. Continues(v, method)
  BY <1>1, <1>2, <1>6, <1>7, ContinuesOn
<1>9. w \in Seq(Symbols) /\ Continues(w, v)
  BY <1>6, VersionsAre, ConcatProperties, ConcatContinues
<1> HIDE DEF w
<1>10. line \in Seq(Symbols) /\ Continues(line, w)
  BY <1>1, <1>9, ConcatProperties, ConcatContinues
<1> HIDE DEF line
<1>11. Continues(line, v)
  BY <1>6, <1>9, <1>10, ContinuesOn
<1> QED BY <1>4, <1>6, <1>8, <1>9, <1>10, <1>11 DEF v, w, line, m, x

(* A text goes on with the same as its second part.                         *)
LEMMA BothContinue ==
  ASSUME NEW a \in Seq(Symbols), NEW b \in Seq(Symbols), NEW c \in Seq(Symbols), Continues(b, c)
  PROVE  a \o c \in Seq(Symbols) /\ Continues(a \o b, a \o c)
<1>1. /\ Len(a) \in Nat /\ Len(b) \in Nat /\ Len(c) \in Nat /\ Len(c) <= Len(b)
      /\ Len(a \o b) = Len(a) + Len(b) /\ Len(a \o c) = Len(a) + Len(c)
      /\ a \o c \in Seq(Symbols)
  BY ConcatProperties DEF Continues
<1>2. \A i \in 1 .. Len(a) + Len(b) : (a \o b)[i] = IF i <= Len(a) THEN a[i] ELSE b[i - Len(a)]
  BY ConcatProperties, Zenon
<1>3. \A i \in 1 .. Len(a) + Len(c) : (a \o c)[i] = IF i <= Len(a) THEN a[i] ELSE c[i - Len(a)]
  BY ConcatProperties, Zenon
<1>4. \A i \in 1 .. Len(a) + Len(c) : ~(i <= Len(a)) => i - Len(a) \in 1 .. Len(c)
  BY <1>1
<1>5. \A i \in 1 .. Len(a) + Len(c) : i \in 1 .. Len(a) + Len(b)
  BY <1>1
<1>6. \A i \in 1 .. Len(a) + Len(c) : (a \o b)[i] = (a \o c)[i]
  BY <1>2, <1>3, <1>4, <1>5 DEF Continues
<1> QED BY <1>1, <1>6 DEF Continues

(* A line that is closed, with its first symbol or not.                     *)
LEMMA LineBegins ==
  ASSUME NEW a \in Seq(Symbols), NEW t, t = a \/ t = Append(a, "CR")
  PROVE  Continues(a \o CRLF, t)
<1>1. "CR" \in Symbols /\ "LF" \in Symbols /\ CRLF \in Seq(Symbols)
  BY SymbolSets, CRLFType
<1>2. Continues(a \o CRLF, a)
  BY <1>1, ConcatContinues
<1> DEFINE b == Append(a, "CR")
<1>3. b \in Seq(Symbols) /\ a \o CRLF = Append(b, "LF")
  BY LineEnd
<1> HIDE DEF b
<1>4. Continues(a \o CRLF, b)
  BY <1>1, <1>3, AppendContinues
<1> QED BY <1>2, <1>4 DEF b

(* Whatever the parser has read, there is a request that goes on with it.   *)
LEMMA Opens ==
  ASSUME NEW s, NEW t \in Seq(Symbols), NEW r, HasRead(s, t, r)
  PROVE  t \in Openings
<1>0. TextOf(r) <= MaxText
  BY DEF HasRead
<1>14. PICK version \in Versions : TRUE
  <2>1. Reading(VersionStates[0 + 1], SubSeq(VersionStart, 1, 0))
    BY DEF Reading
  <2> QED BY <2>1, ReadingIs
<1>1. CASE AtStart(s, t, r)
  <2> DEFINE m == <<"H">>
             u == <<>>
  <2>1. m \in Words(Token, 1) /\ u \in Words(Text \ {"space"}, 0) /\ Len(m) = 1 /\ Len(u) = 0
    <3>1. "H" \in Token /\ "H" \in Written
      BY DEF Token, Written, Symbols, Ctl, Special
    <3> QED BY <3>1, OneSymbol, WordsAre, EmptySeq
  <2> HIDE DEF m, u
  <2>2. TextOf(NewRequest(m, u)) <= MaxText
    <3>1. m \in Seq(Symbols) /\ u \in Seq(Symbols)
      BY <2>1, WordsAre
    <3>2. TextOf(NewRequest(m, u)) = Len(m) + Len(u)
      BY <3>1, NewRequestType
    <3> QED BY <2>1, <3>2
  <2>3. UpToVersion(m, u) \o version \o CRLF \in Seq(Symbols)
    BY <2>1, RequestLineGoesOn
  <2>4. Continues(UpToVersion(m, u) \o version \o CRLF, t)
    BY <1>1, <2>3 DEF AtStart, Continues
  <2> QED BY <2>1, <2>2, <2>4, RequestLineOpens
<1>2. CASE InMethod(s, t, r)
  <2> DEFINE u == <<>>
  <2>1. t \in Words(Token, 1) /\ u \in Words(Text \ {"space"}, 0) /\ r = NewRequest(t, u)
    BY <1>2, WordsAre DEF InMethod
  <2> HIDE DEF u
  <2> DEFINE v == UpToVersion(t, u)
             line == UpToVersion(t, u) \o version \o CRLF
  <2>2. v \in Seq(Symbols) /\ line \in Seq(Symbols) /\ Continues(line, v) /\ Continues(v, t)
    BY <2>1, RequestLineGoesOn
  <2> HIDE DEF v, line
  <2>3. Continues(line, t)
    BY <2>2, ContinuesOn
  <2> QED BY <1>0, <2>1, <2>3, RequestLineOpens DEF line
<1>3. CASE InUri(s, t, r)
  <2>1. PICK m \in Words(Token, 1), u \in Words(Text \ {"space"}, 0) :
          t = Append(m, "space") \o u /\ r = NewRequest(m, u)
    BY <1>3 DEF InUri
  <2> DEFINE v == UpToVersion(m, u)
             line == UpToVersion(m, u) \o version \o CRLF
  <2>2. v \in Seq(Symbols) /\ line \in Seq(Symbols) /\ Continues(line, v) /\ Continues(v, t)
    BY <2>1, RequestLineGoesOn
  <2> HIDE DEF v, line
  <2>3. Continues(line, t)
    BY <2>2, ContinuesOn
  <2> QED BY <1>0, <2>1, <2>3, RequestLineOpens DEF line
<1>4. CASE InVersion(s, t, r)
  <2>1. PICK m \in Words(Token, 1), u \in Words(Text \ {"space"}, 0) :
          r = NewRequest(m, u) /\ \E x : Reading(s, x) /\ t = UpToVersion(m, u) \o x
    BY <1>4 DEF InVersion
  <2>2. PICK x : Reading(s, x) /\ t = UpToVersion(m, u) \o x
    BY <2>1
  <2>3. PICK version2 \in Versions : x \in Seq(Symbols) /\ Continues(version2, x)
    BY <2>2, ReadingIs
  <2> DEFINE v == UpToVersion(m, u)
             w == UpToVersion(m, u) \o version2
             line == UpToVersion(m, u) \o version2 \o CRLF
  <2>4. v \in Seq(Symbols) /\ w \in Seq(Symbols) /\ line \in Seq(Symbols) /\ Continues(line, w)
    BY RequestLineGoesOn
  <2>5. w = v \o version2 /\ t = v \o x /\ version2 \in Seq(Symbols)
    BY <2>2, VersionsAre
  <2> HIDE DEF v, w, line
  <2>6. Continues(w, t)
    BY <2>3, <2>4, <2>5, BothContinue
  <2>7. Continues(line, t)
    BY <2>4, <2>6, ContinuesOn
  <2> QED BY <1>0, <2>1, <2>7, RequestLineOpens DEF line
<1>5. CASE AfterVersion(s, t, r)
  <2>1. PICK m \in Words(Token, 1), u \in Words(Text \ {"space"}, 0), version2 \in Versions :
          t = Append(UpToVersion(m, u) \o version2, "CR") /\ r = NewRequest(m, u)
    BY <1>5 DEF AfterVersion
  <2> DEFINE w == UpToVersion(m, u) \o version2
  <2>2. w \in Seq(Symbols)
    BY RequestLineGoesOn
  <2>3. t = Append(w, "CR")
    BY <2>1
  <2> HIDE DEF w
  <2>4. Continues(w \o CRLF, t)
    BY <2>2, <2>3, LineEnd, SymbolSets, AppendContinues
  <2> QED BY <1>0, <2>1, <2>4, RequestLineOpens DEF w
<1>6. CASE AtLine(s, t, r)
  <2>1. PICK n \in 0 .. MaxText : <<t, r>> \in Heads[n]
    BY <1>6 DEF AtLine
  <2>2. PICK p \in Heads[n] : p[1] = t
    BY <2>1
  <2> QED BY <2>2, HeadItselfOpens DEF Continues
<1>7. CASE AtEnd(s, t, r)
  <2>1. PICK n \in 0 .. MaxText : \E p \in Heads[n] : t = Append(p[1], "CR")
    BY <1>7 DEF AtEnd
  <2>2. PICK p \in Heads[n] : t = Append(p[1], "CR")
    BY <2>1
  <2>3. p[1] \in Seq(Symbols)
    BY HeadsType DEF IsHead
  <2>4. Continues(p[1] \o CRLF, t)
    BY <2>2, <2>3, LineEnd, SymbolSets, AppendContinues
  <2> QED BY <2>4, HeadOpens
<1>8. ASSUME NEW n \in 0 .. MaxText, NEW p \in Heads[n], NEW name \in Words(Token, 1), NEW value \in Words(Text, 0),
             r = WithHeader(p[2], name, value),
             Continues(UpToValue(p[1], name, value) \o CRLF, t)
      PROVE  t \in Openings
  <2> DEFINE h == <<UpToValue(p[1], name, value) \o CRLF, WithHeader(p[2], name, value)>>
  <2>1. h[1] = UpToValue(p[1], name, value) \o CRLF /\ h[2] = r /\ TextOf(h[2]) <= MaxText
    BY <1>0, <1>8
  <2>2. h = <<UpToValue(p[1], name, value) \o CRLF, WithHeader(p[2], name, value)>>
    OBVIOUS
  <2> HIDE DEF h
  <2>3. h \in Header(Heads[n])
    BY <2>1, <2>2, HeaderIs, Zenon
  <2>4. n + 1 \in 0 .. MaxText /\ h \in Heads[n + 1]
    BY <2>3, NextHead
  <2>5. Continues(h[1], t)
    BY <1>8, <2>1
  <2> QED BY <2>4, <2>5, HeadItselfOpens
<1>9. CASE InName(s, t, r)
  <2>1. PICK n \in 0 .. MaxText : \E p \in Heads[n] : \E name \in Words(Token, 1) :
          /\ r = WithHeader(p[2], name, <<>>)
          /\ t = p[1] \o name \/ t = Append(p[1] \o name, ":")
    BY <1>9 DEF InName
  <2>2. PICK p \in Heads[n], name \in Words(Token, 1) :
          /\ r = WithHeader(p[2], name, <<>>)
          /\ t = p[1] \o name \/ t = Append(p[1] \o name, ":")
    BY <2>1
  <2> DEFINE x == p[1] \o name
             y == Append(x, ":")
             z == Append(y, "space")
             e == <<>>
  <2>3. p[1] \in Seq(Symbols) /\ name \in Seq(Symbols)
    BY HeadsType, WordsAre DEF IsHead
  <2>4. x \in Seq(Symbols)
    BY <2>3, ConcatProperties
  <2> HIDE DEF x
  <2>5. y \in Seq(Symbols) /\ Continues(y, x) /\ Continues(x, x)
    BY <2>4, SymbolSets, AppendContinues DEF Continues
  <2>6. x \o <<":", "space">> = z
    BY <2>4, SymbolSets, AppendTwo
  <2> HIDE DEF y
  <2>7. z \in Seq(Symbols) /\ Continues(z, y)
    BY <2>5, SymbolSets, AppendContinues
  <2>8. e \in Words(Text, 0) /\ z \o e = z
    BY <2>7, WordsAre, ConcatEmptySeq
  <2>9. UpToValue(p[1], name, e) = z
    BY <2>6, <2>8 DEF UpToValue, x
  <2> HIDE DEF z
  <2> DEFINE line == z \o CRLF
  <2>10. line \in Seq(Symbols) /\ Continues(line, z)
    BY <2>7, LineEnd, ConcatContinues, CRLFType
  <2> HIDE DEF line
  <2>11. Continues(line, y)
    BY <2>5, <2>7, <2>10, ContinuesOn
  <2>12. Continues(line, x)
    BY <2>4, <2>5, <2>10, <2>11, ContinuesOn
  <2>13. Continues(line, t)
    BY <2>2, <2>11, <2>12 DEF x, y
  <2>14. r = WithHeader(p[2], name, e)
    BY <2>2
  <2> HIDE DEF e
  <2>15. Continues(UpToValue(p[1], name, e) \o CRLF, t)
    BY <2>9, <2>13 DEF line
  <2> QED BY <1>8, <2>8, <2>14, <2>15
<1>10. CASE InValue(s, t, r)
  <2>1. PICK n \in 0 .. MaxText : \E p \in Heads[n] : \E name \in Words(Token, 1), value \in Words(Text, 0) :
          /\ r = WithHeader(p[2], name, value)
          /\ t = UpToValue(p[1], name, value) \/ t = Append(UpToValue(p[1], name, value), "CR")
    BY <1>10 DEF InValue
  <2>2. PICK p \in Heads[n], name \in Words(Token, 1), value \in Words(Text, 0) :
          /\ r = WithHeader(p[2], name, value)
          /\ t = UpToValue(p[1], name, value) \/ t = Append(UpToValue(p[1], name, value), "CR")
    BY <2>1
  <2>3. UpToValue(p[1], name, value) \in Seq(Symbols)
    BY HeadsType, WordsAre, UpToType, SymbolSets DEF IsHead
  <2>4. Continues(UpToValue(p[1], name, value) \o CRLF, t)
    BY <2>2, <2>3, LineBegins
  <2> QED BY <1>8, <2>2, <2>4
<1>11. CASE InFold(s, t, r)
  <2>1. PICK p \in Header(RequestLines), b \in Blank, more \in Words(Text, 0) :
          /\ more = <<>> \/ more[1] # "space"
          /\ r = Continued(p[2], more)
          /\ t = UpToFold(p[1], b, more) \/ t = Append(UpToFold(p[1], b, more), "CR")
    BY <1>11 DEF InFold
  <2>2. UpToFold(p[1], b, more) \in Seq(Symbols)
    BY FirstHeader, WordsAre, UpToType, SymbolSets DEF IsHead
  <2>3. Continues(UpToFold(p[1], b, more) \o CRLF, t)
    BY <2>1, <2>2, LineBegins
  <2> DEFINE h == <<UpToFold(p[1], b, more) \o CRLF, Continued(p[2], more)>>
  <2>4. h[1] = UpToFold(p[1], b, more) \o CRLF /\ h[2] = r /\ TextOf(h[2]) <= MaxText
    BY <1>0, <2>1
  <2>5. h = <<UpToFold(p[1], b, more) \o CRLF, Continued(p[2], more)>>
    OBVIOUS
  <2> HIDE DEF h
  <2>6. h \in Folded(Header(RequestLines))
    BY <2>1, <2>4, <2>5, FoldedIs
  <2>7. 1 \in 0 .. MaxText /\ h \in Heads[1]
    BY <2>6, HeadsAre
  <2>8. Continues(h[1], t)
    BY <2>3, <2>4
  <2> QED BY <2>7, <2>8, HeadItselfOpens
<1> QED BY <1>1, <1>2, <1>3, <1>4, <1>5, <1>6, <1>7, <1>9, <1>10, <1>11 DEF HasRead

-----------------------------------------------------------------------------
(* The states that a text leads through, each with whether a header has     *)
(* begun.                                                                   *)
Steps(x, c, y) ==
  \E rule \in Rules :
    /\ rule[1] = x[1] /\ c \in rule[2]
    /\ rule[3] = "header_lws" /\ x[1] = "header_line_start" => x[2] = "later"
    /\ y = <<rule[3], IF rule[4] = "header" THEN "later" ELSE x[2]>>
Run(t, f) ==
  /\ f[0] = <<"method_start", "first">>
  /\ \A i \in 1 .. Len(t) : Steps(f[i - 1], t[i], f[i])
RunTo(t, x) == \E f : Run(t, f) /\ f[Len(t)] = x

(* The parser begins at the method.                                         *)
LEMMA RunStart == RunTo(<<>>, <<"method_start", "first">>)
<1> DEFINE f == [i \in 0 .. 0 |-> <<"method_start", "first">>]
           t == <<>>
<1>1. f[0] = <<"method_start", "first">> /\ Len(t) = 0
  BY EmptySeq
<1> HIDE DEF f, t
<1>2. Run(t, f)
  BY <1>1 DEF Run
<1>3. RunTo(t, <<"method_start", "first">>)
  BY <1>1, <1>2 DEF RunTo
<1> QED BY <1>3 DEF t

(* One symbol more leads one state further.                                 *)
LEMMA RunOn ==
  ASSUME NEW t \in Seq(Symbols), NEW c \in Symbols, NEW x, NEW y, RunTo(t, x), Steps(x, c, y)
  PROVE  RunTo(Append(t, c), y)
<1>1. PICK f : Run(t, f) /\ f[Len(t)] = x
  BY DEF RunTo
<1> DEFINE n == Len(t)
           s == Append(t, c)
           g == [i \in 0 .. n + 1 |-> IF i <= n THEN f[i] ELSE y]
<1>2. n \in Nat /\ Len(s) = n + 1 /\ s[n + 1] = c /\ \A i \in 1 .. n : s[i] = t[i]
  BY AppendElements
<1>3. (\A i \in 0 .. n : g[i] = f[i]) /\ g[n + 1] = y
  BY <1>2
<1>4. f[0] = <<"method_start", "first">> /\ \A i \in 1 .. n : Steps(f[i - 1], t[i], f[i])
  BY <1>1 DEF Run
<1>5. f[n] = x
  BY <1>1
<1> HIDE DEF n, s, g
<1>6. ASSUME NEW i \in 1 .. n + 1 PROVE Steps(g[i - 1], s[i], g[i])
  <2>1. CASE i \in 1 .. n
    <3>1. i - 1 \in 0 .. n /\ i \in 0 .. n
      BY <1>2, <2>1
    <3>2. g[i - 1] = f[i - 1] /\ g[i] = f[i] /\ s[i] = t[i]
      BY <1>2, <1>3, <2>1, <3>1
    <3> QED BY <1>4, <2>1, <3>2
  <2>2. CASE i = n + 1
    <3>1. i - 1 = n /\ n \in 0 .. n
      BY <1>2, <2>2
    <3>2. g[i - 1] = x /\ g[i] = y /\ s[i] = c
      BY <1>2, <1>3, <1>5, <2>2, <3>1
    <3> QED BY <3>2
  <2> QED BY <1>2, <2>1, <2>2
<1>7. g[0] = <<"method_start", "first">>
  BY <1>2, <1>3, <1>4
<1>8. Run(s, g)
  BY <1>2, <1>6, <1>7 DEF Run
<1>9. RunTo(s, y)
  BY <1>2, <1>3, <1>8 DEF RunTo
<1> QED BY <1>9 DEF s

(* A word that a first symbol and more of the same go through.              *)
LEMMA RunWord ==
  ASSUME NEW C \in SUBSET Symbols, NEW D, NEW x, NEW y,
         \A c \in D : Steps(x, c, y), \A c \in C : Steps(y, c, y),
         NEW t \in Seq(Symbols), RunTo(t, x),
         NEW w \in Seq(C), w # <<>> => w[1] \in D
  PROVE  RunTo(t \o w, IF w = <<>> THEN x ELSE y)
<1> DEFINE S == {n \in Nat : \A v \in Seq(C) :
                   Len(v) = n /\ (v # <<>> => v[1] \in D) => RunTo(t \o v, IF v = <<>> THEN x ELSE y)}
<1>1. 0 \in S
  <2> SUFFICES ASSUME NEW v \in Seq(C), Len(v) = 0 PROVE RunTo(t \o v, IF v = <<>> THEN x ELSE y)
    OBVIOUS
  <2>1. v = <<>>
    OBVIOUS
  <2>2. t \o v = t
    BY <2>1, ConcatEmptySeq
  <2> QED BY <2>1, <2>2
<1>2. ASSUME NEW n \in Nat, n \in S PROVE n + 1 \in S
  <2> SUFFICES ASSUME NEW v \in Seq(C), Len(v) = n + 1, v # <<>> => v[1] \in D
               PROVE  RunTo(t \o v, IF v = <<>> THEN x ELSE y)
    OBVIOUS
  <2> DEFINE u == SubSeq(v, 1, n)
             c == v[n + 1]
  <2>1. u \in Seq(C) /\ Len(u) = n /\ c \in C /\ n + 1 \in 1 .. Len(v) /\ (n # 0 => u[1] = v[1])
    OBVIOUS
  <2>2. v = Append(u, c)
    <3>1. Append(SubSeq(v, 1, n), v[n + 1]) = SubSeq(v, 1, n + 1)
      BY <2>1, AppendNext
    <3>2. SubSeq(v, 1, Len(v)) = v
      OBVIOUS
    <3> QED BY <3>1, <3>2
  <2>3. v # <<>> /\ v[1] \in D
    <3>1. v # <<>>
      BY <2>1
    <3> QED BY <3>1
  <2>4. u # <<>> => u[1] \in D
    BY <2>1, <2>3
  <2>5. RunTo(t \o u, IF u = <<>> THEN x ELSE y)
    BY <1>2, <2>1, <2>4
  <2>6. Steps(IF u = <<>> THEN x ELSE y, c, y)
    <3>1. u = <<>> => n = 0 /\ c = v[1]
      BY <2>1, EmptySeq
    <3> QED BY <2>1, <2>3, <3>1
  <2>7. u \in Seq(Symbols) /\ c \in Symbols
    BY <2>1
  <2> HIDE DEF u, c, S
  <2> DEFINE a == t \o u
  <2>8. a \in Seq(Symbols)
    BY <2>7, ConcatProperties
  <2>9. Append(a, c) = t \o v
    BY <2>2, <2>7, AppendLast
  <2> HIDE DEF a
  <2> DEFINE z == IF u = <<>> THEN x ELSE y
  <2>10. RunTo(a, z) /\ Steps(z, c, y)
    BY <2>5, <2>6 DEF a
  <2> HIDE DEF z
  <2>11. RunTo(Append(a, c), y)
    BY <2>7, <2>8, <2>10, RunOn
  <2> QED BY <2>3, <2>9, <2>11
<1>3. Nat \subseteq S
  <2> HIDE DEF S
  <2> QED BY <1>1, <1>2, Induction
<1>4. Len(w) \in S /\ w \in Seq(C)
  BY <1>3
<1> QED BY <1>4

(* What each symbol of the grammar does.                                    *)
LEMMA RuleSteps ==
  ASSUME NEW x, NEW rule \in Rules, rule[1] = x[1], NEW c \in rule[2], rule[3] # "header_lws", rule[4] # "header"
  PROVE  Steps(x, c, <<rule[3], x[2]>>)
BY DEF Steps

(* The symbols of a first line.                                             *)
LEMMA RequestLineSteps ==
  /\ \A c \in Token : Steps(<<"method_start", "first">>, c, <<"method", "first">>)
  /\ \A c \in Token : Steps(<<"method", "first">>, c, <<"method", "first">>)
  /\ Steps(<<"method", "first">>, "space", <<"uri", "first">>)
  /\ \A c \in Text \ {"space"} : Steps(<<"uri", "first">>, c, <<"uri", "first">>)
  /\ Steps(<<"uri", "first">>, "space", <<VersionStates[1], "first">>)
  /\ \A k \in 0 .. 4 : Steps(<<VersionStates[k + 1], "first">>, VersionStart[k + 1], <<VersionStates[k + 2], "first">>)
  /\ Steps(<<"http_version_major_start", "first">>, "1", <<"http_version_major", "first">>)
  /\ Steps(<<"http_version_major", "first">>, "1", <<"http_version_major", "first">>)
  /\ Steps(<<"http_version_major", "first">>, ".", <<"http_version_minor_start", "first">>)
  /\ Steps(<<"http_version_minor_start", "first">>, "1", <<"http_version_minor", "first">>)
  /\ Steps(<<"http_version_minor", "first">>, "1", <<"http_version_minor", "first">>)
  /\ Steps(<<"http_version_minor", "first">>, "CR", <<"expecting_newline_1", "first">>)
  /\ Steps(<<"expecting_newline_1", "first">>, "LF", <<"header_line_start", "first">>)
<1>1. ASSUME NEW a, NEW C, NEW b, NEW field, <<a, C, b, field>> \in Rules, b # "header_lws", field # "header"
      PROVE  \A c \in C : Steps(<<a, "first">>, c, <<b, "first">>)
  <2> DEFINE rule == <<a, C, b, field>>
             x == <<a, "first">>
  <2>1. rule \in Rules /\ rule[1] = x[1] /\ rule[3] # "header_lws" /\ rule[4] # "header" /\ rule[2] = C
        /\ <<rule[3], x[2]>> = <<b, "first">>
    BY <1>1
  <2> HIDE DEF rule, x
  <2>2. \A c \in C : Steps(x, c, <<rule[3], x[2]>>)
    BY <2>1, RuleSteps
  <2> QED BY <2>1, <2>2 DEF x
<1>2. <<"method_start", Token, "method", "method">> \in Rules /\ <<"method", Token, "method", "method">> \in Rules
  BY DEF Rules, RequestLineRules
<1>3. <<"method", {"space"}, "uri", "none">> \in Rules /\ <<"uri", Text \ {"space"}, "uri", "uri">> \in Rules
  BY DEF Rules, RequestLineRules
<1>4. <<"uri", {"space"}, VersionStates[1], "none">> \in Rules
  BY DEF Rules, RequestLineRules, VersionStates
<1>5. \A k \in 0 .. 4 : <<VersionStates[k + 1], {VersionStart[k + 1]}, VersionStates[k + 2], "none">> \in Rules
  BY DEF Rules, RequestLineRules, VersionStates, VersionStart
<1>6. /\ <<"http_version_major_start", {"1"}, "http_version_major", "none">> \in Rules
      /\ <<"http_version_major", {"1"}, "http_version_major", "none">> \in Rules
      /\ <<"http_version_major", {"."}, "http_version_minor_start", "none">> \in Rules
      /\ <<"http_version_minor_start", {"1"}, "http_version_minor", "none">> \in Rules
      /\ <<"http_version_minor", {"1"}, "http_version_minor", "none">> \in Rules
      /\ <<"http_version_minor", {"CR"}, "expecting_newline_1", "none">> \in Rules
      /\ <<"expecting_newline_1", {"LF"}, "header_line_start", "none">> \in Rules
  BY DEF Rules, RequestLineRules
<1>8. /\ \A c \in Token : Steps(<<"method_start", "first">>, c, <<"method", "first">>)
      /\ \A c \in Token : Steps(<<"method", "first">>, c, <<"method", "first">>)
  BY <1>1, <1>2
<1>9. /\ \A c \in {"space"} : Steps(<<"method", "first">>, c, <<"uri", "first">>)
      /\ \A c \in Text \ {"space"} : Steps(<<"uri", "first">>, c, <<"uri", "first">>)
  BY <1>1, <1>3
<1>10. \A c \in {"space"} : Steps(<<"uri", "first">>, c, <<VersionStates[1], "first">>)
  <2>1. VersionStates[1] # "header_lws"
    BY DEF VersionStates
  <2> QED BY <1>1, <1>4, <2>1
<1>11. ASSUME NEW k \in 0 .. 4
       PROVE  Steps(<<VersionStates[k + 1], "first">>, VersionStart[k + 1], <<VersionStates[k + 2], "first">>)
  <2>1. VersionStates[k + 2] # "header_lws"
    BY DEF VersionStates
  <2>2. \A c \in {VersionStart[k + 1]} : Steps(<<VersionStates[k + 1], "first">>, c, <<VersionStates[k + 2], "first">>)
    BY <1>1, <1>5, <2>1
  <2> QED BY <2>2
<1>12. /\ \A c \in {"1"} : Steps(<<"http_version_major_start", "first">>, c, <<"http_version_major", "first">>)
       /\ \A c \in {"1"} : Steps(<<"http_version_major", "first">>, c, <<"http_version_major", "first">>)
       /\ \A c \in {"."} : Steps(<<"http_version_major", "first">>, c, <<"http_version_minor_start", "first">>)
  BY <1>1, <1>6
<1>13. /\ \A c \in {"1"} : Steps(<<"http_version_minor_start", "first">>, c, <<"http_version_minor", "first">>)
       /\ \A c \in {"1"} : Steps(<<"http_version_minor", "first">>, c, <<"http_version_minor", "first">>)
       /\ \A c \in {"CR"} : Steps(<<"http_version_minor", "first">>, c, <<"expecting_newline_1", "first">>)
       /\ \A c \in {"LF"} : Steps(<<"expecting_newline_1", "first">>, c, <<"header_line_start", "first">>)
  BY <1>1, <1>6
<1> QED BY <1>8, <1>9, <1>10, <1>11, <1>12, <1>13

(* The symbols of a header and of a value that is continued.                *)
LEMMA HeaderSteps ==
  /\ \A h : \A c \in Token : Steps(<<"header_line_start", h>>, c, <<"header_name", "later">>)
  /\ \A c \in Token : Steps(<<"header_name", "later">>, c, <<"header_name", "later">>)
  /\ Steps(<<"header_name", "later">>, ":", <<"space_before_header_value", "later">>)
  /\ Steps(<<"space_before_header_value", "later">>, "space", <<"header_value", "later">>)
  /\ \A c \in Text : Steps(<<"header_value", "later">>, c, <<"header_value", "later">>)
  /\ \A c \in Blank : Steps(<<"header_line_start", "later">>, c, <<"header_lws", "later">>)
  /\ \A c \in Text \ Blank : Steps(<<"header_lws", "later">>, c, <<"header_value", "later">>)
  /\ \A s \in {"header_lws", "header_value"} : Steps(<<s, "later">>, "CR", <<"expecting_newline_2", "later">>)
  /\ Steps(<<"expecting_newline_2", "later">>, "LF", <<"header_line_start", "later">>)
  /\ \A h : Steps(<<"header_line_start", h>>, "CR", <<"expecting_newline_3", h>>)
<1>1. ASSUME NEW a, NEW C, NEW b, NEW field, NEW h, NEW i, <<a, C, b, field>> \in Rules,
             b = "header_lws" => h = "later", i = IF field = "header" THEN "later" ELSE h
      PROVE  \A c \in C : Steps(<<a, h>>, c, <<b, i>>)
  <2> DEFINE rule == <<a, C, b, field>>
             x == <<a, h>>
  <2>1. /\ rule \in Rules /\ rule[1] = x[1] /\ rule[2] = C /\ rule[3] = b /\ rule[4] = field
        /\ rule[3] = "header_lws" => x[2] = "later"
        /\ x[2] = h
    BY <1>1
  <2> HIDE DEF rule, x
  <2>2. <<b, i>> = <<rule[3], IF rule[4] = "header" THEN "later" ELSE x[2]>>
    BY <1>1, <2>1
  <2>3. \A c \in C : Steps(x, c, <<b, i>>)
    BY <2>1, <2>2 DEF Steps
  <2> QED BY <2>3 DEF x
<1>2. /\ <<"header_line_start", {"CR"}, "expecting_newline_3", "none">> \in Rules
      /\ <<"header_line_start", Blank, "header_lws", "none">> \in Rules
      /\ <<"header_line_start", Token, "header_name", "header">> \in Rules
      /\ <<"header_lws", {"CR"}, "expecting_newline_2", "none">> \in Rules
      /\ <<"header_lws", Text \ Blank, "header_value", "value">> \in Rules
  BY DEF Rules, HeaderRules
<1>3. /\ <<"header_name", {":"}, "space_before_header_value", "none">> \in Rules
      /\ <<"header_name", Token, "header_name", "name">> \in Rules
      /\ <<"space_before_header_value", {"space"}, "header_value", "none">> \in Rules
      /\ <<"header_value", {"CR"}, "expecting_newline_2", "none">> \in Rules
      /\ <<"header_value", Text, "header_value", "value">> \in Rules
      /\ <<"expecting_newline_2", {"LF"}, "header_line_start", "none">> \in Rules
  BY DEF Rules, HeaderRules
<1>4. \A h : \A c \in Token : Steps(<<"header_line_start", h>>, c, <<"header_name", "later">>)
  BY <1>1, <1>2
<1>5. \A h : \A c \in {"CR"} : Steps(<<"header_line_start", h>>, c, <<"expecting_newline_3", h>>)
  BY <1>1, <1>2
<1>6. /\ \A c \in Blank : Steps(<<"header_line_start", "later">>, c, <<"header_lws", "later">>)
      /\ \A c \in {"CR"} : Steps(<<"header_lws", "later">>, c, <<"expecting_newline_2", "later">>)
      /\ \A c \in Text \ Blank : Steps(<<"header_lws", "later">>, c, <<"header_value", "later">>)
  BY <1>1, <1>2
<1>7. /\ \A c \in {":"} : Steps(<<"header_name", "later">>, c, <<"space_before_header_value", "later">>)
      /\ \A c \in Token : Steps(<<"header_name", "later">>, c, <<"header_name", "later">>)
      /\ \A c \in {"space"} : Steps(<<"space_before_header_value", "later">>, c, <<"header_value", "later">>)
  BY <1>1, <1>3
<1>8. /\ \A c \in {"CR"} : Steps(<<"header_value", "later">>, c, <<"expecting_newline_2", "later">>)
      /\ \A c \in Text : Steps(<<"header_value", "later">>, c, <<"header_value", "later">>)
      /\ \A c \in {"LF"} : Steps(<<"expecting_newline_2", "later">>, c, <<"header_line_start", "later">>)
  BY <1>1, <1>3
<1> QED BY <1>4, <1>5, <1>6, <1>7, <1>8

-----------------------------------------------------------------------------
(* A version leads from its first state to its last.                        *)
LEMMA VersionRun ==
  ASSUME NEW v \in Seq(Symbols), RunTo(v, <<VersionStates[1], "first">>), NEW version \in Versions
  PROVE  RunTo(v \o version, <<"http_version_minor", "first">>)
<1> DEFINE S == {k \in Nat : k <= 5 => RunTo(v \o SubSeq(VersionStart, 1, k), <<VersionStates[k + 1], "first">>)}
<1>1. 0 \in S
  <2> DEFINE u == SubSeq(VersionStart, 1, 0)
  <2>1. u = <<>>
    BY StartIs
  <2>2. v \o u = v /\ 0 + 1 = 1
    BY <2>1, ConcatEmptySeq
  <2> HIDE DEF u
  <2>3. RunTo(v \o u, <<VersionStates[0 + 1], "first">>)
    BY <2>2
  <2> QED BY <2>3 DEF u
<1>2. ASSUME NEW k \in Nat, k \in S PROVE k + 1 \in S
  <2> SUFFICES ASSUME k + 1 <= 5
               PROVE  RunTo(v \o SubSeq(VersionStart, 1, k + 1), <<VersionStates[k + 1 + 1], "first">>)
    OBVIOUS
  <2>1. k \in 0 .. 4 /\ k + 1 \in 1 .. 5 /\ k + 1 + 1 = k + 2
    OBVIOUS
  <2> DEFINE u == SubSeq(VersionStart, 1, k)
             c == VersionStart[k + 1]
             s == <<VersionStates[k + 1], "first">>
             y == <<VersionStates[k + 2], "first">>
  <2>2. RunTo(v \o u, s)
    BY <1>2, <2>1
  <2>3. u \in Seq(Symbols) /\ Append(u, c) = SubSeq(VersionStart, 1, k + 1) /\ c \in Symbols
    <3>1. VersionStart \in Seq(Symbols) /\ k + 1 \in 1 .. Len(VersionStart)
      BY <2>1, StartIs
    <3>2. \A a \in Seq(Symbols) : \A i \in 1 .. Len(a) : a[i] \in Symbols
      OBVIOUS
    <3> QED BY <3>1, <3>2, AppendNext
  <2>4. Steps(s, c, y)
    BY <2>1, RequestLineSteps
  <2> HIDE DEF u, c, s, y, S
  <2> DEFINE a == v \o u
  <2>5. a \in Seq(Symbols) /\ RunTo(a, s) /\ Append(a, c) = v \o Append(u, c)
    BY <2>2, <2>3, ConcatProperties, AppendLast
  <2> HIDE DEF a
  <2>6. RunTo(Append(a, c), y)
    BY <2>3, <2>4, <2>5, RunOn
  <2> QED BY <2>1, <2>3, <2>5, <2>6 DEF y
<1>3. Nat \subseteq S
  <2> HIDE DEF S
  <2> QED BY <1>1, <1>2, Induction
<1>4. RunTo(v \o VersionStart, <<"http_version_major_start", "first">>)
  <2> DEFINE u == SubSeq(VersionStart, 1, 5)
             s == VersionStates[5 + 1]
  <2>1. u = VersionStart /\ s = "http_version_major_start"
    BY StartIs DEF VersionStates
  <2>2. RunTo(v \o u, <<s, "first">>)
    BY <1>3
  <2> HIDE DEF u, s
  <2> QED BY <2>1, <2>2
<1> HIDE DEF S
<1>5. PICK a \in Digits, b \in Digits : version = UpToMinor(a) \o b
  BY VersionsAre
<1>6. /\ {"1"} \in SUBSET Symbols /\ "." \in Symbols
      /\ a \in Seq({"1"}) /\ a \in Seq(Symbols) /\ a # <<>> /\ a[1] \in {"1"}
      /\ b \in Seq({"1"}) /\ b \in Seq(Symbols) /\ b # <<>> /\ b[1] \in {"1"}
  <2>1. ASSUME NEW d \in Digits PROVE d \in Seq({"1"}) /\ d \in Seq(Symbols) /\ d # <<>> /\ d[1] \in {"1"}
    <3>1. d \in Seq({"1"}) /\ 1 <= Len(d) /\ d \in Seq(Symbols) /\ d # <<>>
      BY DigitsAre
    <3> QED BY <3>1
  <2> QED BY <2>1, SymbolSets
<1> DEFINE x == v \o VersionStart
           y == x \o a
           z == Append(y, ".")
           s1 == <<"http_version_major_start", "first">>
           s2 == <<"http_version_major", "first">>
           s3 == <<"http_version_minor_start", "first">>
           s4 == <<"http_version_minor", "first">>
<1>7. /\ \A c \in {"1"} : Steps(s1, c, s2) /\ Steps(s2, c, s2) /\ Steps(s3, c, s4) /\ Steps(s4, c, s4)
      /\ Steps(s2, ".", s3)
  BY RequestLineSteps
<1>8. x \in Seq(Symbols) /\ RunTo(x, s1)
  BY <1>4, StartIs, ConcatProperties
<1>9. z \o b = v \o version
  <2>1. y = v \o UpToMajor(a) /\ UpToMajor(a) \in Seq(Symbols) /\ UpToMinor(a) \in Seq(Symbols)
        /\ UpToMinor(a) = Append(UpToMajor(a), ".")
    <3>1. v \o (VersionStart \o a) = (v \o VersionStart) \o a
      BY <1>6, StartIs, ConcatTexts, Zenon
    <3>2. y = v \o UpToMajor(a)
      BY <3>1 DEF UpToMajor
    <3> HIDE DEF y
    <3> QED BY <1>6, <3>2, VersionsAre
  <2> HIDE DEF y
  <2>2. z = v \o UpToMinor(a)
    <3>1. Append(v \o UpToMajor(a), ".") = v \o Append(UpToMajor(a), ".")
      BY <1>6, <2>1, AppendLast
    <3> QED BY <2>1, <3>1
  <2> HIDE DEF z
  <2>3. v \o (UpToMinor(a) \o b) = (v \o UpToMinor(a)) \o b
    BY <1>6, <2>1, ConcatTexts, Zenon
  <2> QED BY <1>5, <2>2, <2>3
<1> HIDE DEF s1, s2, s3, s4, x
<1>10. y \in Seq(Symbols) /\ RunTo(y, s2)
  <2>1. RunTo(x \o a, IF a = <<>> THEN s1 ELSE s2)
    BY <1>6, <1>7, <1>8, RunWord
  <2> QED BY <1>6, <1>8, <2>1, ConcatProperties
<1> HIDE DEF y
<1>11. z \in Seq(Symbols) /\ RunTo(z, s3)
  BY <1>6, <1>7, <1>10, RunOn, AppendElements
<1> HIDE DEF z
<1>12. RunTo(z \o b, IF b = <<>> THEN s3 ELSE s4)
  BY <1>6, <1>7, <1>11, RunWord
<1> QED BY <1>6, <1>9, <1>12 DEF s4

(* Every text of the grammar leads through the states.                      *)
LEMMA RequestLineRun ==
  ASSUME NEW p \in RequestLines
  PROVE  RunTo(p[1], <<"header_line_start", "first">>)
<1>1. PICK method \in Words(Token, 1), uri \in Words(Text \ {"space"}, 0), version \in Versions :
        /\ p = <<UpToVersion(method, uri) \o version \o CRLF, NewRequest(method, uri)>>
        /\ TextOf(p[2]) <= MaxText
  BY RequestLineIs
<1> DEFINE v == UpToVersion(method, uri)
           w == v \o version
           m == Append(method, "space")
           x == m \o uri
<1>2. /\ v \in Seq(Symbols) /\ w \in Seq(Symbols) /\ x \in Seq(Symbols)
      /\ Append(x, "space") = v
  BY RequestLineGoesOn
<1>3. /\ Token \in SUBSET Symbols /\ Text \ {"space"} \in SUBSET Symbols
      /\ method \in Seq(Token) /\ method \in Seq(Symbols) /\ method # <<>> /\ method[1] \in Token
      /\ uri \in Seq(Text \ {"space"})
  <2>1. Token \in SUBSET Symbols /\ Text \ {"space"} \in SUBSET Symbols
    BY WordsAre
  <2>2. method \in Seq(Token) /\ Len(method) >= 1 /\ Len(method) \in Nat
    <3>1. method \in Seq(Token \cap Written) /\ 1 <= Len(method)
      BY <2>1, WordIs
    <3> QED BY <3>1
  <2>3. uri \in Seq(Text \ {"space"})
    BY <2>1, WordIs
  <2>4. method # <<>> /\ method[1] \in Token
    BY <2>2
  <2> QED BY <2>1, <2>2, <2>3, <2>4
<1>4. RunTo(method, <<"method", "first">>)
  <2> DEFINE e == <<>>
             s0 == <<"method_start", "first">>
             s1 == <<"method", "first">>
  <2>1. e \in Seq(Symbols) /\ RunTo(e, s0) /\ e \o method = method
    BY <1>3, EmptySeq, RunStart, ConcatEmptySeq
  <2>2. (\A c \in Token : Steps(s0, c, s1)) /\ (\A c \in Token : Steps(s1, c, s1))
    BY RequestLineSteps
  <2> HIDE DEF e, s0, s1
  <2>3. RunTo(e \o method, IF method = <<>> THEN s0 ELSE s1)
    BY <1>3, <2>1, <2>2, RunWord
  <2> QED BY <1>3, <2>1, <2>3 DEF s1
<1>5. m \in Seq(Symbols) /\ RunTo(m, <<"uri", "first">>)
  <2>1. "space" \in Symbols /\ Steps(<<"method", "first">>, "space", <<"uri", "first">>)
    BY SymbolSets, RequestLineSteps
  <2> QED BY <1>3, <1>4, <2>1, RunOn, AppendElements
<1> HIDE DEF m
<1>6. RunTo(x, <<"uri", "first">>)
  <2> DEFINE s == <<"uri", "first">>
             U == Text \ {"space"}
  <2>1. U \in SUBSET Symbols /\ uri \in Seq(U) /\ RunTo(m, s) /\ \A c \in U : Steps(s, c, s)
    BY <1>3, <1>5, RequestLineSteps
  <2> HIDE DEF s, U
  <2>2. uri # <<>> => uri[1] \in U
    BY <2>1
  <2>3. RunTo(m \o uri, IF uri = <<>> THEN s ELSE s)
    BY <1>5, <2>1, <2>2, RunWord
  <2> QED BY <2>3 DEF s
<1> HIDE DEF x, v
<1>7. RunTo(v, <<VersionStates[1], "first">>)
  <2>1. "space" \in Symbols /\ Steps(<<"uri", "first">>, "space", <<VersionStates[1], "first">>)
    BY SymbolSets, RequestLineSteps
  <2> QED BY <1>2, <1>6, <2>1, RunOn
<1>8. RunTo(w, <<"http_version_minor", "first">>)
  BY <1>2, <1>7, VersionRun
<1> HIDE DEF w
<1>12. RunTo(Append(w, "CR"), <<"expecting_newline_1", "first">>)
  BY <1>2, <1>8, RequestLineSteps, RunOn, SymbolSets
<1>13. RunTo(Append(Append(w, "CR"), "LF"), <<"header_line_start", "first">>)
  BY <1>2, <1>12, RequestLineSteps, RunOn, SymbolSets, LineEnd
<1>14. p[1] = Append(Append(w, "CR"), "LF")
  BY <1>1, <1>2, LineEnd DEF w, v
<1> QED BY <1>13, <1>14

(* The end of a line.                                                       *)
LEMMA LineEndRun ==
  ASSUME NEW t \in Seq(Symbols), NEW s \in {"header_lws", "header_value"}, RunTo(t, <<s, "later">>)
  PROVE  RunTo(t \o CRLF, <<"header_line_start", "later">>)
<1>1. Steps(<<s, "later">>, "CR", <<"expecting_newline_2", "later">>)
  BY HeaderSteps
<1>2. RunTo(Append(t, "CR"), <<"expecting_newline_2", "later">>)
  BY <1>1, RunOn, SymbolSets
<1>3. Append(t, "CR") \in Seq(Symbols) /\ t \o CRLF = Append(Append(t, "CR"), "LF")
  BY LineEnd
<1> QED BY <1>2, <1>3, HeaderSteps, RunOn, SymbolSets

(* A header, after which another may follow.                                *)
LEMMA HeaderRun ==
  ASSUME NEW t \in Seq(Symbols), NEW h, RunTo(t, <<"header_line_start", h>>),
         NEW name \in Words(Token, 1), NEW value \in Words(Text, 0)
  PROVE  RunTo(UpToValue(t, name, value) \o CRLF, <<"header_line_start", "later">>)
<1>1. /\ Token \in SUBSET Symbols /\ Text \in SUBSET Symbols
      /\ name \in Seq(Token) /\ name \in Seq(Symbols) /\ name # <<>> /\ name[1] \in Token
      /\ value \in Seq(Text) /\ value \in Seq(Symbols)
  <2>1. Token \in SUBSET Symbols /\ Text \in SUBSET Symbols
    BY WordsAre
  <2>2. name \in Seq(Token) /\ Len(name) >= 1 /\ Len(name) \in Nat
    <3>1. name \in Seq(Token \cap Written) /\ 1 <= Len(name)
      BY <2>1, WordIs
    <3> QED BY <3>1
  <2>3. value \in Seq(Text)
    BY <2>1, WordIs
  <2>4. name # <<>> /\ name[1] \in Token
    BY <2>2
  <2> QED BY <2>1, <2>2, <2>3, <2>4
<1> DEFINE x == t \o name
<1>2. x \in Seq(Symbols)
  BY <1>1, ConcatProperties
<1>3. RunTo(x, <<"header_name", "later">>)
  <2> DEFINE s0 == <<"header_line_start", h>>
             s1 == <<"header_name", "later">>
  <2>1. RunTo(t, s0) /\ (\A c \in Token : Steps(s0, c, s1)) /\ (\A c \in Token : Steps(s1, c, s1))
    BY HeaderSteps
  <2> HIDE DEF s0, s1
  <2>2. RunTo(t \o name, IF name = <<>> THEN s0 ELSE s1)
    BY <1>1, <2>1, RunWord
  <2> QED BY <1>1, <2>2 DEF s1
<1> HIDE DEF x
<1> DEFINE y == Append(x, ":")
           z == Append(y, "space")
<1>4. y \in Seq(Symbols) /\ RunTo(y, <<"space_before_header_value", "later">>)
  BY <1>2, <1>3, HeaderSteps, RunOn, SymbolSets, AppendElements
<1>5. x \o <<":", "space">> = z
  BY <1>2, SymbolSets, AppendTwo
<1> HIDE DEF y
<1>6. z \in Seq(Symbols) /\ RunTo(z, <<"header_value", "later">>)
  BY <1>4, HeaderSteps, RunOn, SymbolSets, AppendElements
<1>7. UpToValue(t, name, value) = z \o value
  BY <1>5 DEF UpToValue, x
<1> HIDE DEF z
<1>8. RunTo(z \o value, <<"header_value", "later">>)
  <2> DEFINE s == <<"header_value", "later">>
  <2>1. RunTo(z, s) /\ (\A c \in Text : Steps(s, c, s)) /\ (value # <<>> => value[1] \in Text)
    BY <1>1, <1>6, HeaderSteps
  <2> HIDE DEF s
  <2>2. RunTo(z \o value, IF value = <<>> THEN s ELSE s)
    BY <1>1, <1>6, <2>1, RunWord
  <2> QED BY <2>2 DEF s
<1>9. z \o value \in Seq(Symbols)
  BY <1>1, <1>6, ConcatProperties
<1> DEFINE l == z \o value
<1>10. l \in Seq(Symbols) /\ RunTo(l, <<"header_value", "later">>) /\ UpToValue(t, name, value) = l
  BY <1>7, <1>8, <1>9
<1> HIDE DEF l
<1> QED BY <1>10, LineEndRun

(* A value that is continued.                                               *)
LEMMA FoldRun ==
  ASSUME NEW t \in Seq(Symbols), RunTo(t, <<"header_line_start", "later">>),
         NEW b \in Blank, NEW more \in Words(Text, 0), more = <<>> \/ more[1] # "space"
  PROVE  RunTo(UpToFold(t, b, more) \o CRLF, <<"header_line_start", "later">>)
<1>1. /\ Text \in SUBSET Symbols /\ b \in Symbols
      /\ more \in Seq(Text) /\ more \in Seq(Symbols) /\ (more # <<>> => more[1] \in Text \ Blank)
  <2>1. Text \in SUBSET Symbols /\ b \in Symbols
    BY WordsAre, SymbolSets
  <2>2. more \in Seq(Text)
    BY <2>1, WordIs
  <2>3. more # <<>> => more[1] \in Text \ Blank
    <3>1. more # <<>> => more[1] \in Text
      BY <2>2
    <3> QED BY <3>1, SymbolSets DEF Blank
  <2> QED BY <2>1, <2>2, <2>3
<1> DEFINE x == t \o <<b>>
<1>2. x = Append(t, b)
  BY <1>1, AppendIsConcat
<1>3. x \in Seq(Symbols) /\ RunTo(x, <<"header_lws", "later">>)
  <2> HIDE DEF x
  <2>1. Steps(<<"header_line_start", "later">>, b, <<"header_lws", "later">>)
    BY HeaderSteps
  <2> QED BY <1>1, <1>2, <2>1, RunOn, AppendElements
<1>4. UpToFold(t, b, more) = x \o more
  BY DEF UpToFold
<1> HIDE DEF x
<1>5. \E s \in {"header_lws", "header_value"} : RunTo(x \o more, <<s, "later">>)
  <2> DEFINE s0 == <<"header_lws", "later">>
             s1 == <<"header_value", "later">>
             D == Text \ Blank
  <2>1. RunTo(x, s0) /\ (\A c \in D : Steps(s0, c, s1)) /\ (\A c \in Text : Steps(s1, c, s1))
        /\ (more # <<>> => more[1] \in D)
    BY <1>1, <1>3, HeaderSteps
  <2> HIDE DEF s0, s1, D
  <2>2. RunTo(x \o more, IF more = <<>> THEN s0 ELSE s1)
    BY <1>1, <1>3, <2>1, RunWord
  <2>3. RunTo(x \o more, s0) \/ RunTo(x \o more, s1)
    BY <2>2
  <2> QED BY <2>3 DEF s0, s1
<1> DEFINE l == x \o more
<1>6. l \in Seq(Symbols) /\ (\E s \in {"header_lws", "header_value"} : RunTo(l, <<s, "later">>))
      /\ UpToFold(t, b, more) = l
  BY <1>1, <1>3, <1>4, <1>5, ConcatProperties
<1> HIDE DEF l
<1> QED BY <1>6, LineEndRun

(* The first header, continued or not.                                      *)
LEMMA FirstHeaderRun ==
  ASSUME NEW p \in Header(RequestLines) \cup Folded(Header(RequestLines))
  PROVE  RunTo(p[1], <<"header_line_start", "later">>)
<1>1. ASSUME NEW h \in Header(RequestLines) PROVE RunTo(h[1], <<"header_line_start", "later">>) /\ h[1] \in Seq(Symbols)
  <2>1. PICK q \in RequestLines, name \in Words(Token, 1), value \in Words(Text, 0) :
          /\ h = <<UpToValue(q[1], name, value) \o CRLF, WithHeader(q[2], name, value)>>
          /\ TextOf(h[2]) <= MaxText
    BY <1>1, HeaderIs, Zenon
  <2>2. q[1] \in Seq(Symbols) /\ RunTo(q[1], <<"header_line_start", "first">>)
    BY RequestLineType, RequestLineRun DEF IsHead
  <2>3. h[1] = UpToValue(q[1], name, value) \o CRLF
    BY <2>1
  <2>4. h[1] \in Seq(Symbols)
    BY <1>1, FirstHeader DEF IsHead
  <2> DEFINE t == q[1]
  <2>5. t \in Seq(Symbols) /\ RunTo(t, <<"header_line_start", "first">>)
    BY <2>2
  <2> HIDE DEF t
  <2>6. RunTo(UpToValue(t, name, value) \o CRLF, <<"header_line_start", "later">>)
    BY <2>5, HeaderRun
  <2> QED BY <2>3, <2>4, <2>6 DEF t
<1>2. ASSUME p \in Folded(Header(RequestLines)) PROVE RunTo(p[1], <<"header_line_start", "later">>)
  <2>1. PICK q \in Header(RequestLines), b \in Blank, more \in Words(Text, 0) :
             /\ more = <<>> \/ more[1] # "space"
             /\ p = <<UpToFold(q[1], b, more) \o CRLF, Continued(q[2], more)>>
             /\ TextOf(p[2]) <= MaxText
    BY <1>2, FoldedIs
  <2>2. p[1] = UpToFold(q[1], b, more) \o CRLF
    BY <2>1
  <2> QED BY <1>1, <2>1, <2>2, FoldRun
<1> QED BY <1>1, <1>2

(* Any number of headers.                                                   *)
LEMMA HeadRun ==
  ASSUME NEW n \in 0 .. MaxText, NEW p \in Heads[n]
  PROVE  \E h : RunTo(p[1], <<"header_line_start", h>>)
<1> DEFINE Leads(t) == \E h : RunTo(t, <<"header_line_start", h>>)
           S == {k \in Nat : k <= MaxText => \A q \in Heads[k] : Leads(q[1])}
<1>0. \A t : \A h : RunTo(t, <<"header_line_start", h>>) => Leads(t)
  OBVIOUS
<1>4. \A t : Leads(t) => \E h : RunTo(t, <<"header_line_start", h>>)
  OBVIOUS
<1> HIDE DEF Leads
<1>1. 0 \in S
  <2>1. 0 \in 0 .. MaxText
    OBVIOUS
  <2>2. Heads[0] = RequestLines
    BY <2>1, HeadsAre
  <2> QED BY <1>0, <2>2, RequestLineRun
<1>2. ASSUME NEW k \in Nat, k \in S PROVE k + 1 \in S
  <2> SUFFICES ASSUME k + 1 <= MaxText, NEW q \in Heads[k + 1]
               PROVE  Leads(q[1])
    OBVIOUS
  <2>1. k + 1 \in 0 .. MaxText /\ k \in 0 .. MaxText /\ k + 1 - 1 = k /\ (k + 1 = 1 \/ k + 1 > 1)
    OBVIOUS
  <2>2. \A u \in Heads[k] : Leads(u[1])
    BY <1>2, <2>1
  <2> HIDE DEF S
  <2>3. CASE k + 1 = 1
    <3>1. Heads[1] = Header(RequestLines) \cup Folded(Header(RequestLines))
      BY <2>1, <2>3, HeadsAre
    <3> QED BY <1>0, <2>3, <3>1, FirstHeaderRun
  <2>4. CASE k + 1 > 1
    <3>1. Heads[k + 1] = Header(Heads[k])
      BY <2>1, <2>4, HeadsAre
    <3>2. PICK u \in Heads[k], name \in Words(Token, 1), value \in Words(Text, 0) :
            /\ q = <<UpToValue(u[1], name, value) \o CRLF, WithHeader(u[2], name, value)>>
            /\ TextOf(q[2]) <= MaxText
      BY <3>1, HeaderIs, Zenon
    <3>3. PICK h : RunTo(u[1], <<"header_line_start", h>>)
      BY <1>4, <2>2
    <3>4. u[1] \in Seq(Symbols) /\ q[1] = UpToValue(u[1], name, value) \o CRLF
      BY <2>1, <3>2, HeadsType DEF IsHead
    <3> QED BY <1>0, <3>3, <3>4, HeaderRun
  <2> QED BY <2>1, <2>3, <2>4
<1>3. Nat \subseteq S
  <2> HIDE DEF S
  <2> QED BY <1>1, <1>2, Induction
<1>5. Leads(p[1])
  BY <1>3
<1> QED BY <1>4, <1>5

(* A request leads to where the parser expects the last symbol.             *)
LEMMA RequestRun ==
  ASSUME NEW r \in Requests
  PROVE  \E t \in Seq(Symbols) : \E f :
           /\ r[1] = Append(t, "LF")
           /\ Run(t, f) /\ f[Len(t)][1] = "expecting_newline_3"
<1>1. PICK n \in 0 .. MaxText : \E p \in Heads[n] : r = <<p[1] \o CRLF, p[2]>>
  BY DEF Requests
<1>2. PICK p \in Heads[n] : r = <<p[1] \o CRLF, p[2]>>
  BY <1>1
<1> DEFINE t == Append(p[1], "CR")
<1>3. p[1] \in Seq(Symbols) /\ t \in Seq(Symbols) /\ r[1] = Append(t, "LF")
  BY <1>2, HeadsType, LineEnd DEF IsHead
<1>4. PICK h : RunTo(p[1], <<"header_line_start", h>>)
  BY HeadRun
<1>5. RunTo(t, <<"expecting_newline_3", h>>)
  <2>1. Steps(<<"header_line_start", h>>, "CR", <<"expecting_newline_3", h>>)
    BY HeaderSteps
  <2> QED BY <1>3, <1>4, <2>1, RunOn, SymbolSets
<1> HIDE DEF t
<1>6. PICK f : Run(t, f) /\ f[Len(t)] = <<"expecting_newline_3", h>>
  BY <1>5 DEF RunTo
<1>7. f[Len(t)][1] = "expecting_newline_3"
  BY <1>6
<1> QED BY <1>3, <1>6, <1>7

-----------------------------------------------------------------------------
(* In a state one rule at most has a symbol.                                *)
LEMMA OneRule ==
  ASSUME NEW rule \in Rules, NEW other \in Rules, rule[1] = other[1], NEW c, c \in rule[2], c \in other[2]
  PROVE  rule = other
<1> DEFINE s == rule[1]
<1>1. s \in {"method_start", "method", "uri", "expecting_newline_1", "header_line_start", "header_lws", "header_name",
             "space_before_header_value", "header_value", "expecting_newline_2"}
            \cup {VersionStates[k + 1] : k \in 0 .. 8}
  BY DEF Rules, RequestLineRules, HeaderRules, VersionStates
<1>2. CASE s \in {"method_start", "method", "uri", "expecting_newline_1"}
  <2>1. "space" \notin Token
    BY SymbolSets
  <2>2. CASE s = "method_start"
    BY <2>2, RulesFrom
  <2>3. CASE s = "method"
    <3> DEFINE x == <<"method", {"space"}, "uri", "none">>
               y == <<"method", Token, "method", "method">>
    <3>1. \A q \in Rules : q[1] = "method" => q = x \/ q = y
      BY RulesFrom, Zenon
    <3>2. x[2] \cap y[2] = {}
      BY <2>1
    <3>3. rule[1] = "method" /\ other[1] = "method"
      BY <2>3
    <3> HIDE DEF x, y
    <3> QED BY <3>1, <3>2, <3>3
  <2>4. CASE s = "uri"
    <3> DEFINE x == <<"uri", {"space"}, "http_version_h", "none">>
               y == <<"uri", Text \ {"space"}, "uri", "uri">>
    <3>1. \A q \in Rules : q[1] = "uri" => q = x \/ q = y
      BY RulesFrom, Zenon
    <3>2. x[2] \cap y[2] = {}
      OBVIOUS
    <3>3. rule[1] = "uri" /\ other[1] = "uri"
      BY <2>4
    <3> HIDE DEF x, y
    <3> QED BY <3>1, <3>2, <3>3
  <2>5. CASE s = "expecting_newline_1"
    BY <2>5, RulesFrom
  <2> QED BY <1>2, <2>2, <2>3, <2>4, <2>5
<1>3. CASE s \in {VersionStates[k + 1] : k \in 0 .. 8}
  <2>1. PICK k \in 0 .. 8 : s = VersionStates[k + 1]
    BY <1>3
  <2>2. CASE k \in 0 .. 4
    <3>1. \A q \in Rules : \A i \in 0 .. 4 : q[1] = VersionStates[i + 1] =>
            q = <<VersionStates[i + 1], {VersionStart[i + 1]}, VersionStates[i + 2], "none">>
      BY RulesFrom, Zenon
    <3> DEFINE x == <<VersionStates[k + 1], {VersionStart[k + 1]}, VersionStates[k + 2], "none">>
    <3>2. rule[1] = VersionStates[k + 1] /\ other[1] = VersionStates[k + 1]
      BY <2>1
    <3>3. rule = x /\ other = x
      BY <2>2, <3>1, <3>2, Zenon
    <3> QED BY <3>3
  <2>3. CASE k \in 5 .. 8
    <3>1. s \in {"http_version_major_start", "http_version_major", "http_version_minor_start", "http_version_minor"}
      BY <2>1, <2>3 DEF VersionStates
    <3> QED BY <3>1, RulesFrom
  <2> QED BY <2>2, <2>3
<1>4. CASE s \in {"header_line_start", "header_lws"}
  BY <1>4, RulesFrom, SymbolSets DEF Blank
<1>5. CASE s \in {"header_name", "space_before_header_value", "header_value", "expecting_newline_2"}
  BY <1>5, RulesFrom, SymbolSets
<1> QED BY <1>1, <1>2, <1>3, <1>4, <1>5

(* The fields that the parser has read are those of a request.              *)
LEMMA ReadType ==
  ASSUME NEW s, NEW t, NEW r, HasRead(s, t, r)
  PROVE  r \in RequestType
<1>1. /\ <<>> \in Seq(Symbols)
      /\ \A w : w \in Words(Token, 1) \cup Words(Text, 0) \cup Words(Text \ {"space"}, 0) => w \in Seq(Symbols)
  BY WordsAre, EmptySeq
<1>2. \A n \in 0 .. MaxText : \A p \in Heads[n] : p[2] \in RequestType
  BY HeadsType DEF IsHead
<1>3. \A m \in Seq(Symbols), u \in Seq(Symbols) : NewRequest(m, u) \in RequestType
  BY NewRequestType
<1>4. \A q \in RequestType : \A m \in Seq(Symbols), u \in Seq(Symbols) : WithHeader(q, m, u) \in RequestType
  BY WithHeaderType
<1>5. AtStart(s, t, r) \/ InMethod(s, t, r) \/ InUri(s, t, r) \/ InVersion(s, t, r) \/ AfterVersion(s, t, r)
        => \E m \in Seq(Symbols), u \in Seq(Symbols) : r = NewRequest(m, u)
  <2>1. AtStart(s, t, r) \/ InMethod(s, t, r) => \E m \in Seq(Symbols), u \in Seq(Symbols) : r = NewRequest(m, u)
    BY <1>1 DEF AtStart, InMethod
  <2>2. InUri(s, t, r) => \E m \in Seq(Symbols), u \in Seq(Symbols) : r = NewRequest(m, u)
    BY <1>1 DEF InUri
  <2>3. InVersion(s, t, r) => \E m \in Seq(Symbols), u \in Seq(Symbols) : r = NewRequest(m, u)
    BY <1>1 DEF InVersion
  <2>4. AfterVersion(s, t, r) => \E m \in Seq(Symbols), u \in Seq(Symbols) : r = NewRequest(m, u)
    BY <1>1 DEF AfterVersion
  <2> QED BY <2>1, <2>2, <2>3, <2>4
<1>6. AtLine(s, t, r) => r \in RequestType
  <2>1. ASSUME NEW n \in 0 .. MaxText, <<t, r>> \in Heads[n] PROVE r \in RequestType
    <3>1. <<t, r>>[2] \in RequestType
      BY <1>2, <2>1
    <3> QED BY <3>1
  <2> QED BY <2>1 DEF AtLine
<1>7. AtEnd(s, t, r) => r \in RequestType
  BY <1>2 DEF AtEnd
<1>8. InName(s, t, r) \/ InValue(s, t, r)
        => \E q \in RequestType : \E m \in Seq(Symbols), u \in Seq(Symbols) : r = WithHeader(q, m, u)
  <2>1. InName(s, t, r) => \E q \in RequestType : \E m \in Seq(Symbols), u \in Seq(Symbols) : r = WithHeader(q, m, u)
    BY <1>1, <1>2 DEF InName
  <2>2. InValue(s, t, r) => \E q \in RequestType : \E m \in Seq(Symbols), u \in Seq(Symbols) : r = WithHeader(q, m, u)
    BY <1>1, <1>2 DEF InValue
  <2> QED BY <2>1, <2>2
<1>9. ASSUME InFold(s, t, r) PROVE r \in RequestType
  <2>1. PICK p \in Header(RequestLines), more \in Words(Text, 0) : r = Continued(p[2], more)
    BY <1>9 DEF InFold
  <2>2. PICK q \in RequestType, name \in Seq(Symbols), value \in Seq(Symbols) : p[2] = WithHeader(q, name, value)
    BY FirstHeader
  <2> DEFINE v == value \o more
  <2>3. v \in Seq(Symbols)
    BY <1>1, <2>2, ConcatProperties
  <2>4. r = WithHeader(q, name, v)
    BY <2>1, <2>2, ContinuedIs
  <2> HIDE DEF v
  <2> QED BY <1>4, <2>2, <2>3, <2>4
<1> QED BY <1>3, <1>4, <1>5, <1>6, <1>7, <1>8, <1>9 DEF HasRead

(* Whether a header has begun.                                              *)
Phase(r) == IF r.headers = <<>> THEN "first" ELSE "later"

(* A header begins with its first symbol, and stays.                        *)
LEMMA StoredPhase ==
  ASSUME req \in RequestType, NEW rule \in Rules, NEW c
  PROVE  Phase(Stored(rule[4], c)) = IF rule[4] = "header" THEN "later" ELSE Phase(req)
<1> DEFINE P == Seq(Symbols) \X Seq(Symbols)
           h == req.headers
<1>1. h \in Seq(P) /\ req = [method |-> req.method, uri |-> req.uri, headers |-> h]
  BY DEF RequestType
<1>2. rule[4] \in {"none", "method", "uri", "header", "name", "value"}
  BY DEF Rules, RequestLineRules, HeaderRules
<1>3. CASE rule[4] \in {"none", "method", "uri"}
  <2>1. Stored(rule[4], c).headers = req.headers
    BY <1>1, <1>3 DEF Stored
  <2> QED BY <1>3, <2>1 DEF Phase
<1>4. CASE rule[4] = "header"
  <2> DEFINE e == <<<<c>>, <<>>>>
  <2>1. Stored(rule[4], c).headers = Append(h, e)
    BY <1>1, <1>4 DEF Stored
  <2> HIDE DEF e, h, P
  <2>2. Append(h, e) # <<>>
    BY <1>1
  <2> QED BY <1>4, <2>1, <2>2 DEF Phase
<1>5. \A n : \A x : [h EXCEPT ![n] = x] = <<>> <=> h = <<>>
  <2> HIDE DEF h, P
  <2>1. DOMAIN h = 1 .. Len(h) /\ Len(h) \in Nat /\ (h = <<>> <=> Len(h) = 0)
    BY <1>1
  <2>2. ASSUME NEW n, NEW x PROVE [h EXCEPT ![n] = x] = <<>> <=> h = <<>>
    <3> DEFINE g == [h EXCEPT ![n] = x]
    <3>1. DOMAIN g = 1 .. Len(h) /\ DOMAIN <<>> = {}
      BY <2>1
    <3>2. CASE h = <<>>
      <4>1. g = [i \in DOMAIN h |-> IF i = n THEN x ELSE h[i]]
        OBVIOUS
      <4>2. h = [i \in DOMAIN h |-> h[i]] /\ DOMAIN h = {}
        BY <3>2
      <4>3. g = h
        BY <4>1, <4>2
      <4> QED BY <3>2, <4>3
    <3>3. CASE h # <<>>
      <4>1. 1 \in DOMAIN g
        BY <2>1, <3>1, <3>3
      <4>2. g # <<>>
        <5> HIDE DEF g
        <5> QED BY <3>1, <4>1
      <4> QED BY <3>3, <4>2
    <3> QED BY <3>2, <3>3
  <2> QED BY <2>2
<1>6. CASE rule[4] \in {"name", "value"}
  <2>1. \E n, x : Stored(rule[4], c).headers = [h EXCEPT ![n] = x]
    BY <1>1, <1>6 DEF Stored
  <2> HIDE DEF h
  <2>2. Stored(rule[4], c).headers = <<>> <=> h = <<>>
    BY <1>5, <2>1
  <2> QED BY <1>6, <2>2 DEF Phase, h
<1> QED BY <1>2, <1>3, <1>4, <1>6

(* The parser follows the states of any text that goes on from its input.   *)
Follows ==
  \A t \in Seq(Symbols) : \A f :
    Run(t, f) /\ Continues(t, input) => f[Len(input)] = <<state, Phase(req)>>

(* The next symbol of a text has a rule, which applies.                     *)
LEMMA NextStep ==
  ASSUME input \in Seq(Symbols), Follows, NEW c \in Symbols,
         NEW t \in Seq(Symbols), NEW f, Run(t, f), Continues(t, Append(input, c))
  PROVE  \E other \in Rules :
           /\ Applies(other, c)
           /\ f[Len(Append(input, c))] = <<other[3], IF other[4] = "header" THEN "later" ELSE Phase(req)>>
<1> DEFINE n == Len(input)
           s == Append(input, c)
<1>1. n \in Nat /\ s \in Seq(Symbols) /\ Len(s) = n + 1 /\ s[n + 1] = c /\ Continues(s, input)
  BY AppendElements, AppendContinues
<1> HIDE DEF s
<1>2. Continues(t, s)
  BY DEF s
<1>3. Continues(t, input)
  BY <1>1, <1>2, ContinuesOn
<1>4. f[n] = <<state, Phase(req)>>
  BY <1>3 DEF Follows
<1> HIDE DEF n
<1> DEFINE i == n + 1
<1>5. i \in 1 .. Len(t) /\ i - 1 = n /\ t[i] = c
  BY <1>1, <1>2 DEF Continues
<1>6. Len(s) = i
  BY <1>1
<1> HIDE DEF i
<1>7. Steps(f[i - 1], t[i], f[i])
  BY <1>5 DEF Run
<1> DEFINE x == <<state, Phase(req)>>
<1>8. Steps(x, c, f[i])
  BY <1>4, <1>5, <1>7
<1>9. x[1] = state /\ x[2] = Phase(req)
  OBVIOUS
<1> HIDE DEF x
<1>10. PICK other \in Rules :
         /\ other[1] = state /\ c \in other[2]
         /\ other[3] = "header_lws" /\ state = "header_line_start" => Phase(req) = "later"
         /\ f[i] = <<other[3], IF other[4] = "header" THEN "later" ELSE Phase(req)>>
  BY <1>8, <1>9 DEF Steps
<1>11. Applies(other, c)
  BY <1>10 DEF Applies, Phase
<1>12. f[Len(s)] = <<other[3], IF other[4] = "header" THEN "later" ELSE Phase(req)>>
  BY <1>6, <1>10
<1> QED BY <1>11, <1>12 DEF s

(* What is appended to is the same if the results are.                      *)
LEMMA AppendEqual ==
  ASSUME NEW a \in Seq(Symbols), NEW b \in Seq(Symbols), NEW c \in Symbols, NEW d \in Symbols,
         Append(a, c) = Append(b, d)
  PROVE  a = b /\ c = d
<1>1. /\ Len(Append(a, c)) = Len(a) + 1 /\ Append(a, c)[Len(a) + 1] = c
      /\ Len(Append(b, d)) = Len(b) + 1 /\ Append(b, d)[Len(b) + 1] = d
      /\ \A i \in 1 .. Len(a) : Append(a, c)[i] = a[i]
      /\ \A i \in 1 .. Len(b) : Append(b, d)[i] = b[i]
      /\ Len(a) \in Nat /\ Len(b) \in Nat
  BY AppendElements
<1>2. Len(a) = Len(b)
  BY <1>1
<1>3. \A i \in 1 .. Len(a) : a[i] = b[i]
  BY <1>1, <1>2
<1> QED BY <1>1, <1>2, <1>3, SeqEqual

(* At the last symbol of a request the parser expects it.                   *)
LEMMA AtRequest ==
  ASSUME input \in Seq(Symbols), Follows, NEW c \in Symbols, NEW r \in Requests, r[1] = Append(input, c)
  PROVE  state = "expecting_newline_3" /\ c = "LF"
<1>1. PICK t \in Seq(Symbols) : \E f :
           /\ r[1] = Append(t, "LF")
           /\ Run(t, f) /\ f[Len(t)][1] = "expecting_newline_3"
  BY RequestRun
<1>2. PICK f : Run(t, f) /\ f[Len(t)][1] = "expecting_newline_3"
  BY <1>1
<1>3. t = input /\ c = "LF"
  <2> DEFINE d == "LF"
  <2>1. d \in Symbols /\ Append(input, c) = Append(t, d)
    BY <1>1, SymbolSets
  <2> HIDE DEF d
  <2>2. t = input /\ c = d
    BY <2>1, AppendEqual
  <2> QED BY <2>2 DEF d
<1>4. Continues(t, input)
  BY <1>3 DEF Continues
<1>5. f[Len(input)] = <<state, Phase(req)>>
  BY <1>2, <1>4 DEF Follows
<1> QED BY <1>2, <1>3, <1>5

(* A symbol that no rule has ends a request, or belongs to none.            *)
LEMMA NoRule ==
  ASSUME input \in Seq(Symbols), Follows, NEW c \in Symbols, \A rule \in Rules : ~Applies(rule, c),
         Append(input, c) \in Openings
  PROVE  state = "expecting_newline_3" /\ c = "LF"
<1> DEFINE s == Append(input, c)
<1>1. PICK r \in Requests : s \in Prefixes(r[1])
  BY DEF Openings
<1>2. PICK t \in Seq(Symbols) : \E f :
           /\ r[1] = Append(t, "LF")
           /\ Run(t, f) /\ f[Len(t)][1] = "expecting_newline_3"
  BY RequestRun
<1>3. PICK f : Run(t, f)
  BY <1>2
<1> DEFINE q == Append(t, "LF")
<1>4. /\ q \in Seq(Symbols) /\ Len(q) = Len(t) + 1 /\ Len(t) \in Nat /\ r[1] = q
      /\ \A i \in 1 .. Len(t) : q[i] = t[i]
  BY <1>2, SymbolSets, AppendElements
<1>5. s \in Seq(Symbols) /\ Len(s) \in Nat
  OBVIOUS
<1> HIDE DEF s, q
<1>6. Continues(q, s)
  BY <1>1, <1>4, <1>5, PrefixesAre
<1>7. CASE Len(s) <= Len(t)
  <2>1. Continues(t, s)
    BY <1>4, <1>5, <1>6, <1>7 DEF Continues
  <2>2. \E other \in Rules : Applies(other, c)
    BY <1>3, <2>1, NextStep DEF s
  <2> QED BY <2>2
<1>8. CASE Len(s) = Len(t) + 1
  <2>1. q = s
    BY <1>4, <1>5, <1>6, <1>8, SeqEqual DEF Continues
  <2> QED BY <1>4, <2>1, AtRequest DEF s
<1>9. Len(s) <= Len(t) + 1
  BY <1>4, <1>6 DEF Continues
<1> QED BY <1>4, <1>5, <1>7, <1>8, <1>9

(* What the parser has read, and what it says of it.                        *)
RecognisesInv ==
  /\ input \in Seq(Symbols)
  /\ result = "indeterminate" => HasRead(state, input, req) /\ Follows /\ \A r \in Requests : r[1] # input
  /\ result = "good" => <<input, req>> \in Requests
  /\ result = "bad" => input \notin Openings

(* The invariant says what Recognises does.                                 *)
LEMMA RecognisesHolds == RecognisesInv => Recognises
<1> SUFFICES ASSUME RecognisesInv PROVE Recognises
  OBVIOUS
<1>1. result = "indeterminate" => input \in Openings
  BY Opens DEF RecognisesInv
<1> QED BY <1>1 DEF RecognisesInv, Recognises

(* Nothing is read yet: every request goes on with that.                    *)
LEMMA RecognisesInit == InitParser => RecognisesInv
<1> SUFFICES ASSUME InitParser PROVE RecognisesInv
  OBVIOUS
<1>1. /\ state = "method_start" /\ req = NewRequest(<<>>, <<>>) /\ result = "indeterminate" /\ input = <<>>
  BY DEF InitParser, NewRequest
<1>2. input \in Seq(Symbols) /\ Len(input) = 0
  BY <1>1, EmptySeq
<1>3. HasRead(state, input, req)
  <2> DEFINE e == <<>>
  <2>1. e \in Seq(Symbols) /\ Len(e) = 0 /\ req = NewRequest(e, e)
    BY <1>1, EmptySeq
  <2> HIDE DEF e
  <2>2. TextOf(req) <= MaxText
    <3>1. TextOf(NewRequest(e, e)) = Len(e) + Len(e)
      BY <2>1, NewRequestType
    <3> QED BY <2>1, <3>1
  <2>3. AtStart(state, input, req)
    BY <1>1 DEF AtStart
  <2> QED BY <2>2, <2>3 DEF HasRead
<1>4. Follows
  <2>1. Phase(req) = "first"
    BY <1>1 DEF Phase, NewRequest
  <2> QED BY <1>1, <1>2, <2>1 DEF Follows, Run
<1>5. ASSUME NEW r \in Requests PROVE r[1] # input
  <2>1. PICK t \in Seq(Symbols) : r[1] = Append(t, "LF")
    BY RequestRun
  <2>2. Len(r[1]) # 0
    BY <2>1, SymbolSets, AppendElements
  <2> QED BY <1>2, <2>2
<1> QED BY <1>1, <1>2, <1>3, <1>4, <1>5 DEF RecognisesInv

(* A symbol that a rule takes.                                              *)
LEMMA TakenFollows ==
  ASSUME input \in Seq(Symbols), HasRead(state, input, req), Follows,
         NEW rule, NEW c, Taken(rule, c),
         NEW t \in Seq(Symbols), NEW f, Run(t, f), Continues(t, Append(input, c))
  PROVE  f[Len(Append(input, c))] = <<rule[3], Phase(Stored(rule[4], c))>>
<1>1. rule \in Rules /\ c \in Symbols /\ rule[1] = state /\ c \in rule[2]
  BY DEF Taken, Applies
<1>2. PICK other \in Rules :
        /\ Applies(other, c)
        /\ f[Len(Append(input, c))] = <<other[3], IF other[4] = "header" THEN "later" ELSE Phase(req)>>
  BY <1>1, NextStep
<1>3. other = rule
  BY <1>1, <1>2, OneRule DEF Applies
<1>4. Phase(Stored(rule[4], c)) = IF rule[4] = "header" THEN "later" ELSE Phase(req)
  BY <1>1, ReadType, StoredPhase
<1> QED BY <1>2, <1>3, <1>4

(* Every step of the parser and of do_read keeps the invariant.             *)
LEMMA RecognisesStep == RecognisesInv /\ [NextParser]_parserVars => RecognisesInv'
<1> SUFFICES ASSUME RecognisesInv, [NextParser]_parserVars PROVE RecognisesInv'
  OBVIOUS
<1>1. ASSUME NEW c \in Symbols, Consume(c), NEW rule \in Rules,
             Applies(rule, c), state' = rule[3], req' = Stored(rule[4], c),
             rule[4] # "none" => c \in Written, TextOf(req') <= MaxText,
             state \in {"http_version_major", "http_version_minor"} /\ c = "1" => MoreDigits,
             rule[3] = "header_lws" => Cardinality({i \in DOMAIN input : input[i] = "LF"}) <= 2 /\ state # "header_lws",
             result' = result
      PROVE  RecognisesInv'
  <2>1. input \in Seq(Symbols) /\ HasRead(state, input, req) /\ Follows /\ input' = Append(input, c)
        /\ result' = "indeterminate"
    BY <1>1 DEF RecognisesInv, Consume
  <2>2. Taken(rule, c)
    BY <1>1 DEF Taken, LineFeeds
  <2>3. input' \in Seq(Symbols)
    BY <2>1
  <2>4. HasRead(state', input', req')
    <3>1. HasRead(rule[3], Append(input, c), Stored(rule[4], c))
      BY <2>1, <2>2, SymbolRead
    <3> QED BY <1>1, <2>1, <3>1
  <2>5. Follows'
    <3>1. ASSUME NEW t \in Seq(Symbols), NEW f, Run(t, f), Continues(t, input')
          PROVE  f[Len(input')] = <<state', Phase(req')>>
      <4>1. Continues(t, Append(input, c))
        BY <2>1, <3>1
      <4>2. f[Len(Append(input, c))] = <<rule[3], Phase(Stored(rule[4], c))>>
        BY <2>1, <2>2, <3>1, <4>1, TakenFollows
      <4> QED BY <1>1, <2>1, <4>2
    <3> QED BY <3>1 DEF Follows
  <2>6. ASSUME NEW r \in Requests PROVE r[1] # input'
    <3>1. rule[1] # "expecting_newline_3"
      BY RulesFrom
    <3>2. state # "expecting_newline_3"
      BY <1>1, <3>1 DEF Applies
    <3> QED BY <2>1, <3>2, AtRequest
  <2> QED BY <2>1, <2>3, <2>4, <2>5, <2>6 DEF RecognisesInv
<1>2. ASSUME NEW c \in Symbols, Consume(c), \A rule \in Rules : ~Applies(rule, c),
             result' = IF state = "expecting_newline_3" /\ c = "LF" THEN "good" ELSE "bad",
             UNCHANGED <<state, req>>
      PROVE  RecognisesInv'
  <2>1. input \in Seq(Symbols) /\ HasRead(state, input, req) /\ Follows /\ input' = Append(input, c) /\ req' = req
    BY <1>2 DEF RecognisesInv, Consume
  <2>2. input' \in Seq(Symbols)
    BY <2>1
  <2>3. ASSUME result' = "good" PROVE <<input', req'>> \in Requests
    <3>1. state = "expecting_newline_3" /\ c = "LF"
      BY <1>2, <2>3
    <3>2. AtEnd(state, input, req)
      BY <2>1, <3>1, InVersionState DEF HasRead, AtStart, InMethod, InUri, AfterVersion, AtLine, InName,
                        InValue, InFold
    <3>3. PICK n \in 0 .. MaxText : \E p \in Heads[n] : input = Append(p[1], "CR") /\ req = p[2]
      BY <3>2 DEF AtEnd
    <3>4. PICK p \in Heads[n] : input = Append(p[1], "CR") /\ req = p[2]
      BY <3>3
    <3>5. p[1] \in Seq(Symbols)
      BY HeadsType DEF IsHead
    <3>6. input' = p[1] \o CRLF
      BY <2>1, <3>1, <3>4, <3>5, LineEnd
    <3>7. <<p[1] \o CRLF, p[2]>> \in Requests
      BY DEF Requests
    <3> QED BY <2>1, <3>4, <3>6, <3>7
  <2>4. ASSUME result' = "bad" PROVE input' \notin Openings
    BY <1>2, <2>1, <2>4, NoRule
  <2> QED BY <1>2, <2>2, <2>3, <2>4 DEF RecognisesInv
<1>3. ASSUME NEW c \in Symbols, Consume(c) PROVE RecognisesInv'
  BY <1>1, <1>2, <1>3 DEF Consume
<1>4. ASSUME UNCHANGED <<state, req, input>>, result' = result \/ result' = "thrown" PROVE RecognisesInv'
  <2>1. Follows' <=> Follows
    BY <1>4 DEF Follows
  <2> QED BY <1>4, <2>1 DEF RecognisesInv
<1>5. CASE EndRead
  BY <1>4, <1>5 DEF EndRead
<1>6. ASSUME NEW rest, Complete(rest) PROVE RecognisesInv'
  BY <1>4, <1>6 DEF Complete
<1>7. CASE UNCHANGED parserVars
  BY <1>4, <1>7 DEF parserVars
<1> QED BY <1>3, <1>5, <1>6, <1>7 DEF NextParser

(* Over any sequence of reads the parser says "good" at the end of a        *)
(* request of the grammar, with its fields and no earlier or later, and     *)
(* "bad" at the first byte that no request goes on with.                    *)
THEOREM ParserRecognises == InitParser /\ [][NextParser]_parserVars => []Recognises
<1>1. InitParser /\ [][NextParser]_parserVars => []RecognisesInv
  BY RecognisesInit, RecognisesStep, PTL
<1> QED BY <1>1, RecognisesHolds, PTL

HIDE ParserAssumption DEF ParserAssumption

=============================================================================
