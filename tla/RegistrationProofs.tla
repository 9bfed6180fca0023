------------------------- MODULE RegistrationProofs -------------------------
(***************************************************************************)
(* Registration for any number of connections: its types, and that a       *)
(* player in the table keeps his account in memory while ids do not meet.  *)
(* The latter rests on the size of users: with ids in memory that have no  *)
(* gap it bounds the ids of both kinds (Contiguous), and as long as it is  *)
(* small the ids taken from it lie below those of the table (Apart).       *)
(***************************************************************************)
EXTENDS Registration, FiniteSetTheorems, TLAPS

USE RegistrationAssumption DEF RegistrationAssumption

-----------------------------------------------------------------------------
(* Init establishes the types.                                              *)
LEMMA InitTypeOK == Init => TypeOK
<1> SUFFICES ASSUME Init PROVE TypeOK
  OBVIOUS
<1>1. PICK rows \in 0 .. first - 1 : users = [i \in Loaded(rows) |-> NoConn]
  BY DEF Init
<1>2. IsFiniteSet(Loaded(rows))
  <2>1. IsFiniteSet({}) /\ IsFiniteSet({0})
    BY FS_EmptySet, FS_Singleton, Zenon
  <2> QED BY <2>1 DEF Loaded
<1>3. DOMAIN users = Loaded(rows) /\ users \in [DOMAIN users -> Conns \cup {NoConn}]
  BY <1>1
<1> QED BY <1>2, <1>3 DEF Init, InitHttp, TypeOK

(* The ids in memory as long as they have no gap: that of the loaded rows,  *)
(* if there were rows, and those from first to n.                           *)
Zero == IF first = 2 THEN {0} ELSE {}

LEMMA IdsCardinality ==
  ASSUME first \in {1, 2}, NEW n \in Nat, n + 1 >= first
  PROVE  Cardinality(Zero \cup first .. n) = n
<1>1. IsFiniteSet(first .. n) /\ Cardinality(first .. n) = n + 1 - first
  <2>1. first \in Int /\ n \in Int
    OBVIOUS
  <2>2. /\ IsFiniteSet(first .. n)
        /\ Cardinality(first .. n) = IF first > n THEN 0 ELSE n - first + 1
    BY <2>1, FS_Interval, Zenon
  <2>3. (IF first > n THEN 0 ELSE n - first + 1) = n + 1 - first
    OBVIOUS
  <2> QED BY <2>2, <2>3
<1>2. CASE first = 1
  <2>1. Zero \cup first .. n = first .. n
    BY <1>2 DEF Zero
  <2>2. Cardinality(first .. n) = n
    BY <1>1, <1>2
  <2> QED BY <2>1, <2>2, Zenon
<1>3. CASE first = 2
  <2>1. Zero \cup first .. n = (first .. n) \cup {0}
    BY <1>3 DEF Zero
  <2>2. 0 \notin first .. n
    BY <1>3
  <2>3. Cardinality((first .. n) \cup {0}) = Cardinality(first .. n) + 1
    BY <1>1, <2>2, FS_AddElement, Zenon
  <2>4. Cardinality(first .. n) + 1 = n
    BY <1>1, <1>3
  <2> QED BY <2>1, <2>3, <2>4, Zenon
<1> QED BY <1>2, <1>3

-----------------------------------------------------------------------------
(* The queue of jobs.                                                       *)

LEMMA AppendElements ==
  ASSUME NEW S, NEW q \in Seq(S), NEW e \in S
  PROVE  /\ Append(q, e) \in Seq(S) /\ Append(q, e) # <<>>
         /\ Len(q) \in Nat /\ Len(Append(q, e)) = Len(q) + 1
         /\ Head(Append(q, e)) = IF q = <<>> THEN e ELSE Head(q)
         /\ \A i \in 1 .. Len(q) : Append(q, e)[i] = q[i]
         /\ Append(q, e)[Len(q) + 1] = e
<1>1. /\ Append(q, e) \in Seq(S) /\ Append(q, e) # <<>>
      /\ Len(q) \in Nat /\ Len(Append(q, e)) = Len(q) + 1
      /\ \A i \in 1 .. Len(q) : Append(q, e)[i] = q[i]
      /\ Append(q, e)[Len(q) + 1] = e
  OBVIOUS
<1>2. Head(Append(q, e)) = Append(q, e)[1]
  BY <1>1
<1>3. CASE q = <<>>
  BY <1>1, <1>2, <1>3
<1>4. CASE q # <<>>
  <2>1. Len(q) >= 1 /\ Head(q) = q[1]
    BY <1>4
  <2> QED BY <1>1, <1>2, <1>4, <2>1
<1> QED BY <1>1, <1>3, <1>4

LEMMA TailElements ==
  ASSUME NEW S, NEW q \in Seq(S), q # <<>>
  PROVE  /\ Tail(q) \in Seq(S) /\ Len(q) \in Nat /\ Len(q) >= 1
         /\ Head(q) \in S /\ Head(q) = q[1]
         /\ Len(Tail(q)) = Len(q) - 1
         /\ \A i \in 1 .. Len(q) - 1 : Tail(q)[i] = q[i + 1]
  OBVIOUS

(* The connection of a job was read to the end, each job has its own, and   *)
(* it waits until the job calls back.                                       *)
Queued ==
  \A i \in 1 .. Len(db_jobs) :
    /\ conn[db_jobs[i]] \in {"waiting", "writing", "done"}
    /\ i > 1 \/ dbPc # "pop" => conn[db_jobs[i]] = "waiting"
    /\ \A j \in 1 .. Len(db_jobs) : db_jobs[i] = db_jobs[j] => i = j

(* A connection is written to once, when it has been read and need not wait *)
(* any more.                                                                *)
Unwritten ==
  \A c \in Conns :
    /\ written[c] \in {0, 1}
    /\ conn[c] \in {"new", "reading", "waiting"} => written[c] = 0

(* A connection that has an account was read, no job of it is still to      *)
(* begin, and unless its job is about to call back it was written to.       *)
Registered ==
  \A p \in made :
    /\ conn[p[2]] \notin {"new", "reading"}
    /\ \A i \in 1 .. Len(db_jobs) : db_jobs[i] = p[2] => i = 1 /\ dbPc # "idle"
    /\ \A q \in made : p[2] = q[2] => p = q
    /\ written[p[2]] = 0 => (dbPc = "callback" /\ Head(db_jobs) = p[2]) \/ process = "crashed"

IInv == TypeOK /\ Queued /\ Unwritten /\ Registered

LEMMA InitIInv == Init => IInv
  BY InitTypeOK DEF Init, InitHttp, IInv, Queued, Unwritten, Registered

LEMMA AcceptIInv == ASSUME IInv, NEW c \in Conns, Accept(c) PROVE IInv'
<1>1. TypeOK'
  BY DEF IInv, TypeOK, Accept, start, dbVars
<1>2. Queued' /\ Unwritten' /\ Registered'
  BY DEF IInv, TypeOK, Queued, Unwritten, Registered, Accept, start, dbVars
<1> QED BY <1>1, <1>2 DEF IInv

LEMMA DataArrivesIInv == ASSUME IInv, NEW c \in Conns, DataArrives(c) PROVE IInv'
<1>1. TypeOK'
  BY DEF IInv, TypeOK, DataArrives, dbVars
<1>2. Queued' /\ Unwritten' /\ Registered'
  BY DEF IInv, TypeOK, Queued, Unwritten, Registered, DataArrives, dbVars
<1> QED BY <1>1, <1>2 DEF IInv

LEMMA ReadFailsIInv == ASSUME IInv, NEW c \in Conns, ReadFails(c) PROVE IInv'
<1>1. TypeOK'
  BY DEF IInv, TypeOK, ReadFails, stop, dbVars
<1>2. Queued' /\ Unwritten' /\ Registered'
  BY DEF IInv, TypeOK, Queued, Unwritten, Registered, ReadFails, stop, dbVars
<1> QED BY <1>1, <1>2 DEF IInv

LEMMA ReadOtherIInv == ASSUME IInv, NEW c \in Conns, ReadOther(c) PROVE IInv'
<1>1. conn[c] = "reading"
  BY DEF IInv, TypeOK, ReadOther
<1>2. TypeOK'
  BY <1>1 DEF IInv, TypeOK, ReadOther, do_write, dbVars
<1>3. Queued' /\ Unwritten' /\ Registered'
  BY <1>1 DEF IInv, TypeOK, Queued, Unwritten, Registered, ReadOther, do_write, dbVars
<1> QED BY <1>2, <1>3 DEF IInv

LEMMA WriteDoneIInv == ASSUME IInv, NEW c \in Conns, WriteDone(c) PROVE IInv'
<1>1. TypeOK'
  BY DEF IInv, TypeOK, WriteDone, stop, dbVars
<1>2. Queued' /\ Unwritten' /\ Registered'
  BY DEF IInv, TypeOK, Queued, Unwritten, Registered, WriteDone, stop, dbVars
<1> QED BY <1>1, <1>2 DEF IInv

LEMMA SignalIInv == ASSUME IInv, Signal PROVE IInv'
  BY DEF IInv, TypeOK, Queued, Unwritten, Registered, Signal, stop_all, dbVars

(* The connection that is read has no job yet, and no account.              *)
LEMMA ReadRegisterIInv == ASSUME IInv, NEW c \in Conns, ReadRegister(c) PROVE IInv'
<1>1. /\ conn[c] = "reading" /\ conn' = [conn EXCEPT ![c] = "waiting"]
      /\ conn \in [Conns -> {"new", "reading", "waiting", "writing", "done"}]
      /\ db_jobs' = Append(db_jobs, c) /\ db_jobs \in Seq(Conns)
      /\ UNCHANGED <<written, dbPc, made, process>>
  BY DEF IInv, TypeOK, ReadRegister, PushRegisterJob, dbVars
<1>2. /\ db_jobs' \in Seq(Conns) /\ db_jobs' # <<>>
      /\ Len(db_jobs) \in Nat /\ Len(db_jobs') = Len(db_jobs) + 1
      /\ Head(db_jobs') = IF db_jobs = <<>> THEN c ELSE Head(db_jobs)
      /\ \A i \in 1 .. Len(db_jobs) : db_jobs'[i] = db_jobs[i]
      /\ db_jobs'[Len(db_jobs) + 1] = c
  BY <1>1, AppendElements
<1>3. \A i \in 1 .. Len(db_jobs) : db_jobs[i] \in Conns /\ db_jobs[i] # c
  BY <1>1, <1>2 DEF IInv, Queued
<1>4. \A p \in made : p[2] # c /\ p[2] \in Conns
  BY <1>1 DEF IInv, Registered, TypeOK
<1>5. TypeOK'
  BY <1>1, <1>2 DEF IInv, TypeOK, ReadRegister, PushRegisterJob, dbVars
<1>6. dbPc = "pop" => Len(db_jobs) >= 1
  BY <1>1, <1>2 DEF IInv, TypeOK
<1>7. Queued'
  BY <1>1, <1>2, <1>3, <1>6 DEF IInv, Queued
<1>8. Unwritten'
  BY <1>1 DEF IInv, Unwritten
<1>9. dbPc = "callback" => Head(db_jobs') = Head(db_jobs)
  BY <1>2 DEF IInv, TypeOK
<1>10. Registered'
  BY <1>1, <1>2, <1>3, <1>4, <1>9 DEF IInv, Registered
<1> QED BY <1>5, <1>7, <1>8, <1>10 DEF IInv

(* The head of the queue has no account yet: its job is still to begin.     *)
LEMMA RegisterUserIInv == ASSUME IInv, process = "up", RegisterUser PROVE IInv'
<1> DEFINE h == Head(db_jobs)
<1>1. /\ dbPc = "idle" /\ dbPc' = "callback" /\ db_jobs # <<>> /\ db_jobs \in Seq(Conns)
      /\ made' = made \cup {<<userId', h>>}
      /\ UNCHANGED <<accepting, conn, managed, arrived, written, db_jobs, first, process>>
  BY DEF IInv, TypeOK, RegisterUser, httpVars
<1>2. h \in Conns /\ Len(db_jobs) \in Nat /\ Len(db_jobs) >= 1 /\ h = db_jobs[1]
  BY <1>1, TailElements
<1>3. userId' \in Nat /\ serial' \in Nat /\ inserted' \subseteq made'
  <2>1. FreeId \in Nat
    <3>1. Cardinality(DOMAIN users) \in Nat
      BY FS_CardinalityType, Zenon DEF IInv, TypeOK
    <3> QED BY <3>1 DEF FreeId
  <2>2. serial \in Nat /\ inserted \subseteq made
    BY DEF IInv, TypeOK
  <2> QED BY <1>1, <2>1, <2>2 DEF RegisterUser
<1>4. /\ DOMAIN users' = DOMAIN users \cup {userId'}
      /\ users' \in [DOMAIN users' -> Conns \cup {NoConn}]
  <2>1. users' = [i \in DOMAIN users \cup {userId'} |-> IF i = userId' THEN h ELSE users[i]]
    BY DEF RegisterUser
  <2>2. \A i \in DOMAIN users : users[i] \in Conns \cup {NoConn}
    BY DEF IInv, TypeOK
  <2> QED BY <1>2, <2>1, <2>2
<1>5. IsFiniteSet(DOMAIN users')
  <2>1. IsFiniteSet(DOMAIN users)
    BY DEF IInv, TypeOK
  <2>2. IsFiniteSet(DOMAIN users \cup {userId'})
    BY <2>1, FS_AddElement, Zenon
  <2> QED BY <1>4, <2>2
<1>6. made' \subseteq Nat \X Conns
  BY <1>1, <1>2, <1>3 DEF IInv, TypeOK
<1>7. TypeOK'
  BY <1>1, <1>3, <1>4, <1>5, <1>6 DEF IInv, TypeOK
<1>8. Queued' /\ Unwritten'
  BY <1>1 DEF IInv, Queued, Unwritten
<1>9. conn[h] = "waiting"
  BY <1>1, <1>2 DEF IInv, Queued
<1>10. \A p \in made : p[2] # h /\ written[p[2]] # 0
  BY <1>1, <1>2 DEF IInv, Registered
<1>11. \A i \in 1 .. Len(db_jobs) : db_jobs[i] = h => i = 1
  BY <1>2 DEF IInv, Queued
<1>12. Registered'
  BY <1>1, <1>2, <1>9, <1>10, <1>11 DEF IInv, Registered
<1> QED BY <1>7, <1>8, <1>12 DEF IInv

(* The callback writes to the head of the queue, which waits, or crashes.   *)
LEMMA CallbackIInv == ASSUME IInv, process = "up", Callback PROVE IInv'
<1> DEFINE h == Head(db_jobs)
<1>1. /\ dbPc = "callback" /\ dbPc' = "pop" /\ db_jobs # <<>> /\ db_jobs \in Seq(Conns)
      /\ conn \in [Conns -> {"new", "reading", "waiting", "writing", "done"}]
      /\ written \in [Conns -> Nat]
      /\ UNCHANGED <<accepting, managed, arrived, db_jobs, userId, serial, first, users, made, inserted>>
  BY DEF IInv, TypeOK, Callback
<1>2. h \in Conns /\ Len(db_jobs) \in Nat /\ Len(db_jobs) >= 1 /\ h = db_jobs[1]
  BY <1>1, TailElements
<1>3. conn[h] = "waiting" /\ written[h] = 0
  BY <1>1, <1>2 DEF IInv, Queued, Unwritten
<1>4. \A i \in 1 .. Len(db_jobs) : db_jobs[i] \in Conns /\ (db_jobs[i] = h => i = 1)
  BY <1>1, <1>2 DEF IInv, Queued
<1>5. \/ /\ conn' = [conn EXCEPT ![h] = "writing"]
         /\ written' = [written EXCEPT ![h] = @ + 1]
         /\ process' = process
      \/ process' = "crashed" /\ UNCHANGED <<conn, written>>
  BY DEF Callback, do_write
<1>6. TypeOK'
  <2>1. /\ conn' \in [Conns -> {"new", "reading", "waiting", "writing", "done"}]
        /\ written' \in [Conns -> Nat] /\ process' \in {"up", "crashed"}
    BY <1>1, <1>2, <1>3, <1>5 DEF IInv, TypeOK
  <2>2. arrived' \subseteq {c \in Conns : conn'[c] = "reading"}
    BY <1>1, <1>2, <1>3, <1>5 DEF IInv, TypeOK
  <2> QED BY <1>1, <2>1, <2>2 DEF IInv, TypeOK
<1>7. Queued'
  BY <1>1, <1>2, <1>4, <1>5 DEF IInv, Queued
<1>8. Unwritten'
  BY <1>1, <1>2, <1>3, <1>5 DEF IInv, Unwritten
<1>9. \A p \in made : p[2] \in Conns
  BY DEF IInv, TypeOK
<1>10. Registered'
  BY <1>1, <1>2, <1>3, <1>5, <1>9 DEF IInv, Registered
<1> QED BY <1>6, <1>7, <1>8, <1>10 DEF IInv

LEMMA PopJobIInv == ASSUME IInv, process = "up", PopJob PROVE IInv'
<1>1. /\ dbPc = "pop" /\ dbPc' = "idle" /\ db_jobs # <<>> /\ db_jobs \in Seq(Conns)
      /\ db_jobs' = Tail(db_jobs)
      /\ UNCHANGED <<accepting, conn, managed, arrived, written, userId, serial, first, users, made,
                     inserted, process>>
  BY DEF IInv, TypeOK, PopJob, httpVars
<1>2. /\ db_jobs' \in Seq(Conns) /\ Len(db_jobs) \in Nat /\ Len(db_jobs) >= 1
      /\ Len(db_jobs') = Len(db_jobs) - 1
      /\ \A i \in 1 .. Len(db_jobs) - 1 : db_jobs'[i] = db_jobs[i + 1]
  BY <1>1, TailElements
<1>3. TypeOK'
  BY <1>1, <1>2 DEF IInv, TypeOK
<1>4. Queued'
  BY <1>1, <1>2 DEF IInv, Queued
<1>5. Unwritten'
  BY <1>1 DEF IInv, Unwritten
<1>6. Registered'
  BY <1>1, <1>2 DEF IInv, Registered
<1> QED BY <1>3, <1>4, <1>5, <1>6 DEF IInv

LEMMA NextIInv == IInv /\ [Next]_vars => IInv'
<1> SUFFICES ASSUME IInv, [Next]_vars PROVE IInv'
  OBVIOUS
<1>1. CASE Next
  <2>1. process = "up"
    BY <1>1 DEF Next
  <2>2. ASSUME NEW c \in Conns, Accept(c) \/ DataArrives(c) \/ ReadFails(c) \/ Handler(c)
        PROVE  IInv'
    BY <2>2, AcceptIInv, DataArrivesIInv, ReadFailsIInv, ReadRegisterIInv, ReadOtherIInv,
       WriteDoneIInv DEF Handler
  <2>3. CASE Job
    BY <2>1, <2>3, RegisterUserIInv, CallbackIInv, PopJobIInv DEF Job, do_job
  <2> QED BY <1>1, <2>2, <2>3, SignalIInv DEF Next
<1>2. CASE UNCHANGED vars
  BY <1>2 DEF vars, httpVars, dbVars, IInv, TypeOK, Queued, Unwritten, Registered
<1> QED BY <1>1, <1>2

-----------------------------------------------------------------------------
(* The ids of the accounts.                                                 *)

(* If there was no gap at the start there is none, the table has given out  *)
(* only such ids, and every inserted player is the owner of his.            *)
Contiguous ==
  Gapless =>
    \E n \in Nat :
      /\ n + 1 >= first
      /\ DOMAIN users = Zero \cup first .. n
      /\ serial \in first .. (n + 1)
      /\ \A p \in inserted : p[1] \in first .. n /\ p[1] < serial /\ users[p[1]] = p[2]

(* The table gives out the ids from first on, each once, and while the      *)
(* accounts are few nobody else takes them.                                 *)
Apart ==
  /\ serial >= first
  /\ \A p \in inserted : p[1] \in DOMAIN users /\ p[1] >= first /\ p[1] < serial
  /\ Few => \A p \in inserted : users[p[1]] = p[2]

LEMMA InitIds == Init => Contiguous /\ Apart
<1> SUFFICES ASSUME Init PROVE Contiguous /\ Apart
  OBVIOUS
<1>1. PICK rows \in 0 .. first - 1 : users = [i \in Loaded(rows) |-> NoConn]
  BY DEF Init
<1>2. first \in Nat \ {0} /\ serial = first /\ inserted = {}
  BY DEF Init
<1>3. DOMAIN users = Loaded(rows)
  BY <1>1
<1>4. ASSUME Gapless PROVE DOMAIN users = Zero \cup first .. (first - 1)
  <2>1. first .. (first - 1) = {}
    BY <1>2
  <2> QED BY <1>2, <1>3, <1>4, <2>1 DEF Gapless, Loaded, Zero
<1>5. Contiguous
  BY <1>2, <1>4 DEF Contiguous
<1> QED BY <1>2, <1>5 DEF Apart

(* A new account leaves the others of the memory there.                     *)
LEMMA RegisterUsers ==
  ASSUME TypeOK, RegisterUser
  PROVE  /\ DOMAIN users' = DOMAIN users \cup {userId'}
         /\ \A i \in DOMAIN users \cup {userId'} :
              users'[i] = IF i = userId' THEN Head(db_jobs) ELSE users[i]
         /\ Cardinality(DOMAIN users) \in Nat /\ Cardinality(DOMAIN users') \in Nat
         /\ Cardinality(DOMAIN users) <= Cardinality(DOMAIN users')
         /\ FreeId = Cardinality(DOMAIN users) + 1 /\ first' = first
         /\ first \in Nat \ {0} /\ serial \in Nat
<1>1. /\ DOMAIN users' = DOMAIN users \cup {userId'}
      /\ \A i \in DOMAIN users \cup {userId'} :
           users'[i] = IF i = userId' THEN Head(db_jobs) ELSE users[i]
  BY DEF RegisterUser
<1>2. IsFiniteSet(DOMAIN users)
  BY DEF TypeOK
<1>3. IsFiniteSet(DOMAIN users \cup {userId'})
  BY <1>2, FS_AddElement, Zenon
<1>4. DOMAIN users \subseteq DOMAIN users \cup {userId'}
  OBVIOUS
<1>5. /\ Cardinality(DOMAIN users) \in Nat
      /\ Cardinality(DOMAIN users \cup {userId'}) \in Nat
      /\ Cardinality(DOMAIN users) <= Cardinality(DOMAIN users \cup {userId'})
  BY <1>2, <1>3, <1>4, FS_Subset, FS_CardinalityType, Zenon
<1> QED BY <1>1, <1>5 DEF RegisterUser, FreeId, TypeOK

LEMMA RegisterContiguous == TypeOK /\ Contiguous /\ Apart /\ RegisterUser => Contiguous'
<1> SUFFICES ASSUME TypeOK, Contiguous, Apart, RegisterUser, Gapless' PROVE Contiguous'
  BY DEF Contiguous
<1>0. /\ DOMAIN users' = DOMAIN users \cup {userId'}
      /\ \A i \in DOMAIN users \cup {userId'} :
           users'[i] = IF i = userId' THEN Head(db_jobs) ELSE users[i]
      /\ FreeId = Cardinality(DOMAIN users) + 1 /\ first' = first
      /\ Cardinality(DOMAIN users) \in Nat
      /\ first \in Nat \ {0} /\ serial \in Nat
  BY RegisterUsers
<1>1. userId' # 0
  BY <1>0 DEF RegisterUser, Apart
<1>2. Gapless /\ first \in {1, 2} /\ Zero' = Zero
  BY <1>0, <1>1 DEF Gapless, Zero
<1>3. PICK n \in Nat :
        /\ n + 1 >= first
        /\ DOMAIN users = Zero \cup first .. n
        /\ serial \in first .. (n + 1)
        /\ \A p \in inserted : p[1] \in first .. n /\ p[1] < serial /\ users[p[1]] = p[2]
  BY <1>2 DEF Contiguous
<1>4. CASE userId' = serial /\ serial' = serial + 1
           /\ inserted' = inserted \cup {<<serial, Head(db_jobs)>>}
  <2> DEFINE m == IF serial = n + 1 THEN n + 1 ELSE n
  <2>1. m \in Nat /\ m + 1 >= first /\ serial' \in first .. (m + 1)
    BY <1>2, <1>3, <1>4
  <2>2. DOMAIN users' = Zero \cup first .. m
    BY <1>0, <1>2, <1>3, <1>4
  <2>3. ASSUME NEW p \in inserted'
        PROVE  p[1] \in first .. m /\ p[1] < serial' /\ users'[p[1]] = p[2]
    BY <1>0, <1>2, <1>3, <1>4
  <2> QED BY <1>0, <1>2, <2>1, <2>2, <2>3 DEF Contiguous
<1>5. CASE userId' = FreeId /\ serial' \in {serial, serial + 1} /\ inserted' = inserted
  <2>1. userId' = n + 1
    BY <1>0, <1>2, <1>3, <1>5, IdsCardinality
  <2>2. DOMAIN users' = Zero \cup first .. (n + 1)
    BY <1>0, <1>2, <1>3, <2>1
  <2>3. serial' \in first .. (n + 2)
    BY <1>2, <1>3, <1>5
  <2>4. ASSUME NEW p \in inserted'
        PROVE  p[1] \in first .. (n + 1) /\ p[1] < serial' /\ users'[p[1]] = p[2]
    <3>1. p \in inserted /\ p[1] \in DOMAIN users /\ p[1] # userId'
      BY <1>2, <1>3, <1>5, <2>1
    <3>2. users'[p[1]] = users[p[1]]
      BY <1>0, <3>1
    <3> QED BY <1>2, <1>3, <1>5, <3>1, <3>2
  <2> QED BY <1>0, <1>2, <1>3, <2>2, <2>3, <2>4 DEF Contiguous
<1> QED BY <1>4, <1>5 DEF RegisterUser

LEMMA RegisterApart == TypeOK /\ Apart /\ RegisterUser => Apart'
<1> SUFFICES ASSUME TypeOK, Apart, RegisterUser PROVE Apart'
  OBVIOUS
<1> DEFINE size == Cardinality(DOMAIN users)
           size2 == Cardinality(DOMAIN users')
<1>1. /\ DOMAIN users' = DOMAIN users \cup {userId'}
      /\ \A i \in DOMAIN users \cup {userId'} :
           users'[i] = IF i = userId' THEN Head(db_jobs) ELSE users[i]
      /\ size \in Nat /\ size2 \in Nat /\ size <= size2 /\ FreeId = size + 1
      /\ first' = first /\ first \in Nat \ {0} /\ serial \in Nat
  BY RegisterUsers
<1>2. Few <=> size + 1 < first
  BY DEF Few
<1>3. Few' <=> size2 + 1 < first'
  BY DEF Few
<1> HIDE DEF size, size2
<1>4. Few' => Few /\ FreeId < first
  BY <1>1, <1>2, <1>3
<1>5. \A p \in inserted : p[1] \in Nat
  BY DEF TypeOK
<1>6. /\ \A p \in inserted : p[1] \in DOMAIN users /\ p[1] >= first /\ p[1] < serial
      /\ Few => \A p \in inserted : users[p[1]] = p[2]
  BY DEF Apart
<1>7. CASE userId' = serial /\ serial' = serial + 1
           /\ inserted' = inserted \cup {<<serial, Head(db_jobs)>>}
  <2>1. ASSUME NEW p \in inserted'
        PROVE  /\ p[1] \in DOMAIN users' /\ p[1] >= first /\ p[1] < serial'
               /\ Few => users'[p[1]] = p[2]
    <3>1. CASE p \in inserted
      BY <1>1, <1>5, <1>6, <1>7, <3>1
    <3>2. CASE p = <<serial, Head(db_jobs)>>
      BY <1>1, <1>7, <3>2 DEF Apart
    <3> QED BY <1>7, <3>1, <3>2
  <2> QED BY <1>1, <1>4, <1>7, <2>1 DEF Apart
<1>8. CASE userId' = FreeId /\ serial' \in {serial, serial + 1} /\ inserted' = inserted
  <2>1. serial' >= first'
    BY <1>1, <1>8 DEF Apart
  <2>2. ASSUME NEW p \in inserted'
        PROVE  /\ p[1] \in DOMAIN users' /\ p[1] >= first' /\ p[1] < serial'
               /\ Few' => users'[p[1]] = p[2]
    BY <1>1, <1>4, <1>5, <1>6, <1>8
  <2> QED BY <2>1, <2>2 DEF Apart
<1> QED BY <1>7, <1>8 DEF RegisterUser

LEMMA NextIds == TypeOK /\ Contiguous /\ Apart /\ [Next]_vars => Contiguous' /\ Apart'
<1> SUFFICES ASSUME TypeOK, Contiguous, Apart, [Next]_vars PROVE Contiguous' /\ Apart'
  OBVIOUS
<1>1. CASE RegisterUser
  BY <1>1, RegisterContiguous, RegisterApart
<1>2. CASE ~RegisterUser
  <2>1. UNCHANGED <<users, serial, first, inserted>>
    BY <1>2 DEF Next, Handler, Job, do_job, Accept, start, DataArrives, ReadFails, stop,
                ReadRegister, PushRegisterJob, ReadOther, WriteDone, Signal, stop_all,
                Callback, PopJob, vars, dbVars
  <2> QED BY <2>1 DEF Contiguous, Apart, Gapless, Few, Zero
<1> QED BY <1>1, <1>2

-----------------------------------------------------------------------------
(* The state of Registration has its types, for any number of connections   *)
(* and rows at the start.                                                   *)
THEOREM TypeCorrect == Spec => []TypeOK
<1>1. IInv => TypeOK
  BY DEF IInv
<1> QED BY <1>1, InitIInv, NextIInv, PTL DEF Spec

(* Whatever the interleaving of the two threads, a request to register      *)
(* makes one account and its connection is written to once.                 *)
THEOREM RepliedOnce == Spec => []OneReply
<1>1. IInv => OneReply
  BY DEF IInv, TypeOK, Unwritten, Registered, OneReply
<1> QED BY <1>1, InitIInv, NextIInv, PTL DEF Spec

(* Whatever ids the table has given out before the start, a player in the   *)
(* table keeps his account in memory while the ids of the accounts that     *)
(* were refused cannot reach his.                                           *)
THEOREM InsertedStays == Spec => []InsertedKept
<1>1. Contiguous /\ Apart => InsertedKept
  BY DEF Contiguous, Apart, InsertedKept
<1> QED BY <1>1, TypeCorrect, InitIds, NextIds, PTL DEF Spec
=============================================================================
