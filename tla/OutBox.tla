------------------------------- MODULE OutBox -------------------------------
(***************************************************************************)
(* Reliable delivery over UDP for one UserPort: the out_box of retransmis- *)
(* sion jobs, the server-wide FIFO udp_resend_msg_jobs, the threads that   *)
(* send (io, and db through its jobs), the ACK handler on the io thread,   *)
(* and the run thread, whose update() drains the FIFO and resends.         *)
(*                                                                         *)
(* Every message is sent once through                                      *)
(* udp_send_and_push_out_box_to_handle_ACK, so a message also stands for   *)
(* its msg_id and for the BaseJob id that MsgSendHandler::init takes from  *)
(* id_sequence.  Times are kept relative to now, in units of which Delay   *)
(* make the 200 ms of the code: Tick brings every deadline nearer by one.  *)
(* A step is one statement or one critical section, because the out_box    *)
(* itself is read and written by three threads under no lock.              *)
(*                                                                         *)
(* udp_send is an async_send_to of a buffer that is not copied: the data   *)
(* leaves during the call, or, while the socket is not ready, later from   *)
(* the io thread, which then reads the message.                            *)
(***************************************************************************)
EXTENDS Integers, Sequences, FiniteSets

CONSTANTS
  Senders,      (* threads that call udp_send_and_push_out_box...          *)
  Io,           (* the sender that also handles incoming ACKs              *)
  Msgs,         (* the messages, each sent once                            *)
  NoMsg,        (* nullptr, and the msg_id of a slot never used            *)
  OutBoxSize,   (* UserPort::out_box_size, 16 in the code                  *)
  MaxTry,       (* max_try_counter, 4 in the code                          *)
  Delay,        (* the retransmission delay in ticks                       *)
  MaxWaiting    (* sends that wait for the socket at once                  *)

ASSUME OutBoxAssumption ==
  /\ Io \in Senders
  /\ NoMsg \notin Msgs
  /\ OutBoxSize \in Nat \ {0}
  /\ MaxTry \in Nat \ {0}
  /\ Delay \in Nat \ {0}
  /\ MaxWaiting \in Nat

Slots == 0 .. OutBoxSize - 1

VARIABLES
  id,           (* out_box[s].id, BaseJob's: the message it was taken for   *)
  msg,          (* out_box[s].msg: the pointer do_job sends                 *)
  msg_id,       (* out_box[s].msg_id                                        *)
  is_canceled,  (* out_box[s].is_canceled                                   *)
  wait,         (* out_box[s].time, relative to now                         *)
  try_counter,  (* out_box[s].try_counter                                   *)
  head,         (* head_of_out_box                                          *)
  queue,        (* udp_resend_msg_jobs: BaseJobPtr entries, oldest first    *)
  batch,        (* local_array of the running update(): slots, oldest first *)
  pc,           (* where each sender is in its call                         *)
  msgOf,        (* the message each sender is sending                       *)
  slotOf,       (* the slot get_reserved gave it                            *)
  runPc,        (* where the run thread is in update() and do_job()         *)
  unsent,       (* messages no sender has taken yet                         *)
  sent,         (* how often each message was given to udp_send             *)
  socket,       (* sends that wait for the socket, oldest first             *)
  freed,        (* messages deleted                                         *)
  acked,        (* messages whose ACK found and cancelled their slot        *)
  raced,        (* those acked while a thread was filling the slot (history)*)
  silenced,     (* those acked before the current drain began (history)     *)
  reused,       (* slots initialised more than once (history)               *)
  process       (* "up", "crashed" by dereferencing a null message, or      *)
                (*   "killed" by reading a deleted one                      *)

jobVars  == <<id, msg, msg_id, is_canceled, wait, try_counter>>
boxVars  == <<jobVars, head, reused>>
sendVars == <<pc, msgOf, slotOf, unsent>>
runVars  == <<batch, runPc, silenced>>
ackVars  == <<acked, raced>>
vars     == <<boxVars, queue, runVars, sendVars, sent, socket, freed, ackVars, process>>

-----------------------------------------------------------------------------
(* BaseJobPtr: the job, its id and its time when it was pushed.             *)
Entry == [slot: Slots, id: Msgs \cup {NoMsg}, wait: 0 .. Delay]

BaseJobPtr(s) == [slot |-> s, id |-> id[s], wait |-> wait[s]]

is_changed(e) == e.id # id[e.slot]

Nearer(n) == IF n = 0 THEN 0 ELSE n - 1

Init ==
  /\ id = [s \in Slots |-> NoMsg]
  /\ msg = [s \in Slots |-> NoMsg]
  /\ msg_id = [s \in Slots |-> NoMsg]
  /\ is_canceled = [s \in Slots |-> FALSE]
  /\ wait = [s \in Slots |-> 0]
  /\ try_counter = [s \in Slots |-> 0]
  /\ head = 0
  /\ queue = <<>>
  /\ batch = <<>>
  /\ pc = [t \in Senders |-> "idle"]
  /\ msgOf = [t \in Senders |-> NoMsg]
  /\ slotOf = [t \in Senders |-> 0]
  /\ runPc = "idle"
  /\ unsent = Msgs
  /\ sent = [m \in Msgs |-> 0]
  /\ socket = <<>>
  /\ freed = {}
  /\ acked = {}
  /\ raced = {}
  /\ silenced = {}
  /\ reused = {}
  /\ process = "up"

-----------------------------------------------------------------------------
(* async_send_to of m: at once, or behind those that wait.                  *)
udp_send(m) ==
  /\ sent' = [sent EXCEPT ![m] = @ + 1]
  /\ \/ socket = <<>> /\ UNCHANGED socket
     \/ Len(socket) < MaxWaiting /\ socket' = Append(socket, m)

(* The io thread sends the oldest that waits.  Memory that was freed may    *)
(* still be read, or not.                                                   *)
LeaveSocket ==
  /\ pc[Io] = "idle"
  /\ socket # <<>>
  /\ socket' = Tail(socket)
  /\ process' \in IF Head(socket) \in freed THEN {process, "killed"} ELSE {process}
  /\ UNCHANGED <<boxVars, queue, runVars, sendVars, sent, freed, ackVars>>

HasLeft(m) == sent[m] > Cardinality({i \in DOMAIN socket : socket[i] = m})

-----------------------------------------------------------------------------
(* The sending threads: udp_send_and_push_out_box_to_handle_ACK.            *)

Goto(t, label) == pc' = [pc EXCEPT ![t] = label]

(* udp_send of the first copy.                                              *)
SendFirst(t) ==
  /\ pc[t] = "idle"
  /\ \E m \in unsent :
       /\ msgOf' = [msgOf EXCEPT ![t] = m]
       /\ unsent' = unsent \ {m}
       /\ udp_send(m)
  /\ Goto(t, "reserve")
  /\ UNCHANGED <<boxVars, queue, runVars, slotOf, freed, ackVars, process>>

Canceled == {s \in Slots : is_canceled[s]}

(* Seeded fault: cancelled slots are not looked for.                        *)
ReservedFault(t) ==
  /\ head' = (IF head = OutBoxSize - 1 THEN 0 ELSE head + 1)
  /\ slotOf' = [slotOf EXCEPT ![t] = head']

(* get_reserved: the first cancelled slot, else the slot after the head,    *)
(* whatever it holds.                                                       *)
get_reserved(t) ==
  \/ \E s \in Canceled :
       /\ \A r \in Canceled : s <= r
       /\ slotOf' = [slotOf EXCEPT ![t] = s]
       /\ UNCHANGED head
  \/ /\ Canceled = {}
     /\ head' = (IF head = OutBoxSize - 1 THEN 0 ELSE head + 1)
     /\ slotOf' = [slotOf EXCEPT ![t] = head']

Reserve(t) ==
  /\ pc[t] = "reserve"
  /\ get_reserved(t)
  /\ Goto(t, "init")
  /\ UNCHANGED <<jobVars, reused, queue, runVars, msgOf, unsent, sent, socket, freed, ackVars, process>>

(* MsgSendHandler::init, a store at a time.  BaseJob::init takes a new id.  *)
InitId(t) ==
  /\ pc[t] = "init"
  /\ id' = [id EXCEPT ![slotOf[t]] = msgOf[t]]
  /\ reused' = IF id[slotOf[t]] = NoMsg THEN reused ELSE reused \cup {slotOf[t]}
  /\ Goto(t, "message")
  /\ UNCHANGED <<msg, msg_id, is_canceled, wait, try_counter, head, queue, runVars, msgOf, slotOf, unsent, sent, socket, freed, ackVars, process>>

InitMessage(t) ==
  /\ pc[t] = "message"
  /\ msg' = [msg EXCEPT ![slotOf[t]] = msgOf[t]]
  /\ Goto(t, "msg_id")
  /\ UNCHANGED <<id, msg_id, is_canceled, wait, try_counter, head, reused, queue, runVars, msgOf, slotOf, unsent, sent, socket, freed, ackVars, process>>

InitMsgId(t) ==
  /\ pc[t] = "msg_id"
  /\ msg_id' = [msg_id EXCEPT ![slotOf[t]] = msgOf[t]]
  /\ Goto(t, "uncancel")
  /\ UNCHANGED <<id, msg, is_canceled, wait, try_counter, head, reused, queue, runVars, msgOf, slotOf, unsent, sent, socket, freed, ackVars, process>>

(* An ACK since the last store is overwritten here.                         *)
InitCanceled(t) ==
  /\ pc[t] = "uncancel"
  /\ is_canceled' = [is_canceled EXCEPT ![slotOf[t]] = FALSE]
  /\ Goto(t, "arm")
  /\ UNCHANGED <<id, msg, msg_id, wait, try_counter, head, reused, queue, runVars, msgOf, slotOf, unsent, sent, socket, freed, ackVars, process>>

(* t->time=total_time+200; t->try_counter=1; t->max_try_counter=...         *)
Arm(t) ==
  /\ pc[t] = "arm"
  /\ wait' = [wait EXCEPT ![slotOf[t]] = Delay]
  /\ try_counter' = [try_counter EXCEPT ![slotOf[t]] = 1]
  /\ Goto(t, "push")
  /\ UNCHANGED <<id, msg, msg_id, is_canceled, head, reused, queue, runVars, msgOf, slotOf, unsent, sent, socket, freed, ackVars, process>>

(* push_send_lost_packet_job waits for sender_jobsMutex, which update holds *)
(* while it drains; the BaseJobPtr is built under the lock.                 *)
Push(t) ==
  /\ pc[t] = "push"
  /\ runPc # "drain"
  /\ queue' = Append(queue, BaseJobPtr(slotOf[t]))
  /\ msgOf' = [msgOf EXCEPT ![t] = NoMsg]
  /\ Goto(t, "idle")
  /\ UNCHANGED <<boxVars, runVars, slotOf, unsent, sent, socket, freed, ackVars, process>>

(* A thread has stored its message in the slot and is to clear is_canceled. *)
BeingFilled(s) == \E t \in Senders : slotOf[t] = s /\ pc[t] \in {"msg_id", "uncancel"}

(* remove_from_out_box: an ACK of a message on the wire reaches the io      *)
(* thread, between two messages of its own, once, often or never.           *)
AckReceived(m) ==
  /\ pc[Io] = "idle"
  /\ HasLeft(m)
  /\ is_canceled' = [s \in Slots |-> msg_id[s] = m \/ is_canceled[s]]
  /\ acked' = IF \E s \in Slots : msg_id[s] = m THEN acked \cup {m} ELSE acked
  /\ raced' = IF \E s \in Slots : msg_id[s] = m /\ BeingFilled(s) THEN raced \cup {m} ELSE raced
  /\ UNCHANGED <<id, msg, msg_id, wait, try_counter, head, reused, queue, runVars, sendVars, sent, socket, freed, process>>

-----------------------------------------------------------------------------
(* The run thread: BaseServer::update and MsgSendHandler::do_job.           *)

(* now_time is read and sender_jobsMutex taken.                             *)
StartDrain ==
  /\ runPc = "idle"
  /\ queue # <<>>
  /\ runPc' = "drain"
  /\ silenced' = acked
  /\ UNCHANGED <<boxVars, queue, batch, sendVars, sent, socket, freed, ackVars, process>>

OldestIsDue == queue # <<>> /\ Head(queue).wait = 0

(* Seeded fault: a cancelled job is collected like any other.               *)
DrainDueFault ==
  /\ runPc = "drain"
  /\ OldestIsDue
  /\ batch' = IF is_changed(Head(queue)) THEN batch ELSE Append(batch, Head(queue).slot)
  /\ queue' = Tail(queue)
  /\ UNCHANGED <<boxVars, runPc, silenced, sendVars, sent, socket, freed, ackVars, process>>

(* Seeded fault: only the entries that are collected are popped.            *)
DrainDueStuck ==
  /\ runPc = "drain"
  /\ OldestIsDue
  /\ ~is_canceled[Head(queue).slot] /\ ~is_changed(Head(queue))
  /\ batch' = Append(batch, Head(queue).slot)
  /\ queue' = Tail(queue)
  /\ UNCHANGED <<boxVars, runPc, silenced, sendVars, sent, socket, freed, ackVars, process>>

(* One turn of the loop: the oldest entry is due, and joins local_array if  *)
(* its job is neither cancelled nor reused.                                 *)
DrainDue ==
  /\ runPc = "drain"
  /\ OldestIsDue
  /\ batch' = IF is_canceled[Head(queue).slot] \/ is_changed(Head(queue))
              THEN batch ELSE Append(batch, Head(queue).slot)
  /\ queue' = Tail(queue)
  /\ UNCHANGED <<boxVars, runPc, silenced, sendVars, sent, socket, freed, ackVars, process>>

(* The FIFO is empty or its oldest entry is not due: the mutex is released. *)
EndDrain ==
  /\ runPc = "drain"
  /\ ~OldestIsDue
  /\ runPc' = "batch"
  /\ UNCHANGED <<boxVars, queue, batch, silenced, sendVars, sent, socket, freed, ackVars, process>>

(* do_job of the oldest collected job sends whatever message the slot holds *)
(* now; udp_send reads the message first (data_->id).                       *)
DoJobSend ==
  /\ runPc = "batch"
  /\ batch # <<>>
  /\ LET m == msg[Head(batch)]
     IN  IF m = NoMsg
         THEN process' = "crashed" /\ UNCHANGED <<sent, socket, runPc>>
         ELSE /\ udp_send(m)
              /\ runPc' = "sent"
              /\ UNCHANGED process
  /\ UNCHANGED <<boxVars, queue, batch, silenced, sendVars, freed, ackVars>>

(* Seeded fault: one try too many.                                          *)
DoJobRetryFault ==
  /\ runPc = "sent"
  /\ try_counter[Head(batch)] <= MaxTry
  /\ try_counter' = [try_counter EXCEPT ![Head(batch)] = @ + 1]
  /\ wait' = [wait EXCEPT ![Head(batch)] = Delay]
  /\ runPc' = "push"
  /\ UNCHANGED <<id, msg, msg_id, is_canceled, head, reused, queue, batch, silenced, sendVars, sent, socket, freed, ackVars, process>>

(* Tries are left: count one and set the next deadline.                     *)
DoJobRetry ==
  /\ runPc = "sent"
  /\ try_counter[Head(batch)] < MaxTry
  /\ try_counter' = [try_counter EXCEPT ![Head(batch)] = @ + 1]
  /\ wait' = [wait EXCEPT ![Head(batch)] = Delay]
  /\ runPc' = "push"
  /\ UNCHANGED <<id, msg, msg_id, is_canceled, head, reused, queue, batch, silenced, sendVars, sent, socket, freed, ackVars, process>>

(* Seeded fault: the job is armed again but not pushed.                     *)
DoJobPushFault ==
  /\ runPc = "push"
  /\ batch' = Tail(batch)
  /\ runPc' = "batch"
  /\ UNCHANGED <<boxVars, queue, silenced, sendVars, sent, socket, freed, ackVars, process>>

DoJobPush ==
  /\ runPc = "push"
  /\ queue' = Append(queue, BaseJobPtr(Head(batch)))
  /\ batch' = Tail(batch)
  /\ runPc' = "batch"
  /\ UNCHANGED <<boxVars, silenced, sendVars, sent, socket, freed, ackVars, process>>

(* The last try is spent: delete this->msg, then this->msg=nullptr.         *)
DoJobDelete ==
  /\ runPc = "sent"
  /\ try_counter[Head(batch)] >= MaxTry
  /\ freed' = freed \cup ({msg[Head(batch)]} \ {NoMsg})
  /\ runPc' = "clear"
  /\ UNCHANGED <<boxVars, queue, batch, silenced, sendVars, sent, socket, ackVars, process>>

(* Seeded fault: the pointer to the deleted message stays in the slot.      *)
DoJobClearFault ==
  /\ runPc = "clear"
  /\ batch' = Tail(batch)
  /\ runPc' = "batch"
  /\ UNCHANGED <<boxVars, queue, silenced, sendVars, sent, socket, freed, ackVars, process>>

DoJobClear ==
  /\ runPc = "clear"
  /\ msg' = [msg EXCEPT ![Head(batch)] = NoMsg]
  /\ batch' = Tail(batch)
  /\ runPc' = "batch"
  /\ UNCHANGED <<id, msg_id, is_canceled, wait, try_counter, head, reused, queue, silenced, sendVars, sent, socket, freed, ackVars, process>>

(* local_array is empty: update() returns and run() sleeps 10 ms.           *)
EndUpdate ==
  /\ runPc = "batch"
  /\ batch = <<>>
  /\ runPc' = "idle"
  /\ UNCHANGED <<boxVars, queue, batch, silenced, sendVars, sent, socket, freed, ackVars, process>>

(* Time passes; update compares with the now_time it read before draining.  *)
Tick ==
  /\ runPc # "drain"
  /\ queue' = [i \in 1 .. Len(queue) |-> [queue[i] EXCEPT !.wait = Nearer(@)]]
  /\ wait' = [s \in Slots |-> Nearer(wait[s])]
  /\ UNCHANGED <<id, msg, msg_id, is_canceled, try_counter, head, reused, runVars, sendVars, sent, socket, freed, ackVars, process>>

-----------------------------------------------------------------------------
Send(t) ==
  \/ SendFirst(t) \/ Reserve(t)
  \/ InitId(t) \/ InitMessage(t) \/ InitMsgId(t) \/ InitCanceled(t)
  \/ Arm(t) \/ Push(t)

Update == \/ StartDrain \/ DrainDue \/ EndDrain \/ DoJobSend \/ DoJobRetry
          \/ DoJobPush \/ DoJobDelete \/ DoJobClear \/ EndUpdate

Next ==
  /\ process = "up"
  /\ \/ \E t \in Senders : Send(t)
     \/ \E m \in Msgs : AckReceived(m)
     \/ LeaveSocket
     \/ Update
     \/ Tick

(* Every thread keeps running, the socket gets ready and time passes; ACKs  *)
(* are owed by nobody.                                                      *)
Fairness ==
  /\ \A t \in Senders : WF_vars(process = "up" /\ Send(t))
  /\ WF_vars(process = "up" /\ Update)
  /\ SF_vars(process = "up" /\ LeaveSocket)
  /\ SF_vars(process = "up" /\ Tick)

Spec == Init /\ [][Next]_vars
FairSpec == Spec /\ Fairness

-----------------------------------------------------------------------------
TypeOK ==
  /\ id \in [Slots -> Msgs \cup {NoMsg}]
  /\ msg \in [Slots -> Msgs \cup {NoMsg}]
  /\ msg_id \in [Slots -> Msgs \cup {NoMsg}]
  /\ is_canceled \in [Slots -> BOOLEAN]
  /\ wait \in [Slots -> 0 .. Delay]
  /\ try_counter \in [Slots -> Nat]
  /\ head \in Slots
  /\ queue \in Seq(Entry)
  /\ batch \in Seq(Slots)
  /\ pc \in [Senders -> {"idle", "reserve", "init", "message", "msg_id", "uncancel", "arm", "push"}]
  /\ msgOf \in [Senders -> Msgs \cup {NoMsg}]
  /\ slotOf \in [Senders -> Slots]
  /\ runPc \in {"idle", "drain", "batch", "sent", "push", "clear"}
  /\ runPc \in {"sent", "push", "clear"} => batch # <<>>
  /\ unsent \subseteq Msgs
  /\ sent \in [Msgs -> Nat]
  /\ socket \in Seq(Msgs)
  /\ freed \subseteq Msgs
  /\ acked \subseteq Msgs
  /\ raced \subseteq acked
  /\ silenced \subseteq acked
  /\ reused \subseteq Slots
  /\ process \in {"up", "crashed", "killed"}

(***************************************************************************)
(* Safety                                                                  *)
(***************************************************************************)

(* do_job never sends a null message.  The check "else if(this->msg!=      *)
(* nullptr)" in do_job allows for a null message there, after udp_send has *)
(* already read data_->id.  A slot that is cancelled and reused while its  *)
(* old entry sits in local_array ends up with two entries, and the second  *)
(* one finds the message that the first one deleted.                       *)
NoNullSend == process # "crashed"

(* The last try sends the message and deletes it ("crash kard dar yek      *)
(* halate khas", it crashed in a special case, "va be shedat rayej hast",  *)
(* and that is very common, says the code where it does): what do_job      *)
(* deleted is not read again, not by a send that was still waiting either. *)
NoUseAfterFree == [][LeaveSocket => Head(socket) \notin freed]_vars

(* A message that do_job has deleted is never given to udp_send again,     *)
(* although its slot, stale entries and the sending threads live on.       *)
DeletedIsNotSent == [][\A m \in freed : sent'[m] = sent[m]]_vars

(* While a slot has held a single message, that message goes on the wire   *)
(* at most MaxTry + 1 times: once by the caller and MaxTry times by        *)
(* do_job.  Only the reuse of a slot can exceed the bound.                 *)
RetryBound ==
  \A s \in Slots \ reused :
    id[s] # NoMsg => sent[id[s]] <= MaxTry + 1

(* "ack not recive and im send msg again" (do_job): a message whose ACK    *)
(* found its slot before a drain of the FIFO began is not resent by that   *)
(* update() or any later one.  Excepted is an ACK that comes while a       *)
(* thread fills in the slot, for is_canceled=false may overwrite it.  One  *)
(* that comes after the job was collected may be too late for one copy.    *)
NoResendAfterAck == [][\A m \in silenced \ raced : sent'[m] = sent[m]]_vars

Pending(s) == msg[s] # NoMsg /\ ~is_canceled[s]

(* A message still waiting for its ACK loses its slot only when no slot of *)
(* the out_box was free.  It holds while one thread both sends and handles *)
(* ACKs; two senders may pick the same free slot.                          *)
LossOnlyWhenFull ==
  [][\A s \in Slots : Pending(s) /\ id'[s] # id[s] => Canceled = {}]_vars

(***************************************************************************)
(* Liveness                                                                *)
(***************************************************************************)

InBox(m) == \E s \in Slots : msg[s] = m

(* Every message in the out_box is acknowledged, given up, or evicted by a *)
(* later one, unless the process dies: no resend chain is ever broken.     *)
EveryMessageSettles == \A m \in Msgs : InBox(m) ~> (m \in acked \/ ~InBox(m) \/ process # "up")

(* When nothing more is sent, the resend FIFO empties and stays empty.     *)
QueueDrains == <>[](queue = <<>> \/ process # "up")
=============================================================================
