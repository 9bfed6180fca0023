---------------------------- MODULE OutBoxProofs ----------------------------
(***************************************************************************)
(* Proofs about OutBox, for every number of slots, tries, senders and      *)
(* messages: type correctness, DeletedIsNotSent, RetryBound and            *)
(* NoResendAfterAck, and LossOnlyWhenFull for the io thread alone.         *)
(*                                                                         *)
(* IInv strengthens them.  A message is in one place only: unsent, carried *)
(* by one sender that has not initialised a slot with it yet, or the id of *)
(* one slot (OnePlace, FreedIsGone).  A slot that has held one message is  *)
(* referred to by at most one entry of the FIFO and the batch together     *)
(* (OneRef), and while it is, its tries cover its sends (TriesCover).      *)
(* NoResendAfterAck needs that messages are in one place, that a slot with *)
(* an acknowledged one is cancelled and not being filled in (AckedIsOff),  *)
(* and that an ACK cancels the slot with the message (NumberPlace).        *)
(***************************************************************************)
EXTENDS OutBox, TLAPS

Labels == {"idle", "reserve", "init", "message", "msg_id", "uncancel", "arm", "push"}
Carried(t) == pc[t] \in {"reserve", "init", "message"}
Initialising(t, s) == pc[t] \in {"message", "msg_id", "uncancel", "arm", "push"} /\ slotOf[t] = s

InQueue(s) == \E i \in 1 .. Len(queue) : queue[i].slot = s
InBatch(s) == \E i \in 1 .. Len(batch) : batch[i] = s
Ref(s) == InQueue(s) \/ InBatch(s)

Current(s) == batch # <<>> /\ Head(batch) = s

OnePlace ==
  /\ \A m \in unsent : sent[m] = 0 /\ m \notin freed
  /\ \A t \in Senders : Carried(t) =>
       /\ msgOf[t] \in Msgs \ (unsent \cup freed)
       /\ sent[msgOf[t]] = 1
       /\ \A s \in Slots : msg[s] # msgOf[t]
       /\ \A s \in Slots : id[s] = msgOf[t] => pc[t] = "message" /\ slotOf[t] = s
       /\ pc[t] = "message" => slotOf[t] \in reused \/ id[slotOf[t]] = msgOf[t]
       /\ \A u \in Senders : Carried(u) /\ msgOf[u] = msgOf[t] => u = t
  /\ \A s \in Slots :
       /\ id[s] \notin unsent /\ msg[s] \notin unsent
       /\ s \in reused \/ msg[s] \in {NoMsg, id[s]}
       /\ \A r \in Slots : msg[r] = msg[s] => r = s \/ msg[s] = NoMsg
       /\ \A r \in Slots : id[r] = id[s] => r = s \/ id[s] = NoMsg
       /\ \A r \in Slots : msg[r] = id[s] => r = s \/ id[s] = NoMsg

FreedIsGone ==
  \A s \in Slots : msg[s] \in freed => runPc = "clear" /\ Current(s)

OneRef ==
  /\ \A s \in Slots : id[s] = NoMsg =>
       ~Ref(s) /\ \A t \in Senders : ~Initialising(t, s)
  /\ \A s \in Slots \ reused :
       /\ \A i, j \in 1 .. Len(queue) : queue[i].slot = s /\ queue[j].slot = s => i = j
       /\ \A i, j \in 1 .. Len(batch) : batch[i] = s /\ batch[j] = s => i = j
       /\ ~(InQueue(s) /\ InBatch(s))
       /\ \A t \in Senders : Initialising(t, s) => ~Ref(s)
       /\ \A t, u \in Senders : Initialising(t, s) /\ Initialising(u, s) => t = u

TriesCover ==
  \A s \in Slots \ reused : id[s] # NoMsg =>
    /\ sent[id[s]] <= MaxTry + 1
    /\ \A t \in Senders : Initialising(t, s) =>
         sent[id[s]] = 1 /\ (pc[t] = "push" => try_counter[s] = 1)
    /\ Ref(s) =>
         /\ try_counter[s] <= MaxTry
         /\ (runPc = "sent" /\ Current(s)) => sent[id[s]] <= try_counter[s] + 1
         /\ ~(runPc \in {"sent", "clear"} /\ Current(s)) => sent[id[s]] <= try_counter[s]

IInv == TypeOK /\ OnePlace /\ FreedIsGone /\ OneRef /\ TriesCover

-----------------------------------------------------------------------------
USE OutBoxAssumption DEF OutBoxAssumption

LEMMA InitTypeOK == Init => TypeOK
  BY DEF Init, TypeOK, Slots

(* The entries that Push, DoJobPush and Tick make, and the head of a FIFO.  *)
LEMMA PtrType == TypeOK => \A s \in Slots : BaseJobPtr(s) \in Entry
  BY DEF TypeOK, Entry, BaseJobPtr

LEMMA NearerRange == \A n \in 0 .. Delay : Nearer(n) \in 0 .. Delay
  BY DEF Nearer

LEMMA NearerType == \A e \in Entry : [e EXCEPT !.wait = Nearer(@)] \in Entry
  BY NearerRange DEF Entry

LEMMA HeadType ==
  ASSUME TypeOK
  PROVE  /\ queue # <<>> => Head(queue) \in Entry /\ Head(queue).slot \in Slots
         /\ queue # <<>> => Tail(queue) \in Seq(Entry)
         /\ batch # <<>> => Head(batch) \in Slots /\ Tail(batch) \in Seq(Slots)
<1>1. queue # <<>> => Head(queue) \in Entry /\ Tail(queue) \in Seq(Entry)
  BY DEF TypeOK
<1>2. \A e \in Entry : e.slot \in Slots
  BY DEF Entry
<1>3. batch # <<>> => Head(batch) \in Slots /\ Tail(batch) \in Seq(Slots)
  BY DEF TypeOK
<1> QED BY <1>1, <1>2, <1>3

LEMMA ExceptType ==
  ASSUME NEW S, NEW T, NEW f \in [S -> T], NEW x \in S, NEW v \in T
  PROVE  [f EXCEPT ![x] = v] \in [S -> T]
  OBVIOUS

(* udp_send of a message keeps the socket a sequence of messages.           *)
LEMMA SocketType ==
  ASSUME TypeOK, NEW m \in Msgs, udp_send(m)
  PROVE  socket' \in Seq(Msgs)
<1>1. socket \in Seq(Msgs) /\ (socket' = socket \/ socket' = Append(socket, m))
  BY DEF TypeOK, udp_send
<1> QED BY <1>1

LEMMA NextTypeOK == TypeOK /\ [Next]_vars => TypeOK'
<1> SUFFICES ASSUME TypeOK, [Next]_vars PROVE TypeOK'
  OBVIOUS
<1> USE DEF TypeOK, jobVars, boxVars, sendVars, runVars, ackVars
<1>1. ASSUME NEW t \in Senders, SendFirst(t) PROVE TypeOK'
  <2>1. PICK m \in unsent : sent' = [sent EXCEPT ![m] = @ + 1]
                            /\ msgOf' = [msgOf EXCEPT ![t] = m]
                            /\ unsent' = unsent \ {m}
    BY <1>1 DEF SendFirst, udp_send
  <2>2. sent' \in [Msgs -> Nat] /\ unsent' \subseteq Msgs
        /\ msgOf' \in [Senders -> Msgs \cup {NoMsg}]
    BY <2>1
  <2>3. socket' \in Seq(Msgs)
    BY <1>1, SocketType DEF SendFirst
  <2> QED BY <1>1, <2>2, <2>3 DEF SendFirst, Goto
<1>2. ASSUME NEW t \in Senders, Reserve(t) PROVE TypeOK'
  <2>1. head' \in Slots
    <3>1. head' = head \/ head' = (IF head = OutBoxSize - 1 THEN 0 ELSE head + 1)
      BY <1>2 DEF Reserve, get_reserved
    <3>2. head \in 0 .. OutBoxSize - 1
      BY DEF Slots
    <3> HIDE DEF TypeOK
    <3> QED BY <3>1, <3>2 DEF Slots
  <2>2. \E s \in Slots : slotOf' = [slotOf EXCEPT ![t] = s]
    BY <1>2, <2>1 DEF Reserve, get_reserved, Canceled
  <2>3. slotOf' \in [Senders -> Slots]
    BY <2>2
  <2>4. pc' \in [Senders -> Labels]
    BY <1>2 DEF Reserve, Goto, Labels
  <2> QED BY <1>2, <2>1, <2>3, <2>4 DEF Reserve, Labels
<1>3. ASSUME NEW t \in Senders, InitId(t) PROVE TypeOK'
  BY <1>3 DEF InitId, Goto
<1>18. ASSUME NEW t \in Senders, InitMessage(t) PROVE TypeOK'
  BY <1>18 DEF InitMessage, Goto
<1>19. ASSUME NEW t \in Senders, InitMsgId(t) PROVE TypeOK'
  BY <1>19 DEF InitMsgId, Goto
<1>20. ASSUME NEW t \in Senders, InitCanceled(t) PROVE TypeOK'
  BY <1>20 DEF InitCanceled, Goto
<1>21. CASE LeaveSocket
  <2>1. socket' \in Seq(Msgs)
    BY <1>21 DEF LeaveSocket
  <2> QED BY <1>21, <2>1 DEF LeaveSocket
<1>4. ASSUME NEW t \in Senders, Arm(t) PROVE TypeOK'
  BY <1>4 DEF Arm, Goto
<1>5. ASSUME NEW t \in Senders, Push(t) PROVE TypeOK'
  <2>1. queue' \in Seq(Entry)
    BY <1>5, PtrType DEF Push
  <2> QED BY <1>5, <2>1 DEF Push, Goto
<1>6. ASSUME NEW m \in Msgs, AckReceived(m) PROVE TypeOK'
  BY <1>6 DEF AckReceived, ackVars
<1>7. CASE StartDrain
  BY <1>7 DEF StartDrain
<1>8. CASE DrainDue
  <2>1. queue # <<>>
    BY <1>8 DEF DrainDue, OldestIsDue
  <2>2. queue' \in Seq(Entry) /\ batch' \in Seq(Slots)
    <3>1. /\ queue' = Tail(queue)
          /\ batch' = batch \/ batch' = Append(batch, Head(queue).slot)
      BY <1>8 DEF DrainDue
    <3>2. Head(queue).slot \in Slots /\ Tail(queue) \in Seq(Entry) /\ batch \in Seq(Slots)
      BY <2>1, HeadType
    <3> HIDE DEF TypeOK
    <3>3. Append(batch, Head(queue).slot) \in Seq(Slots)
      BY <3>2
    <3> QED BY <3>1, <3>2, <3>3
  <2> QED BY <1>8, <2>2 DEF DrainDue
<1>9. CASE EndDrain
  BY <1>9 DEF EndDrain
<1>10. CASE DoJobSend
  <2>1. sent' \in [Msgs -> Nat]
    <3> DEFINE m == msg[Head(batch)]
    <3>1. sent' = sent \/ (m # NoMsg /\ sent' = [sent EXCEPT ![m] = sent[m] + 1])
      BY <1>10 DEF DoJobSend, udp_send
    <3>2. Head(batch) \in Slots
      BY <1>10, HeadType DEF DoJobSend
    <3>3. m \in Msgs \cup {NoMsg} /\ sent \in [Msgs -> Nat]
      BY <3>2
    <3>4. m # NoMsg => sent[m] + 1 \in Nat
      BY <3>3
    <3> HIDE DEF TypeOK, m
    <3> QED BY <3>1, <3>3, <3>4, ExceptType
  <2>2. socket' \in Seq(Msgs)
    <3>1. CASE msg[Head(batch)] = NoMsg
      BY <1>10, <3>1 DEF DoJobSend
    <3>2. CASE msg[Head(batch)] # NoMsg
      <4>1. msg[Head(batch)] \in Msgs /\ udp_send(msg[Head(batch)])
        BY <1>10, <3>2, HeadType DEF DoJobSend
      <4> QED BY <4>1, SocketType
    <3> QED BY <3>1, <3>2
  <2> QED BY <1>10, <2>1, <2>2 DEF DoJobSend
<1>11. CASE DoJobRetry
  <2>1. Head(batch) \in Slots
    BY <1>11, HeadType DEF DoJobRetry
  <2>2. try_counter' \in [Slots -> Nat]
    <3>1. try_counter' = [try_counter EXCEPT ![Head(batch)] = try_counter[Head(batch)] + 1]
      BY <1>11 DEF DoJobRetry
    <3>2. try_counter \in [Slots -> Nat] /\ try_counter[Head(batch)] + 1 \in Nat
      BY <2>1
    <3> HIDE DEF TypeOK
    <3> QED BY <2>1, <3>1, <3>2, ExceptType
  <2>3. wait' \in [Slots -> 0 .. Delay]
    <3>1. wait' = [wait EXCEPT ![Head(batch)] = Delay]
      BY <1>11 DEF DoJobRetry
    <3>2. wait \in [Slots -> 0 .. Delay] /\ Delay \in 0 .. Delay
      OBVIOUS
    <3> HIDE DEF TypeOK
    <3> QED BY <2>1, <3>1, <3>2, ExceptType
  <2> QED BY <1>11, <2>2, <2>3 DEF DoJobRetry
<1>12. CASE DoJobPush
  <2>1. batch # <<>>
    BY <1>12 DEF DoJobPush
  <2>2. BaseJobPtr(Head(batch)) \in Entry /\ batch' \in Seq(Slots)
    BY <1>12, <2>1, HeadType, PtrType DEF DoJobPush
  <2>3. queue' \in Seq(Entry)
    BY <1>12, <2>2 DEF DoJobPush
  <2> QED BY <1>12, <2>2, <2>3 DEF DoJobPush
<1>13. CASE DoJobDelete
  BY <1>13, HeadType DEF DoJobDelete
<1>14. CASE DoJobClear
  <2>1. batch' \in Seq(Slots) /\ msg' \in [Slots -> Msgs \cup {NoMsg}]
    BY <1>14, HeadType DEF DoJobClear
  <2> QED BY <1>14, <2>1 DEF DoJobClear
<1>15. CASE EndUpdate
  BY <1>15 DEF EndUpdate
<1>16. CASE Tick
  <2>1. queue' \in Seq(Entry)
    BY <1>16, NearerType DEF Tick
  <2>2. wait' = [s \in Slots |-> Nearer(wait[s])]
    BY <1>16 DEF Tick
  <2>3. \A s \in Slots : Nearer(wait[s]) \in 0 .. Delay
    BY NearerRange
  <2>4. wait' \in [Slots -> 0 .. Delay]
    BY <2>2, <2>3
  <2> QED BY <1>16, <2>1, <2>4 DEF Tick
<1>17. CASE UNCHANGED vars
  BY <1>17 DEF vars
<1> QED
  BY <1>1, <1>2, <1>3, <1>4, <1>5, <1>6, <1>7, <1>8, <1>9, <1>10, <1>11, <1>12,
     <1>13, <1>14, <1>15, <1>16, <1>17, <1>18, <1>19, <1>20, <1>21 DEF Next, Send, Update

(* The state of OutBox always has its types.                                *)
THEOREM TypeCorrect == Spec => []TypeOK
  BY InitTypeOK, NextTypeOK, PTL DEF Spec

-----------------------------------------------------------------------------
placeVars == <<unsent, sent, freed, pc, msgOf, slotOf, id, msg, reused>>

LEMMA NextOnePlace ==
  ASSUME TypeOK, OnePlace, FreedIsGone, [Next]_vars
  PROVE  OnePlace'
<1> USE DEF jobVars, boxVars, sendVars, runVars
<1>0. /\ pc \in [Senders -> Labels] /\ slotOf \in [Senders -> Slots] /\ msgOf \in [Senders -> Msgs \cup {NoMsg}]
      /\ id \in [Slots -> Msgs \cup {NoMsg}] /\ msg \in [Slots -> Msgs \cup {NoMsg}]
      /\ sent \in [Msgs -> Nat] /\ unsent \subseteq Msgs /\ freed \subseteq Msgs /\ NoMsg \notin Msgs
  BY DEF TypeOK, Labels
<1>1. ASSUME NEW t \in Senders, SendFirst(t) PROVE OnePlace'
  <2>1. PICK m \in unsent : sent' = [sent EXCEPT ![m] = @ + 1]
                            /\ msgOf' = [msgOf EXCEPT ![t] = m]
                            /\ unsent' = unsent \ {m}
    BY <1>1 DEF SendFirst, udp_send
  <2>2. pc' = [pc EXCEPT ![t] = "reserve"] /\ UNCHANGED <<id, msg, freed, slotOf, reused>>
    BY <1>1 DEF SendFirst, Goto
  <2>3. \A n \in unsent' : sent'[n] = 0 /\ n \notin freed'
    BY <1>0, <2>1, <2>2 DEF OnePlace
  <2>4. ASSUME NEW u \in Senders, Carried(u)'
        PROVE  /\ msgOf'[u] \in Msgs \ (unsent' \cup freed')
               /\ sent'[msgOf'[u]] = 1
               /\ \A s \in Slots : msg'[s] # msgOf'[u]
               /\ \A s \in Slots : id'[s] = msgOf'[u] => pc'[u] = "message" /\ slotOf'[u] = s
               /\ pc'[u] = "message" => slotOf'[u] \in reused' \/ id'[slotOf'[u]] = msgOf'[u]
               /\ \A v \in Senders : Carried(v)' /\ msgOf'[v] = msgOf'[u] => v = u
    <3>1. \A v \in Senders : v # t => pc'[v] = pc[v] /\ msgOf'[v] = msgOf[v] /\ (Carried(v)' <=> Carried(v))
      BY <1>0, <2>1, <2>2 DEF Carried
    <3>2. msgOf'[t] = m /\ pc'[t] = "reserve" /\ sent[m] = 0 /\ sent'[m] = 1 /\ m \notin freed /\ m \in Msgs
      BY <1>0, <2>1, <2>2 DEF OnePlace
    <3>3. \A v \in Senders : Carried(v) => msgOf[v] # m /\ sent'[msgOf[v]] = sent[msgOf[v]]
      BY <1>0, <2>1 DEF OnePlace
    <3>4. CASE u = t
      BY <1>0, <2>1, <2>2, <3>1, <3>2, <3>3, <3>4, <2>4 DEF OnePlace
    <3>5. CASE u # t
      BY <1>0, <2>1, <2>2, <3>1, <3>2, <3>3, <3>5, <2>4 DEF OnePlace
    <3> QED BY <3>4, <3>5
  <2>5. \A s \in Slots : id'[s] \notin unsent' /\ msg'[s] \notin unsent'
    BY <2>1, <2>2 DEF OnePlace
  <2> QED BY <2>2, <2>3, <2>4, <2>5 DEF OnePlace
<1>2. ASSUME NEW t \in Senders, Reserve(t) PROVE OnePlace'
  <2>1. \A u \in Senders : /\ Carried(u)' <=> Carried(u)
                           /\ pc'[u] = "message" <=> pc[u] = "message"
                           /\ pc[u] = "message" => slotOf'[u] = slotOf[u]
    BY <1>0, <1>2 DEF Reserve, Goto, get_reserved, Carried
  <2>2. UNCHANGED <<unsent, sent, freed, msgOf, id, msg, reused>>
    BY <1>2 DEF Reserve
  <2> QED BY <2>1, <2>2 DEF OnePlace
<1>3. ASSUME NEW t \in Senders, InitId(t) PROVE OnePlace'
  <2> DEFINE h == slotOf[t]
             m == msgOf[t]
  <2>1. Carried(t) /\ h \in Slots /\ pc[t] = "init"
    BY <1>0, <1>3 DEF InitId, Carried
  <2>2. /\ m \in Msgs \ (unsent \cup freed)
        /\ \A s \in Slots : msg[s] # m /\ id[s] # m
        /\ \A u \in Senders : Carried(u) /\ msgOf[u] = m => u = t
    BY <2>1 DEF OnePlace
  <2>3. /\ id' = [id EXCEPT ![h] = m]
        /\ pc' = [pc EXCEPT ![t] = "message"]
        /\ reused' = IF id[h] = NoMsg THEN reused ELSE reused \cup {h}
        /\ UNCHANGED <<unsent, sent, freed, msgOf, slotOf, msg>>
    BY <1>3 DEF InitId, Goto
  <2>4. /\ id'[h] = m /\ \A s \in Slots : s # h => id'[s] = id[s]
        /\ pc'[t] = "message" /\ \A u \in Senders : u # t => pc'[u] = pc[u]
        /\ \A u \in Senders : Carried(u)' <=> Carried(u)
    BY <1>0, <2>1, <2>3 DEF Carried
  <2>5. \A s \in Slots : s \in reused => s \in reused'
    BY <2>3
  <2> HIDE DEF h, m
  <2>6. ASSUME NEW u \in Senders, Carried(u)
        PROVE  /\ \A s \in Slots : id'[s] = msgOf[u] => pc'[u] = "message" /\ slotOf[u] = s
               /\ pc'[u] = "message" => slotOf[u] \in reused' \/ id'[slotOf[u]] = msgOf[u]
    <3>1. CASE u = t
      BY <2>2, <2>4, <3>1 DEF h, m
    <3>2. CASE u # t
      <4>1. msgOf[u] # m
        BY <2>2, <2>6, <3>2 DEF m
      <4>2. ASSUME pc[u] = "message", slotOf[u] = h, slotOf[u] \notin reused' PROVE FALSE
        <5>1. slotOf[u] \notin reused /\ id[h] = NoMsg
          BY <2>3, <4>2 DEF h
        <5>2. id[h] = msgOf[u] /\ msgOf[u] \in Msgs
          BY <2>6, <4>2, <5>1 DEF OnePlace
        <5> QED BY <1>0, <5>1, <5>2
      <4>3. slotOf[u] \in Slots
        BY <1>0
      <4> QED BY <2>4, <2>5, <2>6, <3>2, <4>1, <4>2, <4>3 DEF OnePlace
    <3> QED BY <3>1, <3>2
  <2>7. ASSUME NEW s \in Slots
        PROVE  /\ id'[s] \notin unsent
               /\ s \in reused' \/ msg[s] \in {NoMsg, id'[s]}
               /\ \A r \in Slots : id'[r] = id'[s] => r = s \/ id'[s] = NoMsg
               /\ \A r \in Slots : msg[r] = id'[s] => r = s \/ id'[s] = NoMsg
    <3>1. CASE s = h
      <4>1. s \in reused' \/ (s \notin reused /\ id[s] = NoMsg)
        BY <2>3, <3>1 DEF h
      <4> QED BY <2>2, <2>4, <3>1, <4>1 DEF OnePlace
    <3>2. CASE s # h
      BY <2>2, <2>4, <2>5, <3>2 DEF OnePlace
    <3> QED BY <3>1, <3>2
  <2> QED BY <2>3, <2>4, <2>6, <2>7 DEF OnePlace
<1>4. ASSUME NEW t \in Senders, InitMessage(t) PROVE OnePlace'
  <2> DEFINE h == slotOf[t]
             m == msgOf[t]
  <2>1. Carried(t) /\ h \in Slots /\ pc[t] = "message"
    BY <1>0, <1>4 DEF InitMessage, Carried
  <2>2. /\ m \in Msgs \ (unsent \cup freed)
        /\ \A s \in Slots : msg[s] # m /\ (id[s] = m => h = s)
        /\ h \in reused \/ id[h] = m
        /\ \A u \in Senders : Carried(u) /\ msgOf[u] = m => u = t
    BY <2>1 DEF OnePlace
  <2>3. /\ msg' = [msg EXCEPT ![h] = m]
        /\ pc' = [pc EXCEPT ![t] = "msg_id"]
        /\ UNCHANGED <<unsent, sent, freed, msgOf, slotOf, id, reused>>
    BY <1>4 DEF InitMessage, Goto
  <2>4. /\ msg'[h] = m /\ \A s \in Slots : s # h => msg'[s] = msg[s]
        /\ \A u \in Senders : Carried(u)' => u # t /\ Carried(u) /\ pc'[u] = pc[u]
    BY <1>0, <2>1, <2>3 DEF Carried
  <2> HIDE DEF h, m
  <2>5. \A u \in Senders : Carried(u)' => msgOf[u] # m
    BY <2>2, <2>4
  <2>6. ASSUME NEW u \in Senders, Carried(u)'
        PROVE  \A s \in Slots : msg'[s] # msgOf[u]
    BY <2>4, <2>5, <2>6 DEF OnePlace
  <2>7. ASSUME NEW s \in Slots
        PROVE  /\ msg'[s] \notin unsent
               /\ s \in reused \/ msg'[s] \in {NoMsg, id[s]}
               /\ \A r \in Slots : msg'[r] = msg'[s] => r = s \/ msg'[s] = NoMsg
               /\ \A r \in Slots : msg'[r] = id[s] => r = s \/ id[s] = NoMsg
    <3>1. \A r \in Slots : msg'[r] = id[s] => r = s \/ id[s] = NoMsg
      BY <2>2, <2>4 DEF OnePlace
    <3> QED BY <2>2, <2>4, <3>1 DEF OnePlace
  <2> QED BY <2>3, <2>4, <2>6, <2>7 DEF OnePlace
<1>5. ASSUME NEW t \in Senders, InitMsgId(t) \/ InitCanceled(t) \/ Arm(t) \/ Push(t) PROVE OnePlace'
  <2>1. \A u \in Senders : Carried(u)' => Carried(u) /\ pc'[u] = pc[u] /\ msgOf'[u] = msgOf[u]
    BY <1>0, <1>5 DEF InitMsgId, InitCanceled, Arm, Push, Goto, Carried
  <2>2. UNCHANGED <<unsent, sent, freed, id, msg, slotOf, reused>>
    BY <1>5 DEF InitMsgId, InitCanceled, Arm, Push
  <2> QED BY <2>1, <2>2 DEF OnePlace
<1>6. CASE DoJobSend
  <2>1. CASE msg[Head(batch)] = NoMsg
    <3>1. UNCHANGED placeVars
      BY <1>6, <2>1 DEF DoJobSend, placeVars
    <3> QED BY <3>1 DEF placeVars, OnePlace, Carried
  <2>2. CASE msg[Head(batch)] # NoMsg
    <3> DEFINE m == msg[Head(batch)]
    <3>1. Head(batch) \in Slots
      BY <1>6, HeadType DEF DoJobSend
    <3>2. m \in Msgs
      BY <1>0, <2>2, <3>1
    <3>3. m \notin unsent /\ \A u \in Senders : Carried(u) => msgOf[u] # m
      BY <3>1, <3>2 DEF OnePlace
    <3>4. sent' = [sent EXCEPT ![m] = @ + 1]
          /\ UNCHANGED <<unsent, freed, pc, msgOf, slotOf, id, msg, reused>>
      BY <1>6, <2>2 DEF DoJobSend, udp_send
    <3> HIDE DEF m
    <3>5. \A u \in Senders : Carried(u)' <=> Carried(u)
      BY <3>4 DEF Carried
    <3>6. \A u \in Senders : Carried(u) => sent'[msgOf[u]] = sent[msgOf[u]]
      BY <1>0, <3>3, <3>4 DEF OnePlace
    <3>7. \A n \in unsent : sent'[n] = sent[n]
      BY <1>0, <3>3, <3>4
    <3> QED BY <3>4, <3>5, <3>6, <3>7 DEF OnePlace
  <2> QED BY <2>1, <2>2
<1>7. CASE DoJobDelete
  <2>1. Head(batch) \in Slots
    BY <1>7, HeadType DEF DoJobDelete, TypeOK
  <2>2. freed' = freed \cup ({msg[Head(batch)]} \ {NoMsg})
    BY <1>7 DEF DoJobDelete
  <2>3. UNCHANGED <<unsent, sent, pc, msgOf, slotOf, id, msg, reused>>
    BY <1>7 DEF DoJobDelete
  <2>4. msg[Head(batch)] \notin unsent /\ \A u \in Senders : Carried(u) => msgOf[u] # msg[Head(batch)]
    BY <2>1 DEF OnePlace
  <2>5. \A u \in Senders : Carried(u)' <=> Carried(u)
    BY <2>3 DEF Carried
  <2> QED BY <2>2, <2>3, <2>4, <2>5 DEF OnePlace
<1>8. CASE DoJobClear
  <2>1. \A s \in Slots : msg'[s] \in {NoMsg, msg[s]}
    BY <1>0, <1>8 DEF DoJobClear
  <2>2. UNCHANGED <<unsent, sent, freed, pc, msgOf, slotOf, id, reused>>
    BY <1>8 DEF DoJobClear
  <2>3. \A u \in Senders : (Carried(u)' <=> Carried(u)) /\ (Carried(u) => msgOf[u] # NoMsg)
    BY <1>0, <2>2 DEF Carried, OnePlace
  <2>4. ASSUME NEW u \in Senders, Carried(u) PROVE \A s \in Slots : msg'[s] # msgOf[u]
    BY <2>1, <2>3, <2>4 DEF OnePlace
  <2>5. ASSUME NEW s \in Slots
        PROVE  /\ msg'[s] \notin unsent
               /\ s \in reused \/ msg'[s] \in {NoMsg, id[s]}
               /\ \A r \in Slots : msg'[r] = msg'[s] => r = s \/ msg'[s] = NoMsg
               /\ \A r \in Slots : msg'[r] = id[s] => r = s \/ id[s] = NoMsg
    BY <1>0, <2>1 DEF OnePlace
  <2> QED BY <2>2, <2>3, <2>4, <2>5 DEF OnePlace
<1>9. ASSUME UNCHANGED placeVars PROVE OnePlace'
  BY <1>9 DEF placeVars, OnePlace, Carried
<1>10. ASSUME NEW m \in Msgs, AckReceived(m) PROVE UNCHANGED placeVars
  BY <1>10 DEF AckReceived, placeVars
<1>11. StartDrain \/ DrainDue \/ EndDrain \/ DoJobRetry \/ DoJobPush \/ EndUpdate \/ LeaveSocket \/ Tick
         \/ UNCHANGED vars => UNCHANGED placeVars
  BY DEF StartDrain, DrainDue, EndDrain, DoJobRetry, DoJobPush, EndUpdate, LeaveSocket, Tick, vars,
         placeVars
<1> QED
  BY <1>1, <1>2, <1>3, <1>4, <1>5, <1>6, <1>7, <1>8, <1>9, <1>10, <1>11
  DEF Next, Send, Update

LEMMA NextFreedIsGone ==
  ASSUME TypeOK, OnePlace, FreedIsGone, [Next]_vars
  PROVE  FreedIsGone'
<1> USE DEF TypeOK, FreedIsGone, Current, jobVars, boxVars, sendVars, runVars
<1>1. ASSUME NEW t \in Senders, InitMessage(t) PROVE FreedIsGone'
  <2>1. slotOf[t] \in Slots /\ msgOf[t] \notin freed
    BY <1>1 DEF InitMessage, OnePlace, Carried
  <2>2. \A s \in Slots : msg'[s] \in {msg[s], msgOf[t]}
    BY <1>1, <2>1 DEF InitMessage
  <2>3. UNCHANGED <<freed, runPc, batch>>
    BY <1>1 DEF InitMessage
  <2> QED BY <2>1, <2>2, <2>3
<1>2. CASE DrainDue
  <2>1. \A s \in Slots : msg[s] \notin freed
    BY <1>2 DEF DrainDue
  <2> QED BY <1>2, <2>1 DEF DrainDue
<1>3. CASE DoJobPush
  <2>1. \A s \in Slots : msg[s] \notin freed
    BY <1>3 DEF DoJobPush
  <2> QED BY <1>3, <2>1 DEF DoJobPush
<1>4. CASE DoJobDelete
  <2>1. Head(batch) \in Slots /\ batch # <<>>
    BY <1>4, HeadType DEF DoJobDelete
  <2>2. \A s \in Slots : msg[s] \notin freed
    BY <1>4 DEF DoJobDelete
  <2>3. ASSUME NEW s \in Slots, msg[s] = msg[Head(batch)], msg[s] # NoMsg
        PROVE  s = Head(batch)
    BY <2>1, <2>3 DEF OnePlace
  <2> QED BY <1>4, <2>1, <2>2, <2>3 DEF DoJobDelete
<1>5. CASE DoJobClear
  <2>1. Head(batch) \in Slots
    BY <1>5, HeadType DEF DoJobClear
  <2>2. \A s \in Slots : msg'[s] \notin freed
    <3>1. msg' = [msg EXCEPT ![Head(batch)] = NoMsg]
      BY <1>5 DEF DoJobClear
    <3>2. \A s \in Slots : s # Head(batch) => msg[s] \notin freed
      OBVIOUS
    <3> QED BY <2>1, <3>1, <3>2
  <2> QED BY <1>5, <2>2 DEF DoJobClear
<1>6. ASSUME NEW t \in Senders,
             SendFirst(t) \/ Reserve(t) \/ InitId(t) \/ InitMsgId(t) \/ InitCanceled(t) \/ Arm(t) \/ Push(t)
      PROVE FreedIsGone'
  BY <1>6 DEF SendFirst, Reserve, InitId, InitMsgId, InitCanceled, Arm, Push
<1>7. ASSUME NEW m \in Msgs, AckReceived(m) PROVE FreedIsGone'
  BY <1>7 DEF AckReceived
<1>8. CASE StartDrain \/ EndDrain \/ EndUpdate
  <2>1. \A s \in Slots : msg[s] \notin freed
    BY <1>8 DEF StartDrain, EndDrain, EndUpdate
  <2> QED BY <1>8, <2>1 DEF StartDrain, EndDrain, EndUpdate
<1>9. CASE DoJobSend \/ DoJobRetry
  <2>1. \A s \in Slots : msg[s] \notin freed
    BY <1>9 DEF DoJobSend, DoJobRetry
  <2> QED BY <1>9, <2>1 DEF DoJobSend, DoJobRetry
<1>10. CASE LeaveSocket \/ Tick \/ UNCHANGED vars
  BY <1>10 DEF LeaveSocket, Tick, vars
<1> QED
  BY <1>1, <1>2, <1>3, <1>4, <1>5, <1>6, <1>7, <1>8, <1>9, <1>10 DEF Next, Send, Update

PlaceInv == TypeOK /\ OnePlace /\ FreedIsGone

LEMMA InitPlaceInv == Init => PlaceInv
<1> SUFFICES ASSUME Init PROVE PlaceInv
  OBVIOUS
<1>1. OnePlace /\ FreedIsGone
  BY DEF Init, OnePlace, FreedIsGone, Carried
<1> QED BY <1>1, InitTypeOK DEF PlaceInv

LEMMA NextPlaceInv == PlaceInv /\ [Next]_vars => PlaceInv'
  BY NextTypeOK, NextOnePlace, NextFreedIsGone DEF PlaceInv

LEMMA FreedStaysOff ==
  ASSUME PlaceInv, [Next]_vars, NEW m \in freed
  PROVE  sent'[m] = sent[m]
<1> USE DEF PlaceInv, TypeOK
<1>1. ASSUME NEW t \in Senders, SendFirst(t) PROVE sent'[m] = sent[m]
  <2>1. PICK n \in unsent : sent' = [sent EXCEPT ![n] = @ + 1]
    BY <1>1 DEF SendFirst, udp_send
  <2>2. n # m
    BY DEF OnePlace
  <2> QED BY <2>1, <2>2
<1>2. CASE DoJobSend
  <2>0. runPc = "batch" /\ Head(batch) \in Slots
    BY <1>2, HeadType DEF DoJobSend
  <2>1. msg[Head(batch)] # m
    BY <2>0 DEF FreedIsGone
  <2>2. \/ UNCHANGED sent
        \/ /\ msg[Head(batch)] # NoMsg
           /\ sent' = [sent EXCEPT ![msg[Head(batch)]] = @ + 1]
    BY <1>2 DEF DoJobSend, udp_send
  <2>3. m \in Msgs /\ sent \in [Msgs -> Nat]
    OBVIOUS
  <2> HIDE DEF PlaceInv, TypeOK
  <2> QED BY <2>0, <2>1, <2>2, <2>3
<1>3. ASSUME NEW t \in Senders,
             Reserve(t) \/ InitId(t) \/ InitMessage(t) \/ InitMsgId(t) \/ InitCanceled(t) \/ Arm(t) \/ Push(t)
      PROVE UNCHANGED sent
  BY <1>3 DEF Reserve, InitId, InitMessage, InitMsgId, InitCanceled, Arm, Push
<1>4. ASSUME NEW n \in Msgs, AckReceived(n) PROVE UNCHANGED sent
  BY <1>4 DEF AckReceived
<1>5. CASE StartDrain \/ DrainDue \/ EndDrain \/ DoJobRetry \/ DoJobPush \/ DoJobDelete
            \/ DoJobClear \/ EndUpdate \/ LeaveSocket \/ Tick \/ UNCHANGED vars
  BY <1>5 DEF StartDrain, DrainDue, EndDrain, DoJobRetry, DoJobPush, DoJobDelete,
     DoJobClear, EndUpdate, LeaveSocket, Tick, vars
<1> QED BY <1>1, <1>2, <1>3, <1>4, <1>5 DEF Next, Send, Update

(* A message that do_job has deleted is never given to udp_send again,      *)
(* however the sends, ACKs and resends interleave.                          *)
THEOREM FreedNeverSent == Spec => DeletedIsNotSent
<1>1. PlaceInv /\ [Next]_vars => [\A m \in freed : sent'[m] = sent[m]]_vars
  BY FreedStaysOff
<1> QED BY InitPlaceInv, NextPlaceInv, <1>1, PTL DEF Spec, DeletedIsNotSent

-----------------------------------------------------------------------------
(***************************************************************************)
(* RetryBound.                                                             *)
(***************************************************************************)
LEMMA AppendElements ==
  ASSUME NEW S, NEW q \in Seq(S), NEW e \in S
  PROVE  /\ Len(Append(q, e)) = Len(q) + 1
         /\ \A i \in 1 .. Len(q) : Append(q, e)[i] = q[i]
         /\ Append(q, e)[Len(q) + 1] = e
  OBVIOUS

LEMMA TailElements ==
  ASSUME NEW S, NEW q \in Seq(S), q # <<>>
  PROVE  /\ Len(q) \in Nat /\ Len(q) >= 1
         /\ Head(q) = q[1]
         /\ Len(Tail(q)) = Len(q) - 1
         /\ \A i \in 1 .. Len(q) - 1 : Tail(q)[i] = q[i + 1]
  OBVIOUS

refVars == <<id, reused, pc, slotOf, queue, batch>>

LEMMA NextOneRef ==
  ASSUME TypeOK, OnePlace, OneRef, [Next]_vars
  PROVE  OneRef'
<1> USE DEF jobVars, boxVars, sendVars, runVars
<1>0. /\ queue \in Seq(Entry) /\ batch \in Seq(Slots)
      /\ Len(queue) \in Nat /\ Len(batch) \in Nat
      /\ pc \in [Senders -> Labels]
      /\ runPc \in {"sent", "push", "clear"} => batch # <<>>
      /\ slotOf \in [Senders -> Slots] /\ id \in [Slots -> Msgs \cup {NoMsg}]
  BY DEF TypeOK, Labels
<1>1. ASSUME NEW t \in Senders, SendFirst(t) \/ Reserve(t) PROVE OneRef'
  <2>1. /\ pc'[t] \in {"reserve", "init"}
        /\ \A u \in Senders \ {t} : pc'[u] = pc[u] /\ slotOf'[u] = slotOf[u]
        /\ UNCHANGED <<id, reused, queue, batch>>
    BY <1>0, <1>1 DEF SendFirst, Reserve, get_reserved, Goto
  <2>2. \A u \in Senders, s \in Slots : Initialising(u, s)' => Initialising(u, s)
    BY <1>0, <2>1 DEF Initialising
  <2> QED BY <2>1, <2>2 DEF OneRef, Ref, InQueue, InBatch
<1>2. ASSUME NEW t \in Senders, InitId(t) PROVE OneRef'
  <2>1. /\ pc[t] = "init" /\ slotOf[t] \in Slots /\ msgOf[t] # NoMsg
        /\ id' = [id EXCEPT ![slotOf[t]] = msgOf[t]]
        /\ pc' = [pc EXCEPT ![t] = "message"]
        /\ reused' = IF id[slotOf[t]] = NoMsg THEN reused ELSE reused \cup {slotOf[t]}
        /\ UNCHANGED <<queue, batch, slotOf>>
    BY <1>0, <1>2 DEF InitId, Goto, OnePlace, Carried
  <2>2. \A u \in Senders, s \in Slots :
          Initialising(u, s)' <=> Initialising(u, s) \/ (u = t /\ s = slotOf[t])
    BY <1>0, <2>1 DEF Initialising
  <2>3. \A s \in Slots : Ref(s)' <=> Ref(s)
    BY <2>1 DEF Ref, InQueue, InBatch
  <2>4. \A s \in Slots : id'[s] = NoMsg => s # slotOf[t] /\ id[s] = NoMsg
    BY <1>0, <2>1
  <2>5. slotOf[t] \notin reused' =>
          ~Ref(slotOf[t]) /\ \A u \in Senders : ~Initialising(u, slotOf[t])
    BY <2>1 DEF OneRef
  <2>6. \A s \in Slots : id'[s] = NoMsg =>
          ~Ref(s)' /\ \A u \in Senders : ~Initialising(u, s)'
    BY <2>2, <2>3, <2>4 DEF OneRef
  <2>7. ASSUME NEW s \in Slots \ reused'
        PROVE  /\ \A u \in Senders : Initialising(u, s)' => ~Ref(s)'
               /\ \A u, v \in Senders : Initialising(u, s)' /\ Initialising(v, s)' => u = v
    <3>1. s \notin reused
      BY <2>1
    <3> QED BY <2>2, <2>3, <2>5, <3>1 DEF OneRef
  <2>8. \A s \in Slots \ reused' : s \in Slots \ reused
    BY <2>1
  <2> QED BY <2>1, <2>6, <2>7, <2>8 DEF OneRef, InQueue, InBatch
<1>3. ASSUME NEW t \in Senders, InitMessage(t) \/ InitMsgId(t) \/ InitCanceled(t) \/ Arm(t) PROVE OneRef'
  <2>1. /\ pc[t] \in {"message", "msg_id", "uncancel", "arm"}
        /\ \E label \in {"msg_id", "uncancel", "arm", "push"} : pc' = [pc EXCEPT ![t] = label]
        /\ UNCHANGED <<id, reused, queue, batch, slotOf>>
    BY <1>3 DEF InitMessage, InitMsgId, InitCanceled, Arm, Goto
  <2>2. \A u \in Senders, s \in Slots : Initialising(u, s)' <=> Initialising(u, s)
    BY <1>0, <2>1 DEF Initialising
  <2> QED BY <2>1, <2>2 DEF OneRef, Ref, InQueue, InBatch
<1>4. ASSUME NEW t \in Senders, Push(t) PROVE OneRef'
  <2>1. /\ pc[t] = "push" /\ slotOf[t] \in Slots
        /\ pc' = [pc EXCEPT ![t] = "idle"]
        /\ queue' = Append(queue, BaseJobPtr(slotOf[t]))
        /\ UNCHANGED <<id, reused, batch, slotOf>>
    BY <1>0, <1>4 DEF Push, Goto
  <2>2. \A u \in Senders, s \in Slots :
          Initialising(u, s)' <=> Initialising(u, s) /\ u # t
    BY <1>0, <2>1 DEF Initialising
  <2>3. Initialising(t, slotOf[t])
    BY <1>0, <2>1 DEF Initialising
  <2>4. /\ Len(queue') = Len(queue) + 1 /\ Len(queue) \in Nat
        /\ \A i \in 1 .. Len(queue) : queue'[i] = queue[i]
        /\ queue'[Len(queue) + 1].slot = slotOf[t]
    BY <1>0, <2>1, PtrType, AppendElements DEF BaseJobPtr
  <2>5. \A s \in Slots : InQueue(s)' <=> InQueue(s) \/ s = slotOf[t]
    BY <2>4 DEF InQueue
  <2>6. \A s \in Slots : InBatch(s)' <=> InBatch(s)
    BY <2>1 DEF InBatch
  <2>7. ASSUME NEW s \in Slots, id[s] = NoMsg
        PROVE  ~Ref(s)' /\ \A u \in Senders : ~Initialising(u, s)'
    BY <2>2, <2>3, <2>5, <2>6, <2>7 DEF OneRef, Ref
  <2>8. ASSUME NEW s \in Slots \ reused, NEW i \in 1 .. Len(queue'), NEW j \in 1 .. Len(queue'),
               queue'[i].slot = s, queue'[j].slot = s
        PROVE  i = j
    <3>1. CASE s = slotOf[t]
      <4>1. \A k \in 1 .. Len(queue) : queue[k].slot # s
        BY <2>3, <3>1 DEF OneRef, Ref, InQueue
      <4> QED BY <2>4, <2>8, <4>1
    <3>2. CASE s # slotOf[t]
      <4>1. i \in 1 .. Len(queue) /\ j \in 1 .. Len(queue)
        BY <2>4, <2>8, <3>2
      <4> QED BY <2>4, <2>8, <4>1 DEF OneRef
    <3> QED BY <3>1, <3>2
  <2>9. ASSUME NEW s \in Slots \ reused
        PROVE  /\ ~(InQueue(s) /\ InBatch(s))'
               /\ \A u \in Senders : Initialising(u, s)' => ~Ref(s)'
               /\ \A u, v \in Senders : Initialising(u, s)' /\ Initialising(v, s)' => u = v
    BY <2>2, <2>3, <2>5, <2>6 DEF OneRef, Ref
  <2> QED BY <2>1, <2>7, <2>8, <2>9 DEF OneRef
<1>5. ASSUME queue # <<>>, queue' = Tail(queue),
             batch' = batch \/ batch' = Append(batch, Head(queue).slot),
             UNCHANGED <<id, reused, pc, slotOf>>
      PROVE  OneRef'
  <2>1. /\ Len(queue) \in Nat /\ Len(queue) >= 1 /\ Len(queue') = Len(queue) - 1
        /\ \A i \in 1 .. Len(queue) - 1 : queue'[i] = queue[i + 1]
        /\ Head(queue) = queue[1]
    BY <1>0, <1>5, TailElements
  <2>2. \A u \in Senders, s \in Slots : Initialising(u, s)' <=> Initialising(u, s)
    BY <1>5 DEF Initialising
  <2>3. \A s \in Slots : InQueue(s)' => InQueue(s)
    BY <2>1 DEF InQueue
  <2>4. Head(queue).slot \in Slots /\ InQueue(Head(queue).slot)
    BY <1>5, <2>1, HeadType DEF InQueue
  <2>5. /\ Len(batch) \in Nat
        /\ \/ batch' = batch
           \/ /\ Len(batch') = Len(batch) + 1
              /\ \A i \in 1 .. Len(batch) : batch'[i] = batch[i]
              /\ batch'[Len(batch) + 1] = Head(queue).slot
    <3>1. batch \in Seq(Slots) /\ Len(batch) \in Nat
      BY <1>0
    <3>2. CASE batch' = Append(batch, Head(queue).slot)
      BY <2>4, <3>1, <3>2, AppendElements
    <3> QED BY <1>5, <3>1, <3>2
  <2>6. \A s \in Slots : InBatch(s)' => InBatch(s) \/ s = Head(queue).slot
    BY <2>5 DEF InBatch
  <2>7. \A s \in Slots : Ref(s)' => Ref(s)
    BY <2>3, <2>4, <2>6 DEF Ref
  <2>8. ASSUME NEW s \in Slots \ reused, NEW i \in 1 .. Len(queue'), NEW j \in 1 .. Len(queue'),
               queue'[i].slot = s, queue'[j].slot = s
        PROVE  i = j
    <3>1. /\ i + 1 \in 1 .. Len(queue) /\ j + 1 \in 1 .. Len(queue)
          /\ queue[i + 1].slot = s /\ queue[j + 1].slot = s
      BY <2>1, <2>8
    <3>2. i + 1 = j + 1
      BY <3>1 DEF OneRef
    <3> QED BY <2>1, <3>2
  <2>9. ASSUME NEW s \in Slots \ reused, NEW i \in 1 .. Len(batch'), NEW j \in 1 .. Len(batch'),
               batch'[i] = s, batch'[j] = s
        PROVE  i = j
    <3>1. s = Head(queue).slot => \A k \in 1 .. Len(batch) : batch[k] # s
      BY <2>4 DEF OneRef, InBatch
    <3>2. \A k, l \in 1 .. Len(batch) : batch[k] = s /\ batch[l] = s => k = l
      BY DEF OneRef
    <3> QED BY <2>5, <2>9, <3>1, <3>2
  <2>10. ASSUME NEW s \in Slots \ reused, InQueue(s)', InBatch(s)' PROVE FALSE
    <3>1. s = Head(queue).slot
      BY <2>3, <2>6, <2>10 DEF OneRef
    <3>2. PICK i \in 1 .. Len(queue') : queue'[i].slot = s
      BY <2>10 DEF InQueue
    <3>3. i + 1 \in 1 .. Len(queue) /\ queue[i + 1].slot = s
      BY <2>1, <3>2
    <3>4. i + 1 = 1
      BY <2>1, <3>1, <3>3 DEF OneRef
    <3> QED BY <2>1, <3>2, <3>4
  <2> QED BY <1>5, <2>2, <2>7, <2>8, <2>9, <2>10 DEF OneRef
<1>6. CASE DrainDue
  BY <1>5, <1>6 DEF DrainDue, OldestIsDue
<1>7. ASSUME batch # <<>>, batch' = Tail(batch),
             queue' = queue \/ queue' = Append(queue, BaseJobPtr(Head(batch))),
             UNCHANGED <<id, reused, pc, slotOf>>
      PROVE  OneRef'
  <2>1. /\ Len(batch) \in Nat /\ Len(batch) >= 1 /\ Len(batch') = Len(batch) - 1
        /\ \A i \in 1 .. Len(batch) - 1 : batch'[i] = batch[i + 1]
        /\ Head(batch) = batch[1] /\ Head(batch) \in Slots
    BY <1>0, <1>7, TailElements, HeadType
  <2>2. \A u \in Senders, s \in Slots : Initialising(u, s)' <=> Initialising(u, s)
    BY <1>7 DEF Initialising
  <2>3. \A s \in Slots : InBatch(s)' => InBatch(s)
    BY <2>1 DEF InBatch
  <2>4. InBatch(Head(batch))
    BY <2>1 DEF InBatch
  <2>5. /\ Len(queue) \in Nat
        /\ \/ queue' = queue
           \/ /\ Len(queue') = Len(queue) + 1
              /\ \A i \in 1 .. Len(queue) : queue'[i] = queue[i]
              /\ queue'[Len(queue) + 1].slot = Head(batch)
    <3>1. BaseJobPtr(Head(batch)) \in Entry
      BY <2>1, PtrType
    <3>2. BaseJobPtr(Head(batch)).slot = Head(batch)
      BY DEF BaseJobPtr
    <3>3. queue \in Seq(Entry) /\ Len(queue) \in Nat
      BY <1>0
    <3>4. CASE queue' = Append(queue, BaseJobPtr(Head(batch)))
      BY <3>1, <3>2, <3>3, <3>4, AppendElements
    <3> QED BY <1>7, <3>3, <3>4
  <2>6. \A s \in Slots : InQueue(s)' => InQueue(s) \/ s = Head(batch)
    BY <2>5 DEF InQueue
  <2>7. \A s \in Slots : Ref(s)' => Ref(s)
    BY <2>3, <2>4, <2>6 DEF Ref
  <2>8. ASSUME NEW s \in Slots \ reused, NEW i \in 1 .. Len(batch'), NEW j \in 1 .. Len(batch'),
               batch'[i] = s, batch'[j] = s
        PROVE  i = j
    <3>1. /\ i + 1 \in 1 .. Len(batch) /\ j + 1 \in 1 .. Len(batch)
          /\ batch[i + 1] = s /\ batch[j + 1] = s
      BY <2>1, <2>8
    <3>2. i + 1 = j + 1
      BY <3>1 DEF OneRef
    <3> QED BY <2>1, <3>2
  <2>9. ASSUME NEW s \in Slots \ reused, NEW i \in 1 .. Len(queue'), NEW j \in 1 .. Len(queue'),
               queue'[i].slot = s, queue'[j].slot = s
        PROVE  i = j
    <3>1. s = Head(batch) => \A k \in 1 .. Len(queue) : queue[k].slot # s
      BY <2>4 DEF OneRef, InQueue
    <3>2. \A k, l \in 1 .. Len(queue) : queue[k].slot = s /\ queue[l].slot = s => k = l
      BY DEF OneRef
    <3> QED BY <2>5, <2>9, <3>1, <3>2
  <2>10. ASSUME NEW s \in Slots \ reused, InQueue(s)', InBatch(s)' PROVE FALSE
    <3>1. s = Head(batch)
      BY <2>3, <2>6, <2>10 DEF OneRef
    <3>2. PICK i \in 1 .. Len(batch') : batch'[i] = s
      BY <2>10 DEF InBatch
    <3>3. i + 1 \in 1 .. Len(batch) /\ batch[i + 1] = s
      BY <2>1, <3>2
    <3>4. i + 1 = 1
      BY <2>1, <3>1, <3>3 DEF OneRef
    <3> QED BY <2>1, <3>2, <3>4
  <2> QED BY <1>7, <2>2, <2>7, <2>8, <2>9, <2>10 DEF OneRef
<1>8. CASE DoJobPush \/ DoJobClear
  BY <1>0, <1>7, <1>8 DEF DoJobPush, DoJobClear
<1>9. CASE Tick
  <2>1. /\ DOMAIN queue = 1 .. Len(queue) /\ Len(queue) \in Nat
        /\ queue' = [i \in 1 .. Len(queue) |-> [queue[i] EXCEPT !.wait = Nearer(@)]]
        /\ UNCHANGED <<id, reused, pc, slotOf, batch>>
    BY <1>0, <1>9 DEF Tick
  <2>2. \A e \in Entry : [e EXCEPT !.wait = Nearer(@)].slot = e.slot
    BY DEF Entry
  <2>3. Len(queue') = Len(queue) /\ \A i \in 1 .. Len(queue) : queue'[i].slot = queue[i].slot
    <3>1. \A i \in 1 .. Len(queue) : queue[i] \in Entry
      BY <1>0
    <3>2. Len(queue') = Len(queue)
      BY <2>1
    <3>3. \A i \in 1 .. Len(queue) : queue'[i] = [queue[i] EXCEPT !.wait = Nearer(@)]
      BY <2>1
    <3> QED BY <2>2, <3>1, <3>2, <3>3
  <2>4. \A u \in Senders, s \in Slots : Initialising(u, s)' <=> Initialising(u, s)
    BY <1>0, <2>1 DEF Initialising
  <2>5. \A s \in Slots : InQueue(s)' = InQueue(s) /\ InBatch(s)' = InBatch(s)
    BY <2>1, <2>3 DEF InQueue, InBatch
  <2> QED BY <2>1, <2>3, <2>4, <2>5 DEF OneRef, Ref
<1>10. CASE UNCHANGED refVars
  BY <1>10 DEF refVars, OneRef, Ref, InQueue, InBatch, Initialising
<1>11. ASSUME NEW m \in Msgs, AckReceived(m) PROVE UNCHANGED refVars
  BY <1>11 DEF AckReceived, refVars
<1>12. StartDrain \/ EndDrain \/ DoJobSend \/ DoJobRetry \/ DoJobDelete \/ EndUpdate
         \/ LeaveSocket \/ UNCHANGED vars => UNCHANGED refVars
  BY DEF LeaveSocket, StartDrain, EndDrain, DoJobSend, DoJobRetry, DoJobDelete, EndUpdate, vars, refVars
<1> QED
  BY <1>1, <1>2, <1>3, <1>4, <1>6, <1>8, <1>9, <1>10, <1>11, <1>12 DEF Next, Send, Update

(* Only DoJobPush and DoJobClear change which slot do_job works on; the     *)
(* others see the batch grow behind its head.                               *)
triesVars == <<id, reused, pc, slotOf, queue, batch, sent, try_counter>>

LEMMA NextTriesCover ==
  ASSUME TypeOK, OnePlace, OneRef, TriesCover, [Next]_vars
  PROVE  TriesCover'
<1> USE DEF jobVars, boxVars, sendVars, runVars
<1>0. /\ queue \in Seq(Entry) /\ batch \in Seq(Slots)
      /\ Len(queue) \in Nat /\ Len(batch) \in Nat
      /\ runPc \in {"sent", "push", "clear"} => batch # <<>>
      /\ pc \in [Senders -> Labels]
      /\ slotOf \in [Senders -> Slots] /\ id \in [Slots -> Msgs \cup {NoMsg}]
      /\ sent \in [Msgs -> Nat] /\ try_counter \in [Slots -> Nat]
      /\ NoMsg \notin Msgs /\ MaxTry \in Nat
  BY DEF TypeOK, Labels
<1>len. Len(queue) \in Nat /\ Len(batch) \in Nat
  BY <1>0
<1>1. ASSUME NEW t \in Senders, SendFirst(t) PROVE TriesCover'
  <2>1. PICK m \in unsent : sent' = [sent EXCEPT ![m] = @ + 1]
    BY <1>1 DEF SendFirst, udp_send
  <2>2. \A s \in Slots : id[s] # NoMsg => sent'[id[s]] = sent[id[s]]
    BY <1>0, <2>1 DEF OnePlace
  <2>3. /\ UNCHANGED <<id, reused, queue, batch, runPc, try_counter>>
        /\ pc' = [pc EXCEPT ![t] = "reserve"] /\ slotOf' = slotOf
    BY <1>1 DEF SendFirst, Goto
  <2>4. \A u \in Senders, s \in Slots :
          Initialising(u, s)' => Initialising(u, s) /\ pc'[u] = pc[u]
    BY <1>0, <2>3 DEF Initialising
  <2> QED BY <2>2, <2>3, <2>4 DEF TriesCover, Ref, InQueue, InBatch, Current
<1>2. ASSUME NEW t \in Senders, Reserve(t) PROVE TriesCover'
  <2>1. /\ UNCHANGED <<id, reused, queue, batch, runPc, try_counter, sent>>
        /\ pc'[t] = "init"
        /\ \A u \in Senders \ {t} : pc'[u] = pc[u] /\ slotOf'[u] = slotOf[u]
    BY <1>0, <1>2 DEF Reserve, get_reserved, Goto
  <2>2. \A u \in Senders, s \in Slots :
          Initialising(u, s)' => Initialising(u, s) /\ pc'[u] = pc[u]
    BY <2>1 DEF Initialising
  <2> QED BY <2>1, <2>2 DEF TriesCover, Ref, InQueue, InBatch, Current
<1>3. ASSUME NEW t \in Senders, InitId(t) PROVE TriesCover'
  <2>1. /\ slotOf[t] \in Slots /\ msgOf[t] \in Msgs /\ sent[msgOf[t]] = 1
        /\ id' = [id EXCEPT ![slotOf[t]] = msgOf[t]]
        /\ pc' = [pc EXCEPT ![t] = "message"]
        /\ reused' = IF id[slotOf[t]] = NoMsg THEN reused ELSE reused \cup {slotOf[t]}
        /\ UNCHANGED <<queue, batch, slotOf, sent, try_counter, runPc>>
    BY <1>0, <1>3 DEF InitId, Goto, OnePlace, Carried
  <2> SUFFICES ASSUME NEW s \in Slots \ reused', id'[s] # NoMsg
               PROVE  /\ sent'[id'[s]] <= MaxTry + 1
                      /\ \A u \in Senders : Initialising(u, s)' =>
                           sent'[id'[s]] = 1 /\ (pc'[u] = "push" => try_counter'[s] = 1)
                      /\ Ref(s)' =>
                           /\ try_counter'[s] <= MaxTry
                           /\ (runPc' = "sent" /\ Current(s)') => sent'[id'[s]] <= try_counter'[s] + 1
                           /\ ~(runPc' \in {"sent", "clear"} /\ Current(s)') => sent'[id'[s]] <= try_counter'[s]
    BY DEF TriesCover
  <2>2. CASE s = slotOf[t]
    <3>1. ~Ref(s) /\ \A u \in Senders : ~Initialising(u, s)
      BY <2>1, <2>2 DEF OneRef
    <3>2. ~Ref(s)'
      BY <2>1, <3>1 DEF Ref, InQueue, InBatch
    <3>3. \A u \in Senders : Initialising(u, s)' => u = t
      BY <1>0, <2>1, <3>1 DEF Initialising
    <3> QED BY <1>0, <2>1, <2>2, <3>2, <3>3
  <2>3. CASE s # slotOf[t]
    <3>1. id'[s] = id[s] /\ s \in Slots \ reused
      BY <1>0, <2>1, <2>3
    <3>2. \A u \in Senders : Initialising(u, s)' => Initialising(u, s) /\ pc'[u] = pc[u]
      BY <1>0, <2>1, <2>3 DEF Initialising
    <3> QED BY <2>1, <3>1, <3>2 DEF TriesCover, Ref, InQueue, InBatch, Current
  <2> QED BY <2>2, <2>3
<1>4. ASSUME NEW t \in Senders, Arm(t) PROVE TriesCover'
  <2>1. /\ slotOf[t] \in Slots /\ pc[t] = "arm"
        /\ try_counter' = [try_counter EXCEPT ![slotOf[t]] = 1]
        /\ pc' = [pc EXCEPT ![t] = "push"]
        /\ UNCHANGED <<id, reused, queue, batch, slotOf, sent, runPc>>
    BY <1>0, <1>4 DEF Arm, Goto
  <2>2. Initialising(t, slotOf[t])
    BY <2>1 DEF Initialising
  <2>3. slotOf[t] \notin reused => ~Ref(slotOf[t])
    BY <2>1, <2>2 DEF OneRef
  <2>4. \A u \in Senders, s \in Slots : Initialising(u, s)' => Initialising(u, s)
    BY <1>0, <2>1 DEF Initialising
  <2>5. \A s \in Slots : (Ref(s)' <=> Ref(s)) /\ (Current(s)' <=> Current(s))
    BY <2>1 DEF Ref, InQueue, InBatch, Current
  <2>6. \A s \in Slots : s # slotOf[t] => try_counter'[s] = try_counter[s]
    BY <1>0, <2>1
  <2>7. try_counter'[slotOf[t]] = 1
    BY <1>0, <2>1
  <2>8. \A u \in Senders, s \in Slots : Initialising(u, s)' /\ s # slotOf[t] => pc'[u] = pc[u]
    BY <1>0, <2>1 DEF Initialising
  <2> QED BY <2>1, <2>2, <2>3, <2>4, <2>5, <2>6, <2>7, <2>8 DEF TriesCover
<1>5. ASSUME NEW t \in Senders, Push(t) PROVE TriesCover'
  <2>1. /\ pc[t] = "push" /\ slotOf[t] \in Slots
        /\ pc' = [pc EXCEPT ![t] = "idle"]
        /\ queue' = Append(queue, BaseJobPtr(slotOf[t]))
        /\ UNCHANGED <<id, reused, batch, slotOf, sent, try_counter, runPc>>
    BY <1>0, <1>5 DEF Push, Goto
  <2>2. BaseJobPtr(slotOf[t]) \in Entry /\ BaseJobPtr(slotOf[t]).slot = slotOf[t]
    BY <2>1, PtrType DEF BaseJobPtr
  <2>3. /\ Len(queue') = Len(queue) + 1
        /\ \A i \in 1 .. Len(queue) : queue'[i] = queue[i]
        /\ queue'[Len(queue) + 1].slot = slotOf[t]
    BY <1>0, <2>1, <2>2, AppendElements
  <2>4. \A s \in Slots : InQueue(s)' => InQueue(s) \/ s = slotOf[t]
    BY <1>len, <2>3 DEF InQueue
  <2>5. \A s \in Slots : Ref(s)' => Ref(s) \/ s = slotOf[t]
    BY <2>1, <2>4 DEF Ref, InBatch
  <2>6. \A s \in Slots : Current(s)' <=> Current(s)
    BY <2>1 DEF Current
  <2>7. \A u \in Senders, s \in Slots :
          Initialising(u, s)' => Initialising(u, s) /\ pc'[u] = pc[u]
    BY <1>0, <2>1 DEF Initialising
  <2>8. Initialising(t, slotOf[t])
    BY <2>1 DEF Initialising
  <2>9. ASSUME slotOf[t] \notin reused, id[slotOf[t]] # NoMsg
        PROVE  sent[id[slotOf[t]]] = 1 /\ try_counter[slotOf[t]] = 1
    BY <2>1, <2>8, <2>9 DEF TriesCover
  <2>10. slotOf[t] \notin reused => ~Current(slotOf[t])
    <3>1. slotOf[t] \notin reused => ~InBatch(slotOf[t])
      BY <2>1, <2>8 DEF OneRef, Ref
    <3>2. Current(slotOf[t]) => InBatch(slotOf[t])
      <4>1. batch # <<>> => Len(batch) >= 1 /\ Head(batch) = batch[1]
        BY <1>0, TailElements
      <4> QED BY <4>1 DEF Current, InBatch
    <3> QED BY <3>1, <3>2
  <2> QED BY <1>0, <2>1, <2>5, <2>6, <2>7, <2>9, <2>10 DEF TriesCover
<1>17. ASSUME NEW t \in Senders, InitMessage(t) \/ InitMsgId(t) \/ InitCanceled(t) PROVE TriesCover'
  <2>1. /\ pc[t] \in {"message", "msg_id", "uncancel"}
        /\ \E label \in {"msg_id", "uncancel", "arm"} : pc' = [pc EXCEPT ![t] = label]
        /\ UNCHANGED <<id, reused, queue, batch, slotOf, sent, try_counter, runPc>>
    BY <1>17 DEF InitMessage, InitMsgId, InitCanceled, Goto
  <2>2. \A u \in Senders, s \in Slots :
          Initialising(u, s)' => Initialising(u, s) /\ (pc'[u] = "push" => pc[u] = "push")
    BY <1>0, <2>1 DEF Initialising
  <2> QED BY <2>1, <2>2 DEF TriesCover, Ref, InQueue, InBatch, Current
(* do_job of the slot at the head of the batch.                             *)
<1>6. ASSUME batch # <<>>
      PROVE  /\ Head(batch) \in Slots /\ Len(batch) >= 1 /\ Head(batch) = batch[1]
             /\ Ref(Head(batch)) /\ Current(Head(batch))
             /\ \A s \in Slots : Current(s) => s = Head(batch)
  BY <1>0, <1>6, TailElements, HeadType DEF Ref, InBatch, Current
<1>7. CASE DoJobSend
  <2>1. CASE msg[Head(batch)] = NoMsg
    <3>1. UNCHANGED <<triesVars, runPc>>
      BY <1>7, <2>1 DEF DoJobSend, triesVars
    <3> QED BY <3>1 DEF triesVars, TriesCover, Ref, InQueue, InBatch, Current, Initialising
  <2>2. CASE msg[Head(batch)] # NoMsg
    <3> DEFINE h == Head(batch)
    <3>1. /\ h \in Slots /\ msg[h] \in Msgs
          /\ sent' = [sent EXCEPT ![msg[h]] = @ + 1]
          /\ runPc = "batch" /\ runPc' = "sent" /\ batch # <<>>
          /\ UNCHANGED <<id, reused, pc, slotOf, queue, batch, try_counter>>
      BY <1>6, <1>7, <2>2 DEF DoJobSend, TypeOK, udp_send
    <3>0. h \notin reused => msg[h] = id[h] /\ id[h] \in Msgs
      BY <1>0, <3>1 DEF OnePlace
    <3>2. \A s \in Slots : s # h /\ id[s] # NoMsg => sent'[id[s]] = sent[id[s]]
      BY <1>0, <3>1 DEF OnePlace
    <3>3. h \notin reused => sent'[id[h]] = sent[id[h]] + 1 /\ sent[id[h]] \in Nat
      BY <1>0, <3>0, <3>1
    <3>4. \A s \in Slots : (Ref(s)' <=> Ref(s)) /\ (Current(s)' <=> Current(s))
      BY <3>1 DEF Ref, InQueue, InBatch, Current
    <3>5. \A u \in Senders, s \in Slots :
            Initialising(u, s)' => Initialising(u, s) /\ pc'[u] = pc[u]
      BY <3>1 DEF Initialising
    <3>6. Ref(h) /\ Current(h) /\ \A s \in Slots : Current(s) => s = h
      BY <1>6, <3>1
    <3>7. h \notin reused => \A u \in Senders : ~Initialising(u, h)
      BY <3>1, <3>6 DEF OneRef
    <3>8. h \notin reused => try_counter[h] <= MaxTry /\ sent[id[h]] <= try_counter[h]
      BY <1>0, <3>0, <3>1, <3>6 DEF TriesCover
    <3>9. try_counter[h] \in Nat
      BY <1>0, <3>1
    <3> HIDE DEF h
    <3> SUFFICES ASSUME NEW s \in Slots \ reused, id[s] # NoMsg
                 PROVE  /\ sent'[id[s]] <= MaxTry + 1
                        /\ \A u \in Senders : Initialising(u, s)' =>
                             sent'[id[s]] = 1 /\ (pc'[u] = "push" => try_counter[s] = 1)
                        /\ Ref(s)' =>
                             /\ try_counter[s] <= MaxTry
                             /\ Current(s)' => sent'[id[s]] <= try_counter[s] + 1
                             /\ ~Current(s)' => sent'[id[s]] <= try_counter[s]
      BY <3>1 DEF TriesCover
    <3>10. CASE s = h
      BY <1>0, <3>3, <3>4, <3>5, <3>6, <3>7, <3>8, <3>9, <3>10
    <3>11. CASE s # h
      BY <3>1, <3>2, <3>4, <3>5, <3>6, <3>11 DEF TriesCover
    <3> QED BY <3>10, <3>11
  <2> QED BY <2>1, <2>2
<1>8. CASE DoJobRetry
  <2> DEFINE h == Head(batch)
  <2>1. /\ h \in Slots /\ batch # <<>> /\ try_counter[h] < MaxTry
        /\ try_counter' = [try_counter EXCEPT ![h] = @ + 1]
        /\ runPc = "sent" /\ runPc' = "push"
        /\ UNCHANGED <<id, reused, pc, slotOf, queue, batch, sent>>
    BY <1>0, <1>6, <1>8 DEF DoJobRetry
  <2>2. \A s \in Slots : (Ref(s)' <=> Ref(s)) /\ (Current(s)' <=> Current(s))
    BY <2>1 DEF Ref, InQueue, InBatch, Current
  <2>3. \A u \in Senders, s \in Slots :
          Initialising(u, s)' => Initialising(u, s) /\ pc'[u] = pc[u]
    BY <2>1 DEF Initialising
  <2>4. Ref(h) /\ Current(h) /\ \A s \in Slots : Current(s) => s = h
    BY <1>6, <2>1
  <2>5. h \notin reused => \A u \in Senders : ~Initialising(u, h)
    BY <2>1, <2>4 DEF OneRef
  <2>6. /\ try_counter[h] \in Nat /\ try_counter'[h] = try_counter[h] + 1
        /\ \A s \in Slots : s # h => try_counter'[s] = try_counter[s]
    BY <1>0, <2>1
  <2> HIDE DEF h
  <2>7. ASSUME NEW s \in Slots \ reused, id[s] # NoMsg
        PROVE  /\ sent[id[s]] \in Nat /\ sent[id[s]] <= MaxTry + 1
               /\ \A u \in Senders : Initialising(u, s)' =>
                    sent[id[s]] = 1 /\ (pc'[u] = "push" => try_counter'[s] = 1)
               /\ Ref(s)' => try_counter'[s] <= MaxTry /\ sent[id[s]] <= try_counter'[s]
    <3>1. sent[id[s]] \in Nat
      BY <1>0, <2>7
    <3>2. CASE s = h
      BY <1>0, <2>1, <2>2, <2>3, <2>4, <2>5, <2>6, <2>7, <3>1, <3>2 DEF TriesCover
    <3>3. CASE s # h
      BY <1>0, <2>1, <2>2, <2>3, <2>4, <2>6, <2>7, <3>1, <3>3 DEF TriesCover
    <3> QED BY <3>2, <3>3
  <2> QED BY <2>1, <2>7 DEF TriesCover
<1>9. CASE DoJobPush
  <2>1. /\ batch # <<>> /\ batch' = Tail(batch) /\ runPc = "push" /\ runPc' = "batch"
        /\ queue' = Append(queue, BaseJobPtr(Head(batch)))
        /\ UNCHANGED <<id, reused, pc, slotOf, sent, try_counter>>
    BY <1>0, <1>9 DEF DoJobPush
  <2>2. BaseJobPtr(Head(batch)) \in Entry /\ BaseJobPtr(Head(batch)).slot = Head(batch)
    BY <1>6, <2>1, PtrType DEF BaseJobPtr
  <2>3. /\ Len(queue') = Len(queue) + 1
        /\ \A i \in 1 .. Len(queue) : queue'[i] = queue[i]
        /\ queue'[Len(queue) + 1].slot = Head(batch)
    BY <1>0, <2>1, <2>2, AppendElements
  <2>4. /\ Len(batch') = Len(batch) - 1 /\ Len(batch) >= 1
        /\ \A i \in 1 .. Len(batch) - 1 : batch'[i] = batch[i + 1]
    BY <1>0, <2>1, TailElements
  <2>5. \A s \in Slots : InQueue(s)' => InQueue(s) \/ s = Head(batch)
    BY <1>len, <2>3 DEF InQueue
  <2>6. \A s \in Slots : InBatch(s)' => InBatch(s)
    BY <1>len, <2>4 DEF InBatch
  <2>7. \A s \in Slots : Ref(s)' => Ref(s)
    BY <1>6, <2>1, <2>5, <2>6 DEF Ref
  <2>8. \A u \in Senders, s \in Slots :
          Initialising(u, s)' => Initialising(u, s) /\ pc'[u] = pc[u]
    BY <2>1 DEF Initialising
  <2> QED BY <2>1, <2>7, <2>8 DEF TriesCover
<1>10. CASE DoJobClear
  <2>1. /\ batch # <<>> /\ batch' = Tail(batch) /\ runPc = "clear" /\ runPc' = "batch"
        /\ UNCHANGED <<id, reused, pc, slotOf, queue, sent, try_counter>>
    BY <1>0, <1>10 DEF DoJobClear
  <2>2. /\ Len(batch') = Len(batch) - 1 /\ Len(batch) >= 1 /\ Head(batch) = batch[1]
        /\ \A i \in 1 .. Len(batch) - 1 : batch'[i] = batch[i + 1]
    BY <1>0, <2>1, TailElements
  <2>3. \A s \in Slots : InBatch(s)' => InBatch(s)
    BY <1>len, <2>2 DEF InBatch
  <2>4. \A s \in Slots : Ref(s)' => Ref(s)
    BY <2>1, <2>3 DEF Ref, InQueue
  <2>5. ASSUME NEW h \in Slots \ reused, h = Head(batch) PROVE ~Ref(h)'
    <3>1. InBatch(h)
      BY <1>len, <2>2, <2>5 DEF InBatch
    <3>2. ~InQueue(h)'
      BY <2>1, <2>5, <3>1 DEF OneRef, InQueue
    <3>3. ASSUME NEW i \in 1 .. Len(batch'), batch'[i] = h PROVE FALSE
      <4>1. i + 1 \in 1 .. Len(batch) /\ batch[i + 1] = h
        BY <1>len, <2>2, <3>3
      <4>2. i + 1 = 1
        BY <1>len, <2>2, <2>5, <4>1 DEF OneRef
      <4> QED BY <1>len, <2>2, <3>3, <4>2
    <3> QED BY <3>2, <3>3 DEF Ref, InBatch
  <2>6. \A u \in Senders, s \in Slots :
          Initialising(u, s)' => Initialising(u, s) /\ pc'[u] = pc[u]
    BY <2>1 DEF Initialising
  <2>7. \A s \in Slots : s # Head(batch) => ~Current(s)
    BY <1>6, <2>1
  <2>8. ASSUME NEW s \in Slots \ reused, id[s] # NoMsg, Ref(s)'
        PROVE  try_counter[s] <= MaxTry /\ sent[id[s]] <= try_counter[s]
    <3>1. s # Head(batch)
      BY <2>5, <2>8
    <3> QED BY <2>1, <2>4, <2>7, <2>8, <3>1 DEF TriesCover
  <2> QED BY <2>1, <2>6, <2>8 DEF TriesCover
<1>11. CASE DrainDue
  <2>1. /\ queue # <<>> /\ queue' = Tail(queue) /\ runPc = "drain" /\ runPc' = "drain"
        /\ batch' = batch \/ batch' = Append(batch, Head(queue).slot)
        /\ UNCHANGED <<id, reused, pc, slotOf, sent, try_counter>>
    BY <1>11 DEF DrainDue, OldestIsDue
  <2>2. /\ Len(queue') = Len(queue) - 1 /\ Len(queue) >= 1 /\ Head(queue) = queue[1]
        /\ \A i \in 1 .. Len(queue) - 1 : queue'[i] = queue[i + 1]
    BY <1>0, <2>1, TailElements
  <2>3. \A s \in Slots : InQueue(s)' => InQueue(s)
    BY <1>len, <2>2 DEF InQueue
  <2>4. Head(queue).slot \in Slots /\ InQueue(Head(queue).slot)
    BY <1>0, <2>1, <2>2, HeadType DEF InQueue
  <2>5. \A s \in Slots : InBatch(s)' => InBatch(s) \/ s = Head(queue).slot
    <3>1. CASE batch' = batch
      BY <3>1 DEF InBatch
    <3>2. CASE batch' = Append(batch, Head(queue).slot)
      <4>1. /\ Len(batch') = Len(batch) + 1
            /\ \A i \in 1 .. Len(batch) : batch'[i] = batch[i]
            /\ batch'[Len(batch) + 1] = Head(queue).slot
        <5>1. batch \in Seq(Slots)
          BY <1>0
        <5> QED BY <2>4, <3>2, <5>1, AppendElements
      <4> QED BY <1>len, <4>1 DEF InBatch
    <3> QED BY <2>1, <3>1, <3>2
  <2>6. \A s \in Slots : Ref(s)' => Ref(s)
    BY <2>3, <2>4, <2>5 DEF Ref
  <2>7. \A u \in Senders, s \in Slots :
          Initialising(u, s)' => Initialising(u, s) /\ pc'[u] = pc[u]
    BY <2>1 DEF Initialising
  <2> QED BY <2>1, <2>6, <2>7 DEF TriesCover
<1>12. CASE Tick
  <2>1. /\ queue' = [i \in 1 .. Len(queue) |-> [queue[i] EXCEPT !.wait = Nearer(@)]]
        /\ UNCHANGED <<id, reused, pc, slotOf, batch, runPc, sent, try_counter>>
    BY <1>12 DEF Tick
  <2>2. \A i \in 1 .. Len(queue) : queue[i] \in Entry
    BY <1>0
  <2>3. \A e \in Entry : [e EXCEPT !.wait = Nearer(@)].slot = e.slot
    BY DEF Entry
  <2>4. Len(queue') = Len(queue)
    BY <1>0, <2>1
  <2>5. \A i \in 1 .. Len(queue) : queue'[i] = [queue[i] EXCEPT !.wait = Nearer(@)]
    BY <2>1
  <2>6. \A s \in Slots : InQueue(s)' <=> InQueue(s)
    <3>1. \A i \in 1 .. Len(queue) : queue'[i].slot = queue[i].slot
      BY <2>2, <2>3, <2>5
    <3> QED BY <2>4, <3>1 DEF InQueue
  <2>7. \A s \in Slots : (Ref(s)' <=> Ref(s)) /\ (Current(s)' <=> Current(s))
    BY <2>1, <2>6 DEF Ref, InBatch, Current
  <2>8. \A u \in Senders, s \in Slots :
          Initialising(u, s)' => Initialising(u, s) /\ pc'[u] = pc[u]
    BY <2>1 DEF Initialising
  <2> QED BY <2>1, <2>7, <2>8 DEF TriesCover
<1>13. ASSUME UNCHANGED triesVars,
              (runPc' = "sent" <=> runPc = "sent") /\ (runPc' = "clear" <=> runPc = "clear")
       PROVE  TriesCover'
  <2>1. UNCHANGED <<id, reused, pc, slotOf, queue, batch, sent, try_counter>>
    BY <1>13 DEF triesVars
  <2>2. \A s \in Slots : (Ref(s)' <=> Ref(s)) /\ (Current(s)' <=> Current(s))
    BY <2>1 DEF Ref, InQueue, InBatch, Current
  <2>3. \A u \in Senders, s \in Slots :
          Initialising(u, s)' => Initialising(u, s) /\ pc'[u] = pc[u]
    BY <2>1 DEF Initialising
  <2> QED BY <1>13, <2>1, <2>2, <2>3 DEF TriesCover
<1>14. ASSUME NEW m \in Msgs, AckReceived(m) PROVE TriesCover'
  BY <1>13, <1>14 DEF AckReceived, triesVars
<1>15. CASE StartDrain \/ EndDrain \/ EndUpdate \/ LeaveSocket \/ UNCHANGED vars
  BY <1>13, <1>15 DEF StartDrain, EndDrain, EndUpdate, LeaveSocket, vars, triesVars
<1>16. CASE DoJobDelete
  <2>1. /\ runPc = "sent" /\ runPc' = "clear" /\ UNCHANGED triesVars
    BY <1>16 DEF DoJobDelete, triesVars
  <2>2. UNCHANGED <<id, reused, pc, slotOf, queue, batch, sent, try_counter>>
    BY <2>1 DEF triesVars
  <2>3. \A s \in Slots : (Ref(s)' <=> Ref(s)) /\ (Current(s)' <=> Current(s))
    BY <2>2 DEF Ref, InQueue, InBatch, Current
  <2>4. \A u \in Senders, s \in Slots :
          Initialising(u, s)' => Initialising(u, s) /\ pc'[u] = pc[u]
    BY <2>2 DEF Initialising
  <2> QED BY <2>1, <2>2, <2>3, <2>4 DEF TriesCover
<1> QED
  BY <1>1, <1>2, <1>3, <1>4, <1>5, <1>7, <1>8, <1>9, <1>10, <1>11, <1>12, <1>14, <1>15, <1>16,
     <1>17 DEF Next, Send, Update

(***************************************************************************)
(* The inductive invariant as a whole.                                     *)
(***************************************************************************)
LEMMA InitIInv == Init => IInv
<1> SUFFICES ASSUME Init PROVE IInv
  OBVIOUS
<1>1. OneRef /\ TriesCover
  BY DEF Init, OneRef, TriesCover, Ref, InQueue, InBatch, Initialising
<1> QED BY <1>1, InitPlaceInv DEF IInv, PlaceInv

LEMMA NextIInv == IInv /\ [Next]_vars => IInv'
  BY NextTypeOK, NextOnePlace, NextFreedIsGone, NextOneRef, NextTriesCover DEF IInv

(* As long as a slot has held one message only, that message is sent once   *)
(* by its caller and at most MaxTry times by do_job.                        *)
THEOREM RetriesBounded == Spec => []RetryBound
<1>1. IInv => RetryBound
  BY DEF IInv, TriesCover, RetryBound
<1> QED BY InitIInv, NextIInv, <1>1, PTL DEF Spec

-----------------------------------------------------------------------------
(***************************************************************************)
(* NoResendAfterAck: an acknowledged message is in cancelled slots only    *)
(* and comes into no other, and what is collected is not cancelled yet.    *)
(***************************************************************************)
AckedIsOff ==
  \A m \in acked \ raced :
    /\ m \notin unsent
    /\ \A t \in Senders : Carried(t) => msgOf[t] # m
    /\ \A s \in Slots : msg[s] = m => s \in Canceled /\ ~BeingFilled(s)

(* The msg_id of a slot is that of a message that is there or nowhere.      *)
NumberPlace ==
  /\ \A t \in Senders : pc[t] = "msg_id" =>
       /\ msgOf[t] \in Msgs \ unsent
       /\ \A u \in Senders : Carried(u) => msgOf[u] # msgOf[t]
       /\ \A s \in Slots : msg[s] = msgOf[t] => s = slotOf[t]
  /\ \A r \in Slots :
       /\ msg_id[r] \notin unsent
       /\ \A u \in Senders : Carried(u) => msgOf[u] # msg_id[r]
       /\ \A s \in Slots : msg[s] = msg_id[r] => s = r \/ msg_id[r] = NoMsg

BatchIsOn ==
  /\ \A i \in 1 .. Len(batch) : msg[batch[i]] \notin silenced \ raced
  /\ runPc \in {"idle", "drain", "batch"} \/ batch # <<>>
  /\ runPc = "idle" => batch = <<>>

SilentInv == PlaceInv /\ NumberPlace /\ AckedIsOff /\ BatchIsOn

LEMMA InitSilentInv == Init => SilentInv
<1> SUFFICES ASSUME Init PROVE SilentInv
  OBVIOUS
<1>1. AckedIsOff /\ BatchIsOn /\ NumberPlace
  BY DEF Init, AckedIsOff, BatchIsOn, NumberPlace, Carried
<1> QED BY <1>1, InitPlaceInv DEF SilentInv

(* What the actions do to the set of cancelled slots.                       *)
LEMMA AckCancels ==
  ASSUME NEW m \in Msgs, AckReceived(m)
  PROVE  \A s \in Slots : s \in Canceled' <=> msg_id[s] = m \/ s \in Canceled
BY Zenon DEF AckReceived, Canceled

LEMMA InitKeeps ==
  ASSUME TypeOK, NEW t \in Senders, InitCanceled(t)
  PROVE  \A s \in Slots : s # slotOf[t] => (s \in Canceled' <=> s \in Canceled)
<1>1. \A s \in Slots : s # slotOf[t] => (is_canceled'[s] <=> is_canceled[s])
  BY Zenon DEF InitCanceled, TypeOK
<1> QED BY <1>1, Zenon DEF Canceled

LEMMA CanceledKept == ASSUME UNCHANGED is_canceled PROVE Canceled' = Canceled
BY DEF Canceled

LEMMA NextNumberPlace == SilentInv /\ [Next]_vars => NumberPlace'
<1> SUFFICES ASSUME SilentInv, [Next]_vars PROVE NumberPlace'
  OBVIOUS
<1> USE DEF jobVars, boxVars, sendVars, runVars
<1>0. /\ TypeOK /\ OnePlace /\ NumberPlace
      /\ pc \in [Senders -> Labels] /\ slotOf \in [Senders -> Slots] /\ msgOf \in [Senders -> Msgs \cup {NoMsg}]
      /\ msg_id \in [Slots -> Msgs \cup {NoMsg}] /\ msg \in [Slots -> Msgs \cup {NoMsg}]
      /\ unsent \subseteq Msgs /\ NoMsg \notin Msgs
  BY DEF SilentInv, PlaceInv, TypeOK, Labels
<1>1. ASSUME NEW t \in Senders, SendFirst(t) PROVE NumberPlace'
  <2>1. PICK n \in unsent : msgOf' = [msgOf EXCEPT ![t] = n] /\ unsent' = unsent \ {n}
    BY <1>1 DEF SendFirst
  <2>2. pc' = [pc EXCEPT ![t] = "reserve"] /\ UNCHANGED <<slotOf, msg, msg_id>>
    BY <1>1 DEF SendFirst, Goto
  <2>3. \A u \in Senders : u # t => pc'[u] = pc[u] /\ msgOf'[u] = msgOf[u] /\ (Carried(u)' <=> Carried(u))
    BY <1>0, <2>1, <2>2 DEF Carried
  <2>4. pc'[t] = "reserve" /\ msgOf'[t] = n
    BY <1>0, <2>1, <2>2
  <2> QED BY <1>0, <2>1, <2>2, <2>3, <2>4 DEF NumberPlace
<1>2. ASSUME NEW t \in Senders, InitMessage(t) PROVE NumberPlace'
  <2> DEFINE h == slotOf[t]
             m == msgOf[t]
  <2>1. Carried(t) /\ h \in Slots /\ pc[t] = "message"
    BY <1>0, <1>2 DEF InitMessage, Carried
  <2>2. /\ m \in Msgs \ unsent
        /\ \A s \in Slots : msg[s] # m
        /\ \A u \in Senders : Carried(u) /\ msgOf[u] = m => u = t
    BY <1>0, <2>1 DEF OnePlace
  <2>3. /\ msg' = [msg EXCEPT ![h] = m]
        /\ pc' = [pc EXCEPT ![t] = "msg_id"]
        /\ UNCHANGED <<unsent, msgOf, slotOf, msg_id>>
    BY <1>2 DEF InitMessage, Goto
  <2>4. /\ msg'[h] = m /\ \A s \in Slots : s # h => msg'[s] = msg[s]
        /\ \A u \in Senders : Carried(u)' => u # t /\ Carried(u)
        /\ \A u \in Senders : u # t => pc'[u] = pc[u]
    BY <1>0, <2>1, <2>3 DEF Carried
  <2>5. \A u \in Senders : pc[u] = "msg_id" => msgOf[u] # m
    BY <1>0, <2>1 DEF NumberPlace
  <2>6. \A r \in Slots : msg_id[r] # m
    BY <1>0, <2>1 DEF NumberPlace
  <2>7. UNCHANGED <<unsent, msgOf, slotOf, msg_id>> /\ h = slotOf[t] /\ m = msgOf[t]
    BY <2>3
  <2> HIDE DEF h, m
  <2>8. ASSUME NEW u \in Senders, pc'[u] = "msg_id"
        PROVE  /\ msgOf[u] \in Msgs \ unsent
               /\ \A v \in Senders : Carried(v)' => msgOf[v] # msgOf[u]
               /\ \A s \in Slots : msg'[s] = msgOf[u] => s = slotOf[u]
    <3>1. CASE u = t
      BY <2>2, <2>4, <2>7, <3>1
    <3>2. CASE u # t
      BY <1>0, <2>4, <2>5, <2>8, <3>2 DEF NumberPlace
    <3> QED BY <3>1, <3>2
  <2>9. ASSUME NEW r \in Slots
        PROVE  /\ \A u \in Senders : Carried(u)' => msgOf[u] # msg_id[r]
               /\ \A s \in Slots : msg'[s] = msg_id[r] => s = r \/ msg_id[r] = NoMsg
    BY <1>0, <2>4, <2>6 DEF NumberPlace
  <2> QED BY <1>0, <2>7, <2>8, <2>9 DEF NumberPlace
<1>3. ASSUME NEW t \in Senders, InitMsgId(t) PROVE NumberPlace'
  <2>1. /\ pc[t] = "msg_id" /\ pc' = [pc EXCEPT ![t] = "uncancel"]
        /\ msg_id' = [msg_id EXCEPT ![slotOf[t]] = msgOf[t]]
        /\ UNCHANGED <<unsent, msgOf, slotOf, msg>>
    BY <1>3 DEF InitMsgId, Goto
  <2>2. \A u \in Senders : (Carried(u)' <=> Carried(u)) /\ (pc'[u] = "msg_id" => pc[u] = "msg_id")
    BY <1>0, <2>1 DEF Carried
  <2>3. msg_id'[slotOf[t]] = msgOf[t] /\ \A s \in Slots : s # slotOf[t] => msg_id'[s] = msg_id[s]
    BY <1>0, <2>1
  <2>4. ASSUME NEW r \in Slots
        PROVE  /\ msg_id'[r] \notin unsent
               /\ \A u \in Senders : Carried(u) => msgOf[u] # msg_id'[r]
               /\ \A s \in Slots : msg[s] = msg_id'[r] => s = r \/ msg_id'[r] = NoMsg
    <3>1. CASE r = slotOf[t]
      BY <1>0, <2>1, <2>3, <3>1 DEF NumberPlace
    <3>2. CASE r # slotOf[t]
      BY <1>0, <2>3, <3>2 DEF NumberPlace
    <3> QED BY <3>1, <3>2
  <2> QED BY <1>0, <2>1, <2>2, <2>4 DEF NumberPlace
<1>4. ASSUME NEW t \in Senders, Reserve(t) \/ InitId(t) \/ InitCanceled(t) \/ Arm(t) \/ Push(t) PROVE NumberPlace'
  <2>1. /\ UNCHANGED <<unsent, msg, msg_id>>
        /\ \A u \in Senders : Carried(u)' => Carried(u) /\ msgOf'[u] = msgOf[u]
        /\ \A u \in Senders : pc'[u] = "msg_id" => pc[u] = "msg_id" /\ msgOf'[u] = msgOf[u] /\ slotOf'[u] = slotOf[u]
    BY <1>0, <1>4 DEF Reserve, get_reserved, InitId, InitCanceled, Arm, Push, Goto, Carried
  <2> QED BY <1>0, <2>1 DEF NumberPlace
<1>5. CASE DoJobClear
  <2>1. UNCHANGED <<unsent, msg_id, pc, msgOf, slotOf>> /\ \A s \in Slots : msg'[s] \in {NoMsg, msg[s]}
    BY <1>0, <1>5 DEF DoJobClear
  <2>2. ASSUME NEW u \in Senders, pc[u] = "msg_id", NEW s \in Slots, msg'[s] = msgOf[u] PROVE s = slotOf[u]
    BY <1>0, <2>1, <2>2 DEF NumberPlace
  <2>3. ASSUME NEW r \in Slots, NEW s \in Slots, msg'[s] = msg_id[r] PROVE s = r \/ msg_id[r] = NoMsg
    BY <1>0, <2>1, <2>3 DEF NumberPlace
  <2>4. \A u \in Senders : Carried(u)' <=> Carried(u)
    BY <2>1 DEF Carried
  <2> QED BY <1>0, <2>1, <2>2, <2>3, <2>4 DEF NumberPlace
<1>6. ASSUME UNCHANGED <<unsent, pc, msgOf, slotOf, msg, msg_id>> PROVE NumberPlace'
  BY <1>0, <1>6 DEF NumberPlace, Carried
<1>7. ASSUME NEW m \in Msgs, AckReceived(m) PROVE NumberPlace'
  BY <1>6, <1>7 DEF AckReceived
<1>8. CASE LeaveSocket \/ StartDrain \/ DrainDue \/ EndDrain \/ DoJobSend \/ DoJobRetry \/ DoJobPush \/ DoJobDelete
             \/ EndUpdate \/ Tick \/ UNCHANGED vars
  BY <1>6, <1>8 DEF LeaveSocket, StartDrain, DrainDue, EndDrain, DoJobSend, DoJobRetry, DoJobPush, DoJobDelete,
                    EndUpdate, Tick, vars
<1> QED BY <1>1, <1>2, <1>3, <1>4, <1>5, <1>7, <1>8 DEF Next, Send, Update

LEMMA NextAckedIsOff == SilentInv /\ [Next]_vars => AckedIsOff'
<1> SUFFICES ASSUME SilentInv, [Next]_vars PROVE AckedIsOff'
  OBVIOUS
<1> USE DEF jobVars, boxVars, sendVars, runVars, ackVars
<1>1. /\ TypeOK /\ OnePlace /\ NumberPlace /\ AckedIsOff
      /\ pc \in [Senders -> Labels] /\ slotOf \in [Senders -> Slots] /\ msgOf \in [Senders -> Msgs \cup {NoMsg}]
      /\ msg_id \in [Slots -> Msgs \cup {NoMsg}] /\ msg \in [Slots -> Msgs \cup {NoMsg}]
      /\ unsent \subseteq Msgs /\ NoMsg \notin Msgs /\ acked \subseteq Msgs
  BY DEF SilentInv, PlaceInv, TypeOK, Labels
<1>2. ASSUME NEW t \in Senders, SendFirst(t) PROVE AckedIsOff'
  <2>1. PICK n \in unsent : msgOf' = [msgOf EXCEPT ![t] = n] /\ unsent' = unsent \ {n}
    BY <1>2 DEF SendFirst
  <2>2. pc' = [pc EXCEPT ![t] = "reserve"] /\ UNCHANGED <<acked, raced, slotOf, msg, is_canceled>>
    BY <1>2 DEF SendFirst, Goto
  <2>3. \A u \in Senders : u # t => pc'[u] = pc[u] /\ msgOf'[u] = msgOf[u] /\ (Carried(u)' <=> Carried(u))
    BY <1>1, <2>1, <2>2 DEF Carried
  <2>4. pc'[t] = "reserve" /\ msgOf'[t] = n
    BY <1>1, <2>1, <2>2
  <2>5. \A s \in Slots : BeingFilled(s)' => BeingFilled(s)
    BY <2>2, <2>3, <2>4 DEF BeingFilled
  <2> QED BY <1>1, <2>1, <2>2, <2>3, <2>4, <2>5, CanceledKept DEF AckedIsOff
<1>3. ASSUME NEW t \in Senders, InitMessage(t) PROVE AckedIsOff'
  <2>1. /\ pc[t] = "message" /\ pc' = [pc EXCEPT ![t] = "msg_id"]
        /\ msg' = [msg EXCEPT ![slotOf[t]] = msgOf[t]]
        /\ UNCHANGED <<acked, raced, unsent, msgOf, slotOf, is_canceled>>
    BY <1>3 DEF InitMessage, Goto
  <2>2. msgOf[t] \notin acked \ raced
    BY <1>1, <2>1 DEF AckedIsOff, Carried
  <2>3. \A u \in Senders : (Carried(u)' => Carried(u)) /\ (u # t => pc'[u] = pc[u])
    BY <1>1, <2>1 DEF Carried
  <2>4. ASSUME NEW m \in acked \ raced, NEW s \in Slots, msg'[s] = m PROVE s \in Canceled' /\ ~BeingFilled(s)'
    <3>1. s # slotOf[t] /\ msg[s] = m
      BY <1>1, <2>1, <2>2, <2>4
    <3>2. BeingFilled(s)' => BeingFilled(s)
      BY <2>1, <2>3, <3>1 DEF BeingFilled
    <3> QED BY <1>1, <2>1, <2>4, <3>1, <3>2, CanceledKept DEF AckedIsOff
  <2> QED BY <1>1, <2>1, <2>3, <2>4 DEF AckedIsOff
<1>4. ASSUME NEW t \in Senders, InitCanceled(t) PROVE AckedIsOff'
  <2>1. /\ pc[t] = "uncancel" /\ pc' = [pc EXCEPT ![t] = "arm"]
        /\ UNCHANGED <<acked, raced, unsent, msgOf, slotOf, msg>>
    BY <1>4 DEF InitCanceled, Goto
  <2>2. \A u \in Senders : (Carried(u)' => Carried(u)) /\ (u # t => pc'[u] = pc[u]) /\ pc'[t] = "arm"
    BY <1>1, <2>1 DEF Carried
  <2>3. BeingFilled(slotOf[t]) /\ \A s \in Slots : BeingFilled(s)' => BeingFilled(s)
    BY <2>1, <2>2 DEF BeingFilled
  <2> QED BY <1>1, <1>4, <2>1, <2>2, <2>3, InitKeeps DEF AckedIsOff
<1>5. ASSUME NEW t \in Senders, Reserve(t) \/ InitId(t) \/ InitMsgId(t) \/ Arm(t) \/ Push(t) PROVE AckedIsOff'
  <2>1. /\ UNCHANGED <<acked, raced, unsent, msg, is_canceled>>
        /\ \A u \in Senders : Carried(u)' => Carried(u) /\ msgOf'[u] = msgOf[u]
        /\ \A u \in Senders : pc'[u] \in {"msg_id", "uncancel"} => pc[u] \in {"msg_id", "uncancel"} /\ slotOf'[u] = slotOf[u]
    BY <1>1, <1>5 DEF Reserve, get_reserved, InitId, InitMsgId, Arm, Push, Goto, Carried
  <2>2. \A s \in Slots : BeingFilled(s)' => BeingFilled(s)
    BY <2>1 DEF BeingFilled
  <2> QED BY <1>1, <2>1, <2>2, CanceledKept DEF AckedIsOff
<1>6. ASSUME NEW m \in Msgs, AckReceived(m) PROVE AckedIsOff'
  <2>1. /\ acked' = IF \E r \in Slots : msg_id[r] = m THEN acked \cup {m} ELSE acked
        /\ raced' = IF \E r \in Slots : msg_id[r] = m /\ BeingFilled(r) THEN raced \cup {m} ELSE raced
        /\ UNCHANGED <<msg, pc, slotOf, msgOf, unsent>>
    BY <1>6, Zenon DEF AckReceived
  <2>2. \A u \in Senders : Carried(u)' <=> Carried(u)
    BY <2>1 DEF Carried
  <2>3. \A s \in Slots : BeingFilled(s)' <=> BeingFilled(s)
    BY <2>1 DEF BeingFilled
  <2>4. ASSUME NEW n \in acked' \ raced', n # m
        PROVE  n \in acked \ raced /\ \A s \in Slots : msg[s] = n => s \in Canceled'
    <3>1. n \in acked \ raced
      BY <2>1, <2>4
    <3> QED BY <1>1, <1>6, <3>1, AckCancels DEF AckedIsOff
  <2>5. ASSUME m \in acked' \ raced'
        PROVE  /\ m \notin unsent /\ \A t \in Senders : Carried(t) => msgOf[t] # m
               /\ \A s \in Slots : msg[s] = m => s \in Canceled' /\ ~BeingFilled(s)
    <3>1. CASE \E r \in Slots : msg_id[r] = m
      <4>1. PICK r \in Slots : msg_id[r] = m
        BY <3>1
      <4>2. ~BeingFilled(r)
        BY <2>1, <2>5, <4>1
      <4>3. \A s \in Slots : msg[s] = m => s = r
        BY <1>1, <4>1 DEF NumberPlace
      <4>4. r \in Canceled'
        BY <1>6, <4>1, AckCancels
      <4> QED BY <1>1, <4>1, <4>2, <4>3, <4>4 DEF NumberPlace
    <3>2. CASE ~\E r \in Slots : msg_id[r] = m
      <4>1. m \in acked \ raced
        BY <2>1, <2>5, <3>2
      <4> QED BY <1>1, <1>6, <4>1, AckCancels DEF AckedIsOff
    <3> QED BY <3>1, <3>2
  <2> QED BY <1>1, <2>1, <2>2, <2>3, <2>4, <2>5 DEF AckedIsOff
<1>7. CASE DoJobClear
  <2>1. UNCHANGED <<acked, raced, unsent, pc, msgOf, slotOf, is_canceled>> /\ \A s \in Slots : msg'[s] \in {NoMsg, msg[s]}
    BY <1>1, <1>7 DEF DoJobClear
  <2>2. \A u \in Senders : Carried(u)' <=> Carried(u)
    BY <2>1 DEF Carried
  <2>3. \A s \in Slots : BeingFilled(s)' <=> BeingFilled(s)
    BY <2>1 DEF BeingFilled
  <2>4. \A m \in acked : m # NoMsg
    BY <1>1
  <2> QED BY <1>1, <2>1, <2>2, <2>3, <2>4, CanceledKept DEF AckedIsOff
<1>8. CASE LeaveSocket \/ StartDrain \/ DrainDue \/ EndDrain \/ DoJobSend \/ DoJobRetry \/ DoJobPush \/ DoJobDelete
             \/ EndUpdate \/ Tick \/ UNCHANGED vars
  <2>1. UNCHANGED <<acked, raced, unsent, msg, is_canceled, pc, msgOf, slotOf>>
    BY <1>8 DEF LeaveSocket, StartDrain, DrainDue, EndDrain, DoJobSend, DoJobRetry, DoJobPush, DoJobDelete,
                EndUpdate, Tick, vars
  <2> QED BY <1>1, <2>1, CanceledKept DEF AckedIsOff, Carried, BeingFilled
<1> QED BY <1>2, <1>3, <1>4, <1>5, <1>6, <1>7, <1>8 DEF Next, Send, Update

LEMMA NextBatchIsOn == SilentInv /\ [Next]_vars => BatchIsOn'
<1> SUFFICES ASSUME SilentInv, [Next]_vars PROVE BatchIsOn'
  OBVIOUS
<1> USE DEF jobVars, boxVars, sendVars, runVars, ackVars
<1>1. TypeOK /\ AckedIsOff /\ BatchIsOn
  BY DEF SilentInv, PlaceInv
<1>2. /\ batch \in Seq(Slots) /\ silenced \subseteq acked /\ acked \subseteq Msgs
      /\ msg \in [Slots -> Msgs \cup {NoMsg}] /\ NoMsg \notin Msgs
      /\ \A i \in 1 .. Len(batch) : batch[i] \in Slots
  BY <1>1 DEF TypeOK
<1>3. ASSUME UNCHANGED <<batch, runPc, silenced, raced, msg>> PROVE BatchIsOn'
  BY <1>1, <1>3 DEF BatchIsOn
<1>4. ASSUME NEW t \in Senders, InitMessage(t) PROVE BatchIsOn'
  <2>1. /\ pc[t] = "message" /\ msg' = [msg EXCEPT ![slotOf[t]] = msgOf[t]]
        /\ UNCHANGED <<batch, runPc, silenced, raced>>
    BY <1>4 DEF InitMessage
  <2>2. msgOf[t] \notin silenced \ raced
    BY <1>1, <1>2, <2>1 DEF AckedIsOff, Carried
  <2>3. \A s \in Slots : msg'[s] \in {msg[s], msgOf[t]}
    BY <1>2, <2>1
  <2> QED BY <1>1, <1>2, <2>1, <2>2, <2>3 DEF BatchIsOn
<1>5. ASSUME NEW t \in Senders,
             SendFirst(t) \/ Reserve(t) \/ InitId(t) \/ InitMsgId(t) \/ InitCanceled(t) \/ Arm(t) \/ Push(t)
      PROVE BatchIsOn'
  BY <1>3, <1>5 DEF SendFirst, Reserve, InitId, InitMsgId, InitCanceled, Arm, Push
<1>6. ASSUME NEW m \in Msgs, AckReceived(m) PROVE BatchIsOn'
  <2>1. UNCHANGED <<batch, runPc, silenced, msg>> /\ raced \subseteq raced'
    BY <1>6, Zenon DEF AckReceived
  <2> QED BY <1>1, <2>1 DEF BatchIsOn
<1>7. CASE StartDrain
  <2>1. batch' = <<>> /\ runPc' = "drain"
    BY <1>1, <1>7 DEF StartDrain, BatchIsOn
  <2> QED BY <2>1 DEF BatchIsOn
<1>8. CASE DrainDue
  <2> DEFINE e == Head(queue)
  <2>1. e \in Entry /\ e.slot \in Slots
    BY <1>1, <1>8, HeadType DEF DrainDue, OldestIsDue
  <2>2. /\ batch' = batch \/ (batch' = Append(batch, e.slot) /\ ~is_canceled[e.slot])
        /\ UNCHANGED <<msg, silenced, raced, runPc>> /\ runPc = "drain"
    <3>1. CASE is_canceled[e.slot] \/ is_changed(e)
      BY <1>8, <3>1 DEF DrainDue
    <3>2. CASE ~(is_canceled[e.slot] \/ is_changed(e))
      BY <1>8, <3>2, Zenon DEF DrainDue, boxVars, jobVars, ackVars
    <3> QED BY <3>1, <3>2
  <2>3. ASSUME ~is_canceled[e.slot] PROVE msg[e.slot] \notin silenced \ raced
    <3>1. e.slot \notin Canceled
      BY <2>3, Zenon DEF Canceled
    <3> QED BY <1>1, <1>2, <2>1, <3>1 DEF AckedIsOff
  <2> HIDE DEF e
  <2>4. CASE batch' = batch
    BY <1>1, <2>2, <2>4 DEF BatchIsOn
  <2>5. CASE batch' = Append(batch, e.slot) /\ msg[e.slot] \notin silenced \ raced
    <3>1. /\ Len(batch') = Len(batch) + 1 /\ Len(batch) \in Nat
          /\ \A i \in 1 .. Len(batch) : batch'[i] = batch[i]
          /\ batch'[Len(batch) + 1] = e.slot
      BY <1>2, <2>1, <2>5, AppendElements
    <3>2. ASSUME NEW i \in 1 .. Len(batch') PROVE msg[batch'[i]] \notin silenced \ raced
      <4>1. i \in 1 .. Len(batch) \/ i = Len(batch) + 1
        BY <3>1
      <4> QED BY <1>1, <2>5, <3>1, <4>1 DEF BatchIsOn
    <3> QED BY <2>2, <3>2 DEF BatchIsOn
  <2> QED BY <2>2, <2>3, <2>4, <2>5
<1>9. CASE EndDrain \/ DoJobSend \/ DoJobRetry \/ DoJobDelete
  <2>1. UNCHANGED <<batch, silenced, raced, msg>> /\ runPc' # "idle"
    BY <1>9 DEF EndDrain, DoJobSend, DoJobRetry, DoJobDelete
  <2>2. runPc' \in {"idle", "drain", "batch"} \/ batch # <<>>
    BY <1>1, <1>9 DEF EndDrain, DoJobSend, DoJobRetry, DoJobDelete, BatchIsOn
  <2> QED BY <1>1, <2>1, <2>2 DEF BatchIsOn
<1>10. CASE DoJobPush \/ DoJobClear
  <2>1. /\ batch # <<>> /\ batch' = Tail(batch) /\ runPc' = "batch"
        /\ UNCHANGED <<silenced, raced>>
    BY <1>1, <1>10 DEF DoJobPush, DoJobClear, BatchIsOn
  <2>2. /\ Len(batch) \in Nat /\ Len(batch') = Len(batch) - 1
        /\ \A i \in 1 .. Len(batch) - 1 : batch'[i] = batch[i + 1]
    BY <1>2, <2>1, TailElements
  <2>3. \A s \in Slots : msg'[s] \in {NoMsg, msg[s]}
    BY <1>2, <1>10 DEF DoJobPush, DoJobClear
  <2>4. ASSUME NEW i \in 1 .. Len(batch') PROVE msg'[batch'[i]] \notin silenced \ raced
    <3>1. i + 1 \in 1 .. Len(batch) /\ batch'[i] = batch[i + 1]
      BY <2>2
    <3>2. msg[batch[i + 1]] \notin silenced \ raced /\ batch[i + 1] \in Slots
      BY <1>1, <1>2, <3>1 DEF BatchIsOn
    <3> QED BY <1>2, <2>3, <3>1, <3>2
  <2> QED BY <2>1, <2>4 DEF BatchIsOn
<1>11. CASE EndUpdate
  BY <1>1, <1>11 DEF EndUpdate, BatchIsOn
<1>12. CASE LeaveSocket \/ Tick \/ UNCHANGED vars
  BY <1>3, <1>12 DEF LeaveSocket, Tick, vars
<1> QED BY <1>4, <1>5, <1>6, <1>7, <1>8, <1>9, <1>10, <1>11, <1>12 DEF Next, Send, Update

LEMMA NextSilentInv == SilentInv /\ [Next]_vars => SilentInv'
  BY NextPlaceInv, NextNumberPlace, NextAckedIsOff, NextBatchIsOn DEF SilentInv

LEMMA SilencedStaysOff ==
  ASSUME SilentInv, [Next]_vars, NEW m \in silenced \ raced
  PROVE  sent'[m] = sent[m]
<1>1. TypeOK /\ OnePlace /\ AckedIsOff /\ BatchIsOn /\ m \in acked \ raced /\ sent \in [Msgs -> Nat] /\ m \in Msgs
  BY DEF SilentInv, PlaceInv, TypeOK
<1>2. ASSUME NEW t \in Senders, SendFirst(t) PROVE sent'[m] = sent[m]
  <2>1. PICK n \in unsent : sent' = [sent EXCEPT ![n] = @ + 1]
    BY <1>2 DEF SendFirst, udp_send
  <2>2. n # m
    BY <1>1 DEF AckedIsOff
  <2> QED BY <1>1, <2>1, <2>2
<1>3. CASE DoJobSend
  <2>1. batch \in Seq(Slots) /\ batch # <<>>
    BY <1>1, <1>3 DEF DoJobSend, TypeOK
  <2>2. Head(batch) \in Slots /\ Head(batch) = batch[1] /\ 1 \in 1 .. Len(batch)
    BY <2>1
  <2>3. msg[Head(batch)] # m
    BY <1>1, <2>2 DEF BatchIsOn
  <2> QED BY <1>1, <1>3, <2>3 DEF DoJobSend, udp_send
<1>4. ASSUME NEW t \in Senders,
             Reserve(t) \/ InitId(t) \/ InitMessage(t) \/ InitMsgId(t) \/ InitCanceled(t) \/ Arm(t) \/ Push(t)
      PROVE  UNCHANGED sent
  BY <1>4 DEF Reserve, InitId, InitMessage, InitMsgId, InitCanceled, Arm, Push
<1>5. ASSUME NEW n \in Msgs, AckReceived(n) PROVE UNCHANGED sent
  BY <1>5 DEF AckReceived
<1>6. CASE StartDrain \/ DrainDue \/ EndDrain \/ DoJobRetry \/ DoJobPush \/ DoJobDelete
           \/ DoJobClear \/ EndUpdate \/ LeaveSocket \/ Tick \/ UNCHANGED vars
  BY <1>6 DEF StartDrain, DrainDue, EndDrain, DoJobRetry, DoJobPush, DoJobDelete,
     DoJobClear, EndUpdate, LeaveSocket, Tick, vars
<1> QED BY <1>2, <1>3, <1>4, <1>5, <1>6 DEF Next, Send, Update

(* A message that was acknowledged before an update collected its jobs, and *)
(* while no thread filled in its slot, is not resent by that update or any  *)
(* later one, for any number of slots and senders (update, do_job).         *)
THEOREM AckedIsSilent == Spec => NoResendAfterAck
<1>1. SilentInv /\ [Next]_vars => [\A m \in silenced \ raced : sent'[m] = sent[m]]_vars
  BY SilencedStaysOff
<1> QED BY InitSilentInv, NextSilentInv, <1>1, PTL DEF Spec, NoResendAfterAck

-----------------------------------------------------------------------------
(***************************************************************************)
(* LossOnlyWhenFull: the io thread handles no ACK between get_reserved and *)
(* init, so that the slot it was given is still cancelled, or none is.     *)
(***************************************************************************)
Vacant == pc[Io] = "init" => slotOf[Io] \in Canceled \/ Canceled = {}

LEMMA NextVacant ==
  ASSUME Senders = {Io}, TypeOK, Vacant, [Next]_vars
  PROVE  Vacant'
<1>1. pc \in [Senders -> Labels] /\ Io \in Senders
      /\ slotOf \in [Senders -> Slots]
  BY DEF TypeOK, Labels
<1>2. CASE SendFirst(Io) \/ InitId(Io) \/ InitMessage(Io) \/ InitMsgId(Io) \/ InitCanceled(Io) \/ Arm(Io) \/ Push(Io)
  BY <1>1, <1>2 DEF SendFirst, InitId, InitMessage, InitMsgId, InitCanceled, Arm, Push, Goto, Vacant
<1>3. CASE Reserve(Io)
  <2>1. UNCHANGED is_canceled /\ get_reserved(Io)
    BY <1>3 DEF Reserve, jobVars
  <2>2. Canceled' = Canceled
    BY <2>1, CanceledKept
  <2>3. Canceled # {} => slotOf'[Io] \in Canceled
    BY <1>1, <2>1 DEF get_reserved
  <2> QED BY <2>2, <2>3 DEF Vacant
<1>4. ASSUME NEW m \in Msgs, AckReceived(m) PROVE Vacant'
  BY <1>4 DEF AckReceived, sendVars, Vacant
<1>5. CASE LeaveSocket \/ Update \/ Tick \/ UNCHANGED vars
  <2>1. UNCHANGED <<pc, slotOf, is_canceled>>
    BY <1>5 DEF Update, StartDrain, DrainDue, EndDrain, DoJobSend, DoJobRetry, DoJobPush, DoJobDelete,
                DoJobClear, EndUpdate, LeaveSocket, Tick, vars, boxVars, jobVars, sendVars
  <2> QED BY <2>1, CanceledKept DEF Vacant
<1> QED BY <1>2, <1>3, <1>4, <1>5 DEF Next, Send

LEMMA VacantSlot ==
  ASSUME Senders = {Io}, TypeOK, Vacant, [Next]_vars,
         NEW s \in Slots, Pending(s), id'[s] # id[s]
  PROVE  Canceled = {}
<1>1. CASE InitId(Io)
  <2>1. s = slotOf[Io] /\ pc[Io] = "init"
    BY <1>1 DEF InitId, TypeOK
  <2>2. s \notin Canceled
    BY Zenon DEF Pending, Canceled
  <2> QED BY <2>1, <2>2 DEF Vacant
<1>2. CASE ~InitId(Io)
  <2>1. UNCHANGED id
    BY <1>2 DEF Next, Send, SendFirst, Reserve, InitMessage, InitMsgId, InitCanceled, Arm, Push, AckReceived, LeaveSocket, Update, StartDrain, DrainDue,
                EndDrain, DoJobSend, DoJobRetry, DoJobPush, DoJobDelete, DoJobClear, EndUpdate, Tick,
                vars, boxVars, jobVars
  <2> QED BY <2>1
<1> QED BY <1>1, <1>2

(* While one thread both sends and handles ACKs, a message loses its slot   *)
(* before it is acknowledged or given up only when no slot was cancelled,   *)
(* for any size of the out_box (get_reserved).                              *)
THEOREM EvictedWhenFull == Senders = {Io} /\ Spec => LossOnlyWhenFull
<1> SUFFICES ASSUME Senders = {Io} PROVE Spec => LossOnlyWhenFull
  OBVIOUS
<1>1. Init => Vacant
  BY DEF Init, Vacant
<1>2. TypeOK /\ Vacant /\ [Next]_vars => Vacant'
  BY NextVacant
<1>3. TypeOK /\ Vacant /\ [Next]_vars
        => [\A s \in Slots : Pending(s) /\ id'[s] # id[s] => Canceled = {}]_vars
  BY VacantSlot
<1> QED BY <1>1, <1>2, <1>3, InitTypeOK, NextTypeOK, PTL DEF Spec, LossOnlyWhenFull
=============================================================================
