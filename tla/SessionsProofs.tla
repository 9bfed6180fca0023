--------------------------- MODULE SessionsProofs ---------------------------
(***************************************************************************)
(* Sessions for any number of users, devices and connections: its types,   *)
(* that a displaced device has to log in again, that its packets do not    *)
(* take the endpoint back, that sessions do not keep a closed connection,  *)
(* that the table ends with the name of the server, and which messages are *)
(* acknowledged but not handled.                                           *)
(***************************************************************************)
EXTENDS Sessions, SequenceTheorems, TLAPS

USE SessionsAssumption DEF SessionsAssumption, Cookies

(* A cookie that device d has, or that is on its way with a packet of d or  *)
(* a reply to d: it was made before, is that of the session only if d       *)
(* logged in since, and is another only if a TCP login displaced d.         *)
Due(d, k) == k < next /\ (k # 0 => d \in IF k = cookie[Owner[d]] THEN current ELSE lapsed)

Known ==
  /\ \A d \in Devices : Due(d, know[d])
  /\ \A p \in wire : Due(p.dev, p.cookie)
  /\ \A r \in replies : Due(r.dev, r.cookie)

IInv == TypeOK /\ Known /\ TcpAlive

(* The conjuncts of TypeOK, by what changes together.                       *)
PortTypes ==
  /\ next \in 1 .. (MaxCookie + 1)
  /\ cookie \in [Users -> 0 .. (next - 1)]
  /\ endpoint \in [Users -> Devices \cup {None}]
  /\ current \subseteq Devices
  /\ lapsed \subseteq Devices

ClientTypes ==
  /\ wire \subseteq Packets
  /\ replies \subseteq Replies
  /\ know \in [Devices -> 0 .. (next - 1)]
  /\ taken \subseteq Devices
  /\ want \in [Devices -> {"msg", "name", "done"}]

TcpTypes ==
  /\ tcp \in [Users -> Conns \cup {None}]
  /\ conn \in [Conns -> {"new", "open", "destroyed"}]
  /\ user_port \in [Conns -> Users \cup {None}]
  /\ adopted \subseteq Users \X Conns

NameTypes ==
  /\ name_changed \in [Users -> 0 .. NameLimit]
  /\ name = name_changed
  /\ naming \in Users \cup {None}
  /\ db_jobs \in Seq(Users)

DbTypes ==
  /\ dbPc \in {"idle", "query", "send", "pop"}
  /\ dbPc # "idle" => db_jobs # <<>>
  /\ ptr \in Conns \cup {None}
  /\ bound \in 0 .. NameLimit
  /\ saved \in [Users -> 0 .. NameLimit]
  /\ rows \subseteq Users
  /\ failed \subseteq Users
  /\ process \in {"up", "crashed"}

LEMMA TypeParts == TypeOK <=> PortTypes /\ ClientTypes /\ TcpTypes /\ NameTypes /\ DbTypes
BY DEF TypeOK, PortTypes, ClientTypes, TcpTypes, NameTypes, DbTypes

LEMMA TypePartsNext == PortTypes' /\ ClientTypes' /\ TcpTypes' /\ NameTypes' /\ DbTypes' => TypeOK'
BY DEF TypeOK, PortTypes, ClientTypes, TcpTypes, NameTypes, DbTypes

LEMMA CarryAdds ==
  ASSUME NEW S, NEW p, NEW max, NEW q \in Carry(S, p, max)
  PROVE  q \subseteq S \cup {p}
BY DEF Carry

LEMMA InitIInv == Init => IInv
<1> SUFFICES ASSUME Init PROVE IInv
  OBVIOUS
<1>1. PortTypes /\ ClientTypes
  BY DEF Init, PortTypes, ClientTypes
<1>2. TcpTypes /\ NameTypes /\ DbTypes
  BY DEF Init, TcpTypes, NameTypes, DbTypes
<1>3. Known /\ TcpAlive
  BY DEF Init, Known, Due, TcpAlive
<1> QED BY <1>1, <1>2, <1>3, TypeParts DEF IInv

(* A login: what a device was due for stays so, with the new cookie or as   *)
(* one that it has displaced.                                               *)
Displaces(u) == lapsed' = lapsed \cup {e \in current : Owner[e] = u}

LEMMA CookieStep ==
  ASSUME PortTypes, NEW d \in Devices,
         \/ UdpCookie(Owner[d], d) /\ lapsed' = lapsed
         \/ NewCookie(Owner[d], d) /\ Displaces(Owner[d])
  PROVE  /\ next' \in 1 .. (MaxCookie + 1) /\ next <= next'
         /\ cookie' \in [Users -> 0 .. (next' - 1)]
         /\ current' \subseteq Devices /\ d \in current' /\ lapsed' \subseteq Devices
         /\ \A e \in Devices : \A k \in Nat : Due(e, k) => Due(e, k)'
<1> DEFINE u == Owner[d]
<1>1. u \in Users /\ cookie[u] \in Nat /\ next \in Nat
  BY DEF PortTypes
<1>2. CASE NewCookie(u, d) /\ ((cookie[u] = 0 /\ lapsed' = lapsed) \/ Displaces(u))
  <2>1. next' = next + 1 /\ next' \in 1 .. (MaxCookie + 1)
    BY <1>2 DEF NewCookie, PortTypes
  <2>2. cookie' \in [Users -> 0 .. (next' - 1)]
    BY <1>1, <1>2, <2>1 DEF NewCookie, PortTypes
  <2>3. current' \subseteq Devices /\ d \in current' /\ lapsed' \subseteq Devices /\ lapsed \subseteq lapsed'
    BY <1>2 DEF NewCookie, PortTypes, Displaces
  <2>4. ASSUME NEW e \in Devices, NEW k \in Nat, Due(e, k)
        PROVE  Due(e, k)'
    <3>1. /\ k < next
          /\ k # 0 /\ k = cookie[Owner[e]] => e \in current
          /\ k # 0 /\ k # cookie[Owner[e]] => e \in lapsed
      BY <2>4 DEF Due
    <3>2. k < next' /\ Owner[e] \in Users
      BY <1>1, <2>1, <3>1
    <3>3. cookie'[Owner[e]] = IF Owner[e] = u THEN next ELSE cookie[Owner[e]]
      BY <1>1, <1>2, <3>2 DEF NewCookie, PortTypes
    <3>4. CASE Owner[e] = u
      <4>1. k # cookie'[Owner[e]]
        BY <1>1, <3>1, <3>3, <3>4
      <4>2. ASSUME k # 0, k = cookie[u] PROVE e \in lapsed'
        <5>1. Displaces(u) /\ e \in current
          BY <1>2, <3>1, <3>4, <4>2
        <5> QED BY <3>4, <5>1 DEF Displaces
      <4>3. k # 0 => e \in lapsed'
        BY <2>3, <3>1, <3>4, <4>2
      <4> QED BY <3>2, <4>1, <4>3 DEF Due
    <3>5. CASE Owner[e] # u
      <4>1. e \in current => e \in current'
        BY <1>2, <3>5 DEF NewCookie
      <4>2. cookie'[Owner[e]] = cookie[Owner[e]]
        BY <3>3, <3>5
      <4> QED BY <2>3, <3>1, <3>2, <4>1, <4>2 DEF Due
    <3> QED BY <3>4, <3>5
  <2> QED BY <1>1, <2>1, <2>2, <2>3, <2>4
<1>3. CASE cookie[u] # 0 /\ current' = current \cup {d} /\ UNCHANGED <<next, cookie, lapsed>>
  BY <1>1, <1>3 DEF PortTypes, Due
<1> QED BY <1>2, <1>3 DEF UdpCookie

-----------------------------------------------------------------------------
(* What the other actions leave alone.                                      *)

LEMMA KnownKept ==
  ASSUME Known, UNCHANGED <<next, cookie, current, lapsed, know>>, wire' \subseteq wire, replies' \subseteq replies
  PROVE  Known'
BY DEF Known, Due

LEMMA TcpKept ==
  ASSUME TcpTypes, TcpAlive, UNCHANGED tcpVars
  PROVE  TcpTypes' /\ TcpAlive'
BY DEF tcpVars, TcpTypes, TcpAlive

LEMMA NameKept ==
  ASSUME NameTypes, DbTypes, UNCHANGED <<nameVars, dbVars, process>>
  PROVE  NameTypes' /\ DbTypes'
BY DEF nameVars, dbVars, NameTypes, DbTypes

LEMMA ClientKept ==
  ASSUME IInv, UNCHANGED <<clientVars, portVars>>
  PROVE  PortTypes' /\ ClientTypes' /\ Known'
<1>1. PortTypes' /\ ClientTypes'
  BY TypeParts DEF IInv, clientVars, portVars, PortTypes, ClientTypes
<1>2. Known'
  BY KnownKept DEF IInv, clientVars, portVars
<1> QED BY <1>1, <1>2

-----------------------------------------------------------------------------
LEMMA DeviceIInv ==
  ASSUME IInv, NEW d \in Devices, NEW type \in {"login", "ping", "msg", "name"}, Transmit(d, type)
  PROVE  IInv'
<1> DEFINE p == [type |-> type, dev |-> d, cookie |-> know[d]]
<1>1. PortTypes /\ ClientTypes /\ TcpTypes /\ NameTypes /\ DbTypes /\ Known /\ TcpAlive
  BY TypeParts DEF IInv
<1>2. know[d] \in 0 .. MaxCookie /\ Due(d, know[d])
  BY <1>1 DEF PortTypes, ClientTypes, Known
<1>3. p \in Packets
  BY <1>2 DEF Packets
<1>4. wire' \subseteq wire \cup {p}
  BY CarryAdds DEF Transmit
<1>5. PortTypes' /\ ClientTypes'
  BY <1>1, <1>3, <1>4 DEF Transmit, PortTypes, ClientTypes, portVars
<1>6. \A q \in wire' : Due(q.dev, q.cookie)
  BY <1>1, <1>2, <1>4 DEF Known
<1>7. Known'
  BY <1>1, <1>6 DEF Known, Due, Transmit, portVars
<1>8. TcpTypes' /\ TcpAlive'
  BY <1>1, TcpKept DEF Transmit
<1>9. NameTypes' /\ DbTypes'
  BY <1>1, NameKept DEF Transmit
<1> QED BY <1>5, <1>7, <1>8, <1>9, TypePartsNext DEF IInv

LEMMA ReplyIInv ==
  ASSUME IInv, NEW r \in replies, Reply(r)
  PROVE  IInv'
<1>1. PortTypes /\ ClientTypes /\ TcpTypes /\ NameTypes /\ DbTypes /\ Known /\ TcpAlive
  BY TypeParts DEF IInv
<1>2. r.dev \in Devices /\ r.cookie \in 0 .. MaxCookie /\ Due(r.dev, r.cookie)
  BY <1>1 DEF ClientTypes, Replies, Known
<1>3. r.cookie \in 0 .. (next - 1)
  BY <1>1, <1>2 DEF Due, PortTypes
<1>4. PortTypes' /\ ClientTypes'
  BY <1>1, <1>2, <1>3 DEF Reply, PortTypes, ClientTypes, portVars
<1>5. \A d \in Devices : Due(d, know'[d])
  BY <1>1, <1>2 DEF Reply, Known, ClientTypes
<1>6. Known'
  BY <1>1, <1>5 DEF Known, Due, Reply, portVars
<1>7. TcpTypes' /\ TcpAlive'
  BY <1>1, TcpKept DEF Reply
<1>8. NameTypes' /\ DbTypes'
  BY <1>1, NameKept DEF Reply
<1> QED BY <1>4, <1>6, <1>7, <1>8, TypePartsNext DEF IInv

-----------------------------------------------------------------------------
(* udp_recive: what its handlers have in common.                            *)
LEMMA ReceiveIInv ==
  ASSUME IInv, NEW p \in wire, NEW r \in Replies, wire' \subseteq wire, replies' \subseteq replies \cup {r},
         Due(r.dev, r.cookie)', UNCHANGED know, UNCHANGED tcpVars,
         UNCHANGED <<next, cookie, current>> \/ UdpCookie(Owner[p.dev], p.dev), UNCHANGED lapsed,
         endpoint' \in [Users -> Devices \cup {None}],
         taken' \subseteq Devices, want' \in [Devices -> {"msg", "name", "done"}]
  PROVE  PortTypes' /\ ClientTypes' /\ Known' /\ TcpTypes' /\ TcpAlive'
<1>1. PortTypes /\ ClientTypes /\ TcpTypes /\ Known /\ TcpAlive
  BY TypeParts DEF IInv
<1>2. p.dev \in Devices
  BY <1>1 DEF ClientTypes, Packets
<1>3. /\ next' \in 1 .. (MaxCookie + 1) /\ next <= next'
      /\ cookie' \in [Users -> 0 .. (next' - 1)]
      /\ current' \subseteq Devices /\ lapsed' \subseteq Devices
      /\ \A e \in Devices : \A k \in Nat : Due(e, k) => Due(e, k)'
  <2>1. CASE UNCHANGED <<next, cookie, current>>
    BY <1>1, <2>1 DEF PortTypes, Due
  <2>2. CASE UdpCookie(Owner[p.dev], p.dev)
    BY <1>1, <1>2, <2>2, CookieStep
  <2> QED BY <2>1, <2>2
<1>4. PortTypes'
  BY <1>3 DEF PortTypes
<1>5. know' \in [Devices -> 0 .. (next' - 1)]
  BY <1>1, <1>3 DEF ClientTypes, PortTypes
<1>6. ClientTypes'
  BY <1>1, <1>5 DEF ClientTypes
<1>7. \A d \in Devices : Due(d, know[d])'
  <2> SUFFICES ASSUME NEW d \in Devices PROVE Due(d, know[d])'
    OBVIOUS
  <2>1. know[d] \in Nat /\ Due(d, know[d])
    BY <1>1 DEF ClientTypes, PortTypes, Known
  <2> QED BY <1>3, <2>1 DEF Due
<1>8. \A q \in wire' : Due(q.dev, q.cookie)'
  <2> SUFFICES ASSUME NEW q \in wire PROVE Due(q.dev, q.cookie)'
    OBVIOUS
  <2>1. q.dev \in Devices /\ q.cookie \in Nat /\ Due(q.dev, q.cookie)
    BY <1>1 DEF ClientTypes, Packets, Known
  <2> QED BY <1>3, <2>1
<1>9. \A q \in replies' : Due(q.dev, q.cookie)'
  <2> SUFFICES ASSUME NEW q \in replies PROVE Due(q.dev, q.cookie)'
    OBVIOUS
  <2>1. q.dev \in Devices /\ q.cookie \in Nat /\ Due(q.dev, q.cookie)
    BY <1>1 DEF ClientTypes, Replies, Known
  <2> QED BY <1>3, <2>1
<1>10. Known'
  BY <1>7, <1>8, <1>9 DEF Known
<1>11. TcpTypes' /\ TcpAlive'
  BY <1>1, TcpKept
<1> QED BY <1>4, <1>6, <1>10, <1>11

LEMMA NoReply ==
  ASSUME IInv, NEW p \in wire
  PROVE  [type |-> "retry", dev |-> p.dev, cookie |-> 0] \in Replies /\ p.dev \in Devices /\ Due(p.dev, 0)
<1>1. PortTypes /\ ClientTypes
  BY TypeParts DEF IInv
<1> QED BY <1>1 DEF Replies, ClientTypes, Packets, Due, PortTypes

LEMMA UdpLoginIInv ==
  ASSUME IInv, NEW p \in wire, UdpLogin(p)
  PROVE  IInv'
<1> DEFINE u == Owner[p.dev]
<1>1. PortTypes /\ ClientTypes /\ TcpTypes /\ NameTypes /\ DbTypes /\ Known
  BY TypeParts DEF IInv
<1>2. p.dev \in Devices /\ u \in Users
  BY <1>1 DEF ClientTypes, Packets
<1>3. UdpCookie(u, p.dev) /\ UNCHANGED lapsed
  BY DEF UdpLogin
<1>4. /\ next' \in 1 .. (MaxCookie + 1)
      /\ cookie' \in [Users -> 0 .. (next' - 1)]
      /\ p.dev \in current'
  BY <1>1, <1>2, <1>3, CookieStep
<1>5. PICK k \in 0 .. (next' - 1) : k = cookie'[u]
  BY <1>2, <1>4
<1> DEFINE r == [type |-> "login", dev |-> p.dev, cookie |-> k]
<1>6. r \in Replies /\ r.dev = p.dev /\ r.cookie = k
  BY <1>2, <1>4, <1>5 DEF Replies
<1>7. Due(r.dev, r.cookie)'
  BY <1>4, <1>5, <1>6 DEF Due
<1>8. replies' \subseteq replies \cup {r} /\ wire' \subseteq wire
  BY <1>5, CarryAdds DEF UdpLogin
<1>9. endpoint' \in [Users -> Devices \cup {None}]
  BY <1>1, <1>2 DEF UdpLogin, PortTypes
<1>10. UNCHANGED know /\ UNCHANGED tcpVars /\ taken' \subseteq Devices /\ want' \in [Devices -> {"msg", "name", "done"}]
  BY <1>1 DEF UdpLogin, ClientTypes
<1>11. PortTypes' /\ ClientTypes' /\ Known' /\ TcpTypes' /\ TcpAlive'
  BY <1>3, <1>6, <1>7, <1>8, <1>9, <1>10, ReceiveIInv
<1>12. NameTypes' /\ DbTypes'
  BY <1>1, NameKept DEF UdpLogin
<1> QED BY <1>11, <1>12, TypePartsNext DEF IInv

LEMMA PingIInv ==
  ASSUME IInv, NEW p \in wire, Ping(p)
  PROVE  IInv'
<1> DEFINE r == [type |-> "retry", dev |-> p.dev, cookie |-> 0]
<1>1. PortTypes /\ ClientTypes /\ TcpTypes /\ NameTypes /\ DbTypes
  BY TypeParts DEF IInv
<1>2. r \in Replies /\ r.dev \in Devices /\ r.cookie = 0
  BY NoReply
<1>3. UNCHANGED <<next, cookie, current, lapsed>> /\ Due(r.dev, r.cookie)'
  BY <1>1, <1>2 DEF Ping, Due, PortTypes
<1>4. endpoint' \in [Users -> Devices \cup {None}]
  BY <1>1, <1>2 DEF Ping, PortTypes
<1>5. wire' \subseteq wire /\ replies' \subseteq replies \cup {r} /\ UNCHANGED know /\ UNCHANGED tcpVars
  BY DEF Ping
<1>6. taken' \subseteq Devices /\ want' \in [Devices -> {"msg", "name", "done"}]
  BY <1>1 DEF Ping, ClientTypes
<1>7. PortTypes' /\ ClientTypes' /\ Known' /\ TcpTypes' /\ TcpAlive'
  BY <1>2, <1>3, <1>4, <1>5, <1>6, ReceiveIInv
<1>8. NameTypes' /\ DbTypes'
  BY <1>1, NameKept DEF Ping
<1> QED BY <1>7, <1>8, TypePartsNext DEF IInv

LEMMA RefuseIInv ==
  ASSUME IInv, NEW p \in wire, Refuse(p)
  PROVE  IInv'
<1> DEFINE r == [type |-> "retry", dev |-> p.dev, cookie |-> 0]
<1>1. PortTypes /\ ClientTypes /\ TcpTypes /\ NameTypes /\ DbTypes
  BY TypeParts DEF IInv
<1>2. r \in Replies /\ r.dev \in Devices /\ r.cookie = 0
  BY NoReply
<1>3. UNCHANGED <<next, cookie, current, lapsed>> /\ Due(r.dev, r.cookie)'
  BY <1>1, <1>2 DEF Refuse, portVars, Due, PortTypes
<1>4. endpoint' \in [Users -> Devices \cup {None}]
  BY <1>1 DEF Refuse, portVars, PortTypes
<1>5. wire' \subseteq wire /\ replies' \subseteq replies \cup {r} /\ UNCHANGED know /\ UNCHANGED tcpVars
  BY CarryAdds DEF Refuse
<1>6. taken' \subseteq Devices /\ want' \in [Devices -> {"msg", "name", "done"}]
  BY <1>1, <1>2 DEF Refuse, Acknowledge, ClientTypes
<1>7. PortTypes' /\ ClientTypes' /\ Known' /\ TcpTypes' /\ TcpAlive'
  BY <1>2, <1>3, <1>4, <1>5, <1>6, ReceiveIInv
<1>8. NameTypes' /\ DbTypes'
  BY <1>1, NameKept DEF Refuse
<1> QED BY <1>7, <1>8, TypePartsNext DEF IInv

LEMMA MessageIInv ==
  ASSUME IInv, NEW p \in wire, Message(p)
  PROVE  IInv'
<1> DEFINE u == Owner[p.dev]
           r == [type |-> "retry", dev |-> p.dev, cookie |-> 0]
<1>1. PortTypes /\ ClientTypes /\ TcpTypes /\ NameTypes /\ DbTypes
  BY TypeParts DEF IInv
<1>2. r \in Replies /\ r.dev \in Devices /\ r.cookie = 0 /\ u \in Users /\ p.dev \in Devices
  BY NoReply
<1>3. UNCHANGED <<next, cookie, current, lapsed>> /\ Due(r.dev, r.cookie)'
  BY <1>1, <1>2 DEF Message, Due, PortTypes
<1>4. endpoint' \in [Users -> Devices \cup {None}]
  BY <1>1, <1>2 DEF Message, PortTypes
<1>5. wire' \subseteq wire /\ replies' \subseteq replies \cup {r} /\ UNCHANGED know /\ UNCHANGED tcpVars
  BY DEF Message
<1>6. taken' \subseteq Devices /\ want' \in [Devices -> {"msg", "name", "done"}]
  BY <1>1, <1>2 DEF Message, Acknowledge, ClientTypes
<1>7. PortTypes' /\ ClientTypes' /\ Known' /\ TcpTypes' /\ TcpAlive'
  BY <1>2, <1>3, <1>4, <1>5, <1>6, ReceiveIInv
<1>8. NameTypes'
  <2>1. CASE UNCHANGED <<name_changed, name, naming>>
    BY <1>1, <2>1 DEF Message, NameTypes
  <2>2. CASE /\ name_changed[u] < NameLimit
             /\ name_changed' = [name_changed EXCEPT ![u] = @ + 1]
             /\ name' = [name EXCEPT ![u] = @ + 1]
             /\ naming' = u
    <3>1. name_changed[u] + 1 \in 0 .. NameLimit
      BY <1>1, <1>2, <2>2 DEF NameTypes
    <3>2. name_changed' \in [Users -> 0 .. NameLimit]
      BY <1>1, <2>2, <3>1 DEF NameTypes
    <3> QED BY <1>1, <1>2, <2>2, <3>2 DEF Message, NameTypes
  <2> QED BY <2>1, <2>2 DEF Message
<1>9. DbTypes'
  BY <1>1 DEF Message, dbVars, DbTypes
<1> QED BY <1>7, <1>8, <1>9, TypePartsNext DEF IInv

-----------------------------------------------------------------------------
LEMMA OpenConnIInv ==
  ASSUME IInv, NEW c \in Conns, OpenConn(c)
  PROVE  IInv'
<1>1. TcpTypes /\ NameTypes /\ DbTypes /\ TcpAlive
  BY TypeParts DEF IInv
<1>2. TcpTypes'
  BY <1>1 DEF OpenConn, TcpTypes
<1>3. TcpAlive'
  BY <1>1 DEF OpenConn, TcpTypes, TcpAlive
<1>4. PortTypes' /\ ClientTypes' /\ Known'
  BY ClientKept DEF OpenConn
<1>5. NameTypes' /\ DbTypes'
  BY <1>1, NameKept DEF OpenConn
<1> QED BY <1>2, <1>3, <1>4, <1>5, TypePartsNext DEF IInv

LEMMA TcpLoginIInv ==
  ASSUME IInv, NEW c \in Conns, NEW d \in Devices, TcpLogin(c, d)
  PROVE  IInv'
<1> DEFINE u == Owner[d]
<1>1. PortTypes /\ ClientTypes /\ TcpTypes /\ NameTypes /\ DbTypes /\ Known /\ TcpAlive
  BY TypeParts DEF IInv
<1>2. u \in Users /\ NewCookie(u, d) /\ Displaces(u)
  BY DEF TcpLogin, Displaces
<1>3. /\ next' \in 1 .. (MaxCookie + 1) /\ next <= next'
      /\ cookie' \in [Users -> 0 .. (next' - 1)]
      /\ current' \subseteq Devices /\ d \in current' /\ lapsed' \subseteq Devices
      /\ \A e \in Devices : \A k \in Nat : Due(e, k) => Due(e, k)'
  BY <1>1, <1>2, CookieStep
<1>4. PICK k \in 0 .. (next' - 1) : k = cookie'[u]
  BY <1>2, <1>3
<1> DEFINE r == [type |-> "login", dev |-> d, cookie |-> k]
<1>5. r \in Replies /\ r.dev = d /\ r.cookie = k
  BY <1>3, <1>4 DEF Replies
<1>6. replies' \subseteq replies \cup {r} /\ UNCHANGED <<wire, know, want, taken, endpoint>>
  BY <1>4, CarryAdds DEF TcpLogin
<1>7. PortTypes'
  BY <1>1, <1>3, <1>6 DEF PortTypes
<1>8. know' \in [Devices -> 0 .. (next' - 1)]
  BY <1>1, <1>3, <1>6 DEF ClientTypes, PortTypes
<1>9. ClientTypes'
  BY <1>1, <1>5, <1>6, <1>8 DEF ClientTypes
<1>10. \A e \in Devices : Due(e, know[e])'
  <2> SUFFICES ASSUME NEW e \in Devices PROVE Due(e, know[e])'
    OBVIOUS
  <2>1. know[e] \in Nat /\ Due(e, know[e])
    BY <1>1 DEF ClientTypes, PortTypes, Known
  <2> QED BY <1>3, <1>6, <2>1 DEF Due
<1>11. \A q \in wire' : Due(q.dev, q.cookie)'
  <2> SUFFICES ASSUME NEW q \in wire PROVE Due(q.dev, q.cookie)'
    BY <1>6
  <2>1. q.dev \in Devices /\ q.cookie \in Nat /\ Due(q.dev, q.cookie)
    BY <1>1 DEF ClientTypes, Packets, Known
  <2> QED BY <1>3, <2>1
<1>12. \A q \in replies' : Due(q.dev, q.cookie)'
  <2> SUFFICES ASSUME NEW q \in replies \cup {r} PROVE Due(q.dev, q.cookie)'
    BY <1>6
  <2>1. CASE q = r
    BY <1>3, <1>4, <1>5, <2>1 DEF Due
  <2>2. CASE q \in replies
    <3>1. q.dev \in Devices /\ q.cookie \in Nat /\ Due(q.dev, q.cookie)
      BY <1>1, <2>2 DEF ClientTypes, Replies, Known
    <3> QED BY <1>3, <3>1
  <2> QED BY <2>1, <2>2
<1>13. Known'
  BY <1>10, <1>11, <1>12 DEF Known
<1>14. TcpTypes'
  BY <1>1, <1>2 DEF TcpLogin, TcpTypes
<1>15. TcpAlive'
  BY <1>1, <1>2 DEF TcpLogin, TcpTypes, TcpAlive
<1>16. NameTypes' /\ DbTypes'
  BY <1>1, NameKept DEF TcpLogin
<1> QED BY <1>7, <1>9, <1>13, <1>14, <1>15, <1>16, TypePartsNext DEF IInv

LEMMA TcpMsgIInv ==
  ASSUME IInv, NEW c \in Conns, NEW d \in Devices, TcpMsg(c, d)
  PROVE  IInv'
<1>1. TcpTypes /\ NameTypes /\ DbTypes /\ TcpAlive /\ Owner[d] \in Users
  BY TypeParts DEF IInv
<1>2. TcpTypes'
  BY <1>1 DEF TcpMsg, TcpTypes
<1>3. TcpAlive'
  BY <1>1 DEF TcpMsg, TcpTypes, TcpAlive
<1>4. PortTypes' /\ ClientTypes' /\ Known'
  BY ClientKept DEF TcpMsg
<1>5. NameTypes' /\ DbTypes'
  BY <1>1, NameKept DEF TcpMsg
<1> QED BY <1>2, <1>3, <1>4, <1>5, TypePartsNext DEF IInv

LEMMA CloseIInv ==
  ASSUME IInv, NEW c \in Conns, Close(c)
  PROVE  IInv'
<1>1. TcpTypes /\ NameTypes /\ DbTypes /\ TcpAlive
  BY TypeParts DEF IInv
<1>2. user_port[c] \in Users \cup {None}
  BY <1>1 DEF TcpTypes
<1>3. tcp' \in [Users -> Conns \cup {None}]
  BY <1>1, <1>2 DEF Close, TcpTypes
<1>4. TcpTypes'
  BY <1>1, <1>3 DEF Close, TcpTypes
<1>5. TcpAlive'
  BY <1>1, <1>2 DEF Close, TcpTypes, TcpAlive
<1>6. PortTypes' /\ ClientTypes' /\ Known'
  BY ClientKept DEF Close
<1>7. NameTypes' /\ DbTypes'
  BY <1>1, NameKept DEF Close
<1> QED BY <1>4, <1>5, <1>6, <1>7, TypePartsNext DEF IInv

-----------------------------------------------------------------------------
LEMMA AppendOne ==
  ASSUME NEW S, NEW q \in Seq(S), NEW e \in S
  PROVE  Append(q, e) \in Seq(S) /\ Append(q, e) # <<>>
OBVIOUS

LEMMA HeadTail ==
  ASSUME NEW S, NEW q \in Seq(S), q # <<>>
  PROVE  Head(q) \in S /\ Tail(q) \in Seq(S)
OBVIOUS

LEMMA PushNameJobIInv == IInv /\ PushNameJob => IInv'
<1> SUFFICES ASSUME IInv, PushNameJob PROVE IInv'
  OBVIOUS
<1>1. TcpTypes /\ NameTypes /\ DbTypes /\ TcpAlive
  BY TypeParts DEF IInv
<1>2. naming \in Users /\ db_jobs \in Seq(Users)
  BY <1>1 DEF PushNameJob, NameTypes
<1>3. db_jobs' \in Seq(Users) /\ db_jobs' # <<>>
  BY <1>2, AppendOne DEF PushNameJob
<1>4. NameTypes'
  BY <1>1, <1>3 DEF PushNameJob, NameTypes
<1>5. DbTypes'
  BY <1>1, <1>3 DEF PushNameJob, dbVars, DbTypes
<1>6. PortTypes' /\ ClientTypes' /\ Known'
  BY ClientKept DEF PushNameJob
<1>7. TcpTypes' /\ TcpAlive'
  BY <1>1, TcpKept DEF PushNameJob
<1> QED BY <1>4, <1>5, <1>6, <1>7, TypePartsNext DEF IInv

LEMMA NameJobIInv == IInv /\ NameJob => IInv'
<1> SUFFICES ASSUME IInv, NameJob PROVE IInv'
  OBVIOUS
<1>1. TcpTypes /\ NameTypes /\ DbTypes /\ TcpAlive
  BY TypeParts DEF IInv
<1>2. PortTypes' /\ ClientTypes' /\ Known'
  BY ClientKept DEF NameJob, BindName, SaveName, SendName, PopJob
<1>3. TcpTypes' /\ TcpAlive'
  BY <1>1, TcpKept DEF NameJob, BindName, SaveName, SendName, PopJob
<1>4. db_jobs # <<>> => Head(db_jobs) \in Users /\ Tail(db_jobs) \in Seq(Users)
  BY <1>1, HeadTail DEF NameTypes
<1>5. NameTypes' /\ DbTypes'
  <2>1. CASE BindName
    <3>1. bound' \in 0 .. NameLimit
      BY <1>1, <1>4, <2>1 DEF BindName, NameTypes
    <3>2. /\ UNCHANGED <<name_changed, name, naming, db_jobs, ptr, saved, rows, failed, process>>
          /\ dbPc' = "query" /\ db_jobs # <<>>
      BY <2>1 DEF BindName, nameVars
    <3> QED BY <1>1, <3>1, <3>2 DEF NameTypes, DbTypes
  <2>2. CASE SaveName
    <3>1. Head(db_jobs) \in Users /\ tcp[Head(db_jobs)] \in Conns \cup {None}
      BY <1>1, <1>4, <2>2 DEF SaveName, TcpTypes, DbTypes
    <3>2. saved' \in [Users -> 0 .. NameLimit] /\ failed' \subseteq Users /\ ptr' \in Conns \cup {None}
      BY <1>1, <2>2, <3>1 DEF SaveName, DbTypes
    <3>3. dbPc' \in {"send", "pop"} /\ db_jobs # <<>>
      BY <1>1, <2>2 DEF SaveName, DbTypes
    <3>4. UNCHANGED <<name_changed, name, naming, db_jobs, bound, rows, process>>
      BY <2>2 DEF SaveName, nameVars
    <3>5. NameTypes'
      BY <1>1, <3>4 DEF NameTypes
    <3> QED BY <1>1, <3>2, <3>3, <3>4, <3>5 DEF DbTypes
  <2>3. CASE SendName
    BY <1>1, <2>3 DEF SendName, nameVars, NameTypes, DbTypes
  <2>4. CASE PopJob
    BY <1>1, <1>4, <2>4 DEF PopJob, NameTypes, DbTypes
  <2> QED BY <2>1, <2>2, <2>3, <2>4, NameJob DEF NameJob
<1> QED BY <1>2, <1>3, <1>5, TypePartsNext DEF IInv

LEMMA NextIInv == IInv /\ [Next]_vars => IInv'
<1> SUFFICES ASSUME IInv, [Next]_vars PROVE IInv'
  OBVIOUS
<1>1. ASSUME NEW p \in wire, Receive(p) PROVE IInv'
  BY <1>1, UdpLoginIInv, PingIInv, RefuseIInv, MessageIInv DEF Receive
<1>2. ASSUME NEW c \in Conns, OpenConn(c) \/ Close(c) PROVE IInv'
  BY <1>2, OpenConnIInv, CloseIInv
<1>3. ASSUME NEW c \in Conns, NEW d \in Devices, TcpLogin(c, d) \/ TcpMsg(c, d) PROVE IInv'
  BY <1>3, TcpLoginIInv, TcpMsgIInv
<1>4. ASSUME NEW d \in Devices, Device(d) PROVE IInv'
  <2>1. want[d] # "done" => want[d] \in {"login", "ping", "msg", "name"}
    BY TypeParts DEF IInv, ClientTypes
  <2> QED BY <1>4, <2>1, DeviceIInv DEF Device, SendLogin, SendPing, SendWant
<1>5. ASSUME NEW r \in replies, Reply(r) PROVE IInv'
  BY <1>5, ReplyIInv
<1>6. CASE UNCHANGED vars
  <2>1. TcpTypes /\ NameTypes /\ DbTypes /\ TcpAlive
    BY TypeParts DEF IInv
  <2>2. PortTypes' /\ ClientTypes' /\ Known'
    BY <1>6, ClientKept DEF vars
  <2>3. TcpTypes' /\ TcpAlive' /\ NameTypes' /\ DbTypes'
    BY <1>6, <2>1, TcpKept, NameKept DEF vars
  <2> QED BY <2>2, <2>3, TypePartsNext DEF IInv
<1> QED BY <1>1, <1>2, <1>3, <1>4, <1>5, <1>6, PushNameJobIInv, NameJobIInv DEF Next, Io, do_receive

LEMMA SpecIInv == Spec => []IInv
BY InitIInv, NextIInv, PTL DEF Spec

-----------------------------------------------------------------------------
(* The state of Sessions has its types.                                     *)
THEOREM TypeCorrect == Spec => []TypeOK
BY SpecIInv, PTL DEF IInv

(* No session keeps a closed connection that a login over it has set (~Tcp- *)
(* Connection clears it), unless another user logged in over the same one.  *)
THEOREM ClosedIsForgotten == Spec => []TcpAlive
BY SpecIInv, PTL DEF IInv

(* A device that a TCP login displaces has to log in again (tcp_recive,     *)
(* udp_recive), however packets and replies are lost, delayed and repeated. *)
THEOREM DisplacedAgain == Spec => []DisplacedLogsIn
<1>1. IInv => DisplacedLogsIn
  BY DEF IInv, Known, Due, DisplacedLogsIn
<1> QED BY <1>1, SpecIInv, PTL

(* Late packets of a displaced device do not move the user's endpoint       *)
(* (udp_recive).                                                            *)
THEOREM EndpointStays == Spec => EndpointMoves
<1> DEFINE Moves == \A u \in Users : endpoint'[u] # endpoint[u] => endpoint'[u] \in current'
<1>1. ASSUME IInv, Next PROVE Moves
  <2>1. PortTypes /\ ClientTypes
    BY <1>1, TypeParts DEF IInv
  <2>2. ASSUME NEW p \in wire, Receive(p) PROVE Moves
    <3>1. p.dev \in Devices /\ Owner[p.dev] \in Users /\ Due(p.dev, p.cookie)
      BY <1>1, <2>1 DEF IInv, Known, ClientTypes, Packets
    <3>2. CASE UdpLogin(p)
      <4>1. p.dev \in current'
        BY <2>1, <3>1, <3>2, CookieStep DEF UdpLogin
      <4> QED BY <2>1, <3>1, <3>2, <4>1 DEF UdpLogin, PortTypes
    <3>3. CASE Ping(p)
      BY <2>1, <3>1, <3>3 DEF Ping, PortTypes, Due
    <3>4. CASE Refuse(p)
      BY <3>4 DEF Refuse, portVars
    <3>5. CASE Message(p)
      BY <2>1, <3>1, <3>5 DEF Message, Accepted, PortTypes, Due
    <3> QED BY <2>2, <3>2, <3>3, <3>4, <3>5 DEF Receive
  <2>3. ASSUME NEW c \in Conns, NEW d \in Devices, TcpLogin(c, d) \/ TcpMsg(c, d) PROVE Moves
    BY <2>3 DEF TcpLogin, TcpMsg, portVars
  <2>4. ASSUME NEW c \in Conns, OpenConn(c) \/ Close(c) PROVE Moves
    BY <2>4 DEF OpenConn, Close, portVars
  <2>5. ASSUME NameJob \/ PushNameJob PROVE Moves
    BY <2>5 DEF NameJob, PushNameJob, BindName, SaveName, SendName, PopJob, portVars
  <2>6. ASSUME NEW d \in Devices, Device(d) PROVE Moves
    BY <2>6 DEF Device, SendLogin, SendPing, SendWant, Transmit, portVars
  <2>7. ASSUME NEW r \in replies, Reply(r) PROVE Moves
    BY <2>7 DEF Reply, portVars
  <2> QED BY <1>1, <2>2, <2>3, <2>4, <2>5, <2>6, <2>7 DEF Next, Io, do_receive
<1>2. IInv /\ [Next]_vars => [Moves]_vars
  BY <1>1
<1> QED BY <1>2, SpecIInv, PTL DEF Spec, EndpointMoves

-----------------------------------------------------------------------------
(* NameSaved.  The name of a user is still to be saved by a job that has    *)
(* not bound it yet (Later, or at the head before BindName), or by the one  *)
(* whose query holds it; or it has been saved, or the query failed or finds *)
(* no row, and no query that runs can put an older name in its place.       *)
Head1(u) == db_jobs # <<>> /\ db_jobs[1] = u

Later(u) == naming = u \/ \E i \in 2 .. Len(db_jobs) : db_jobs[i] = u

Settled(u) == (u \in failed \/ u \notin rows \/ saved[u] = name[u]) /\ ~(dbPc = "query" /\ Head1(u))

Saves(u) ==
  \/ Later(u)
  \/ Head1(u) /\ dbPc = "idle"
  \/ Head1(u) /\ dbPc = "query" /\ bound = name[u]
  \/ Settled(u)

Saving == \A u \in Users : Saves(u)

LEMMA InitSaving == Init => Saving
BY DEF Init, Saving, Saves, Settled, Head1

(* A job that is pushed is at the head of an idle thread, or behind it.     *)
LEMMA PushSaving == ASSUME NameTypes, DbTypes, Saving, PushNameJob PROVE Saving'
<1> SUFFICES ASSUME NEW u \in Users PROVE Saves(u)'
  BY DEF Saving
<1>1. /\ db_jobs \in Seq(Users) /\ naming \in Users
      /\ db_jobs' = Append(db_jobs, naming)
      /\ UNCHANGED <<name, dbPc, bound, saved, rows, failed>>
  BY DEF PushNameJob, NameTypes, nameVars, dbVars
<1>2. /\ Len(db_jobs') = Len(db_jobs) + 1 /\ Len(db_jobs) \in Nat
      /\ \A i \in 1 .. Len(db_jobs) : db_jobs'[i] = db_jobs[i]
      /\ db_jobs'[Len(db_jobs) + 1] = naming
      /\ (db_jobs = <<>> <=> Len(db_jobs) = 0) /\ db_jobs' # <<>>
  BY <1>1
<1>3. CASE naming = u
  <2>1. CASE db_jobs = <<>>
    BY <1>1, <1>2, <1>3, <2>1 DEF Saves, Head1, DbTypes
  <2>2. CASE db_jobs # <<>>
    BY <1>2, <1>3, <2>2 DEF Saves, Later
  <2> QED BY <2>1, <2>2
<1>4. CASE naming # u
  <2>1. Head1(u)' <=> Head1(u)
    <3>1. CASE db_jobs = <<>>
      BY <1>2, <1>4, <3>1 DEF Head1
    <3>2. CASE db_jobs # <<>>
      BY <1>2, <3>2 DEF Head1
    <3> QED BY <3>1, <3>2
  <2>2. Later(u) => Later(u)'
    BY <1>2, <1>4 DEF Later
  <2> QED BY <1>1, <2>1, <2>2 DEF Saving, Saves, Settled
<1> QED BY <1>3, <1>4

(* A job that is done leaves the one behind it at the head.                 *)
LEMMA PopSaving == ASSUME NameTypes, DbTypes, Saving, PopJob PROVE Saving'
<1> SUFFICES ASSUME NEW u \in Users PROVE Saves(u)'
  BY DEF Saving
<1>1. /\ db_jobs \in Seq(Users) /\ db_jobs # <<>>
      /\ db_jobs' = Tail(db_jobs) /\ dbPc = "pop" /\ dbPc' = "idle"
      /\ UNCHANGED <<name, naming, saved, rows, failed>>
  BY DEF PopJob, NameTypes, DbTypes
<1>2. /\ Len(db_jobs) \in Nat /\ db_jobs' \in Seq(Users)
      /\ Len(db_jobs') = Len(db_jobs) - 1
      /\ \A i \in 1 .. Len(db_jobs') : db_jobs'[i] = db_jobs[i + 1]
  BY <1>1, HeadTailProperties, LenProperties
<1>3. CASE Settled(u)
  BY <1>1, <1>3 DEF Saves, Settled
<1>4. CASE naming = u
  BY <1>1, <1>4 DEF Saves, Later
<1>5. ASSUME NEW i \in 2 .. Len(db_jobs), db_jobs[i] = u PROVE Saves(u)'
  <2>1. i - 1 \in 1 .. Len(db_jobs') /\ db_jobs'[i - 1] = u
    BY <1>2, <1>5
  <2>2. CASE i = 2
    <3>1. 1 \in 1 .. Len(db_jobs') /\ db_jobs'[1] = u
      BY <2>1, <2>2
    <3>2. db_jobs' # <<>>
      BY <1>2, <3>1, EmptySeq
    <3> QED BY <1>1, <3>1, <3>2 DEF Saves, Head1
  <2>3. CASE i # 2
    BY <1>1, <1>2, <2>1, <2>3 DEF Saves, Later
  <2> QED BY <2>2, <2>3
<1> QED BY <1>1, <1>3, <1>4, <1>5 DEF Saving, Saves, Later

(* The query takes the name as it is; what it saves is that or older.       *)
LEMMA QuerySaving == ASSUME NameTypes, DbTypes, Saving, BindName \/ SaveName \/ SendName PROVE Saving'
<1> SUFFICES ASSUME NEW u \in Users PROVE Saves(u)'
  BY DEF Saving
<1>1. /\ UNCHANGED <<naming, db_jobs, name, rows>>
      /\ (Later(u)' <=> Later(u)) /\ (Head1(u)' <=> Head1(u))
  BY DEF BindName, SaveName, SendName, nameVars, Later, Head1
<1>2. db_jobs # <<>> => Head(db_jobs) = db_jobs[1] /\ db_jobs[1] \in Users
  BY DEF NameTypes
<1>3. CASE BindName
  BY <1>1, <1>2, <1>3 DEF BindName, Saving, Saves, Settled, Head1
<1>4. CASE SaveName
  <2>1. db_jobs # <<>>
    BY <1>4 DEF SaveName, DbTypes
  <2>2. dbPc = "query" /\ dbPc' \in {"pop", "send"} /\ bound' = bound
    BY <1>4 DEF SaveName
  <2>3. \/ /\ saved' = IF db_jobs[1] \in rows THEN [saved EXCEPT ![db_jobs[1]] = bound] ELSE saved
           /\ failed' = failed \ {db_jobs[1]}
        \/ saved' = saved /\ failed' = failed \cup {db_jobs[1]}
    BY <1>2, <1>4, <2>1 DEF SaveName
  <2>4. CASE db_jobs[1] = u
    BY <1>1, <2>1, <2>2, <2>3, <2>4 DEF Saving, Saves, Settled, Head1, DbTypes
  <2>5. CASE db_jobs[1] # u
    BY <1>1, <1>2, <2>1, <2>2, <2>3, <2>5 DEF Saving, Saves, Settled, Head1, DbTypes
  <2> QED BY <2>4, <2>5
<1>5. CASE SendName
  BY <1>1, <1>5 DEF SendName, Saving, Saves, Settled
<1> QED BY <1>3, <1>4, <1>5

(* A rename hands its user to a job that is pushed next.                    *)
LEMMA MessageSaving ==
  ASSUME NameTypes, DbTypes, Saving, naming = None, NEW p, p.dev \in Devices, Message(p)
  PROVE  Saving'
<1> SUFFICES ASSUME NEW u \in Users PROVE Saves(u)'
  BY DEF Saving
<1>1. /\ UNCHANGED <<db_jobs, dbPc, bound, saved, rows, failed>>
      /\ (Head1(u)' <=> Head1(u)) /\ Owner[p.dev] \in Users
  BY DEF Message, dbVars, Head1
<1>2. CASE UNCHANGED <<name, naming>>
  BY <1>1, <1>2 DEF Saving, Saves, Later, Settled
<1>3. CASE name' = [name EXCEPT ![Owner[p.dev]] = @ + 1] /\ naming' = Owner[p.dev]
  <2>1. CASE Owner[p.dev] = u
    BY <1>3, <2>1 DEF Saves, Later
  <2>2. CASE Owner[p.dev] # u
    <3>1. name'[u] = name[u] /\ (Later(u) => Later(u)')
      BY <1>1, <1>3, <2>2 DEF NameTypes, Later
    <3> QED BY <1>1, <3>1 DEF Saving, Saves, Settled
  <2> QED BY <2>1, <2>2
<1> QED BY <1>2, <1>3 DEF Message

LEMMA NextSaving == IInv /\ Saving /\ [Next]_vars => Saving'
<1> SUFFICES ASSUME IInv, Saving, [Next]_vars PROVE Saving'
  OBVIOUS
<1>1. NameTypes /\ DbTypes /\ ClientTypes
  BY TypeParts DEF IInv
<1>2. ASSUME naming = None, NEW p \in wire, Message(p) PROVE Saving'
  <2>1. p.dev \in Devices
    BY <1>1 DEF ClientTypes, Packets
  <2> QED BY <1>1, <1>2, <2>1, MessageSaving
<1>3. CASE PushNameJob
  BY <1>1, <1>3, PushSaving
<1>4. CASE NameJob
  BY <1>1, <1>4, PopSaving, QuerySaving DEF NameJob
<1>5. ASSUME UNCHANGED <<name, naming, db_jobs, dbPc, bound, saved, rows, failed>> PROVE Saving'
  BY <1>5 DEF Saving, Saves, Later, Head1, Settled
<1>6. ASSUME NEW p \in wire, UdpLogin(p) \/ Ping(p) \/ Refuse(p) PROVE Saving'
  BY <1>5, <1>6 DEF UdpLogin, Ping, Refuse, nameVars, dbVars
<1>7. ASSUME NEW c \in Conns, NEW d \in Devices, TcpLogin(c, d) \/ TcpMsg(c, d) PROVE Saving'
  BY <1>5, <1>7 DEF TcpLogin, TcpMsg, nameVars, dbVars
<1>8. ASSUME NEW c \in Conns, OpenConn(c) \/ Close(c) PROVE Saving'
  BY <1>5, <1>8 DEF OpenConn, Close, nameVars, dbVars
<1>9. ASSUME NEW d \in Devices, Device(d) PROVE Saving'
  BY <1>5, <1>9 DEF Device, SendLogin, SendPing, SendWant, Transmit, nameVars, dbVars
<1>10. ASSUME NEW r \in replies, Reply(r) PROVE Saving'
  BY <1>5, <1>10 DEF Reply, nameVars, dbVars
<1>11. CASE UNCHANGED vars
  BY <1>5, <1>11 DEF vars, nameVars, dbVars
<1>12. ASSUME naming = None, do_receive PROVE Saving'
  BY <1>2, <1>6, <1>12 DEF do_receive, Receive
<1> QED BY <1>3, <1>4, <1>7, <1>8, <1>9, <1>10, <1>11, <1>12 DEF Next, Io

(* The table ends with the name that the server has for every user with a   *)
(* row in it, for any number of users and renames, although the io thread   *)
(* renames while the db thread saves (change_dispaly_name,                  *)
(* ChangeNameJob::do_job).                                                  *)
THEOREM NameIsSaved == Spec => []NameSaved
<1>1. IInv /\ Saving => NameSaved
  <2> SUFFICES ASSUME IInv, Saving, NEW u \in rows,
                      naming # u, \A i \in DOMAIN db_jobs : db_jobs[i] # u, u \notin failed
               PROVE  saved[u] = name[u]
    BY DEF NameSaved
  <2>1. db_jobs \in Seq(Users) /\ u \in Users
    BY TypeParts DEF IInv, NameTypes, DbTypes
  <2>2. ~Head1(u) /\ ~Later(u)
    BY <2>1 DEF Head1, Later
  <2> QED BY <2>1, <2>2 DEF Saving, Saves, Settled
<1> QED BY SpecIInv, InitSaving, NextSaving, <1>1, PTL DEF Spec

-----------------------------------------------------------------------------
(* AckedIsHandled.  A device sends messages with a cookie only, so that one *)
(* that is refused has a cookie that a TCP login has replaced.              *)
Handled == AckedIsHandled /\ \A p \in wire : p.type \in {"msg", "name"} => p.cookie # 0

LEMMA InitHandled == Init => Handled
BY DEF Init, Handled, AckedIsHandled

LEMMA HandledKept ==
  ASSUME Handled, wire' \subseteq wire, want' = want, taken' = taken, lapsed \subseteq lapsed'
  PROVE  Handled'
BY DEF Handled, AckedIsHandled

(* A message that is acknowledged is handled, or refused.                   *)
LEMMA AckHandled ==
  ASSUME IInv, Handled, NEW p \in wire, Refuse(p) \/ Message(p)
  PROVE  Handled'
<1>1. PortTypes /\ ClientTypes /\ Due(p.dev, p.cookie) /\ p.dev \in Devices /\ Owner[p.dev] \in Users
  BY TypeParts DEF IInv, Known, ClientTypes, Packets
<1>2. wire' \subseteq wire /\ Acknowledge(p.dev) /\ lapsed' = lapsed /\ p.cookie # 0
  BY DEF Refuse, Message, portVars, Handled
<1>3. taken \subseteq taken' /\ p.dev \in taken' \cup lapsed
  <2>1. CASE Refuse(p)
    BY <1>1, <1>2, <2>1 DEF Refuse, Accepted, Due
  <2>2. CASE Message(p)
    BY <2>2 DEF Message
  <2> QED BY <2>1, <2>2
<1>4. \A d \in Devices : d # p.dev => want'[d] = want[d]
  BY <1>1, <1>2 DEF Acknowledge, ClientTypes
<1>5. AckedIsHandled'
  BY <1>2, <1>3, <1>4 DEF Handled, AckedIsHandled
<1> QED BY <1>2, <1>5 DEF Handled

LEMMA SendHandled ==
  ASSUME IInv, Handled, NEW d \in Devices, Device(d)
  PROVE  Handled'
<1>1. UNCHANGED <<want, taken, lapsed>>
  BY DEF Device, SendLogin, SendPing, SendWant, Transmit, portVars
<1>2. PICK type \in {"login", "ping", "msg", "name", "done"} :
        Transmit(d, type) /\ (type \in {"msg", "name"} => know[d] # 0)
  BY TypeParts DEF IInv, ClientTypes, Device, SendLogin, SendPing, SendWant
<1>3. wire' \subseteq wire \cup {[type |-> type, dev |-> d, cookie |-> know[d]]}
  BY <1>2, CarryAdds DEF Transmit
<1>4. \A p \in wire' : p.type \in {"msg", "name"} => p.cookie # 0
  BY <1>2, <1>3 DEF Handled
<1>5. AckedIsHandled'
  BY <1>1 DEF Handled, AckedIsHandled
<1> QED BY <1>4, <1>5 DEF Handled

LEMMA NextHandled == IInv /\ Handled /\ [Next]_vars => Handled'
<1> SUFFICES ASSUME IInv, Handled, [Next]_vars PROVE Handled'
  OBVIOUS
<1>1. ASSUME NEW p \in wire, UdpLogin(p) \/ Ping(p) PROVE Handled'
  BY <1>1, HandledKept DEF UdpLogin, Ping
<1>2. ASSUME NEW p \in wire, Receive(p) PROVE Handled'
  BY <1>1, <1>2, AckHandled DEF Receive
<1>3. ASSUME NEW c \in Conns, NEW d \in Devices, TcpLogin(c, d) \/ TcpMsg(c, d) PROVE Handled'
  BY <1>3, HandledKept DEF TcpLogin, TcpMsg, clientVars, portVars
<1>4. ASSUME NEW c \in Conns, OpenConn(c) \/ Close(c) PROVE Handled'
  BY <1>4, HandledKept DEF OpenConn, Close, clientVars, portVars
<1>5. CASE PushNameJob \/ NameJob
  BY <1>5, HandledKept DEF PushNameJob, NameJob, BindName, SaveName, SendName, PopJob, clientVars, portVars
<1>6. ASSUME NEW d \in Devices, Device(d) PROVE Handled'
  BY <1>6, SendHandled
<1>7. ASSUME NEW r \in replies, Reply(r) PROVE Handled'
  BY <1>7, HandledKept DEF Reply, portVars
<1>8. CASE UNCHANGED vars
  BY <1>8, HandledKept DEF vars, clientVars, portVars
<1> QED BY <1>2, <1>3, <1>4, <1>5, <1>6, <1>7, <1>8 DEF Next, Io, do_receive

(* A message that is acknowledged but never handled is one of a device that *)
(* a TCP login displaced (udp_recive), for any number of devices, cookies   *)
(* and packets on their way.                                                *)
THEOREM AckedAndHandled == Spec => []AckedIsHandled
<1>1. Handled => AckedIsHandled
  BY DEF Handled
<1> QED BY SpecIInv, InitHandled, NextHandled, <1>1, PTL DEF Spec
=============================================================================
