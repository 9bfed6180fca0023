------------------------------ MODULE Sessions ------------------------------
(***************************************************************************)
(* The sessions of users.  A user plays on several devices that share one  *)
(* UserPort.  A device logs in over UDP, which hands it the cookie of the  *)
(* session, or over TCP, which makes a new cookie and so displaces the     *)
(* other devices until they log in again.  The io thread handles packets   *)
(* and TCP connections; the db thread saves new names and reports over the *)
(* TCP connection that the UserPort points to.                             *)
(*                                                                         *)
(* Cookies are numbers, made in order: get_random_long_long does not       *)
(* repeat.  Passwords are right.  UDP loses, delays and reorders packets;  *)
(* a device that gets no answer sends again, which duplicates them.        *)
(***************************************************************************)
EXTENDS Integers, Sequences, FiniteSets

CONSTANTS
  Users,
  Devices,
  Owner,        (* the user of each device                                 *)
  Conns,        (* the TCP connections that are ever opened                *)
  None,         (* no device, user or connection                           *)
  NameLimit,    (* renames of a user: 3                                    *)
  Wants,        (* what each device has to send: a "msg" or a "name"       *)
  MaxCookie,    (* cookies that are ever made (bound)                      *)
  MaxWire,      (* packets on their way to the server (bound)              *)
  MaxReplies    (* packets on their way to the devices (bound)             *)

ASSUME SessionsAssumption ==
  /\ Owner \in [Devices -> Users]
  /\ None \notin Users \cup Devices \cup Conns
  /\ NameLimit \in Nat
  /\ Wants \in [Devices -> {"msg", "name"}]
  /\ MaxCookie \in Nat
  /\ MaxWire \in Nat \ {0} /\ MaxReplies \in Nat \ {0}

Cookies == 1 .. MaxCookie

VARIABLES
  next,         (* the next cookie                                         *)
  cookie,       (* UserPort::cookie of each user, 0 without a UserPort     *)
  endpoint,     (* UserPort::udp_end_point                                 *)
  tcp,          (* UserPort::tcp_connection                                *)
  conn,         (* whether a connection is "new", "open" or "destroyed"    *)
  user_port,    (* TcpConnection::user_port                                *)
  name_changed, (* UserData::name_changed                                  *)
  name,         (* UserData::display_name: which rename made it            *)
  naming,       (* the user in change_dispaly_name, whose job is not       *)
                (*   pushed yet                                            *)
  db_jobs,      (* the users of the ChangeNameJobs, oldest first           *)
  dbPc,         (* where the db thread is in the first of them             *)
  ptr,          (* the connection that UserPort::tcp_send has checked      *)
  bound,        (* the name in the query of the first job                  *)
  saved,        (* the name that the player table holds                    *)
  rows,         (* the users that have a row of their id in it             *)
  wire,         (* packets on their way to the server                      *)
  replies,      (* packets on their way to the devices                     *)
  know,         (* the cookie that a device sends, 0: it must log in       *)
  want,         (* "name" or "msg": what a device sends until an ACK tells *)
                (*   it that the server has it, "done"                     *)
  taken,        (* devices whose message the server has handled            *)
  current,      (* devices that logged in since the last new cookie of     *)
                (*   their user (history)                                  *)
  lapsed,       (* devices that had logged in when a TCP login replaced    *)
                (*   the cookie of their session (history)                 *)
  adopted,      (* <<user, connection>>: tcp was set by a MSG (history)    *)
  failed,       (* users whose last name was not saved (history)           *)
  process       (* "up", or "crashed" by a destroyed connection            *)

clientVars == <<wire, replies, know, want, taken>>
tcpVars    == <<tcp, conn, user_port, adopted>>
nameVars   == <<name_changed, name, naming, db_jobs>>
dbVars     == <<dbPc, ptr, bound, saved, rows, failed>>
portVars   == <<next, cookie, endpoint, current, lapsed>>
vars       == <<clientVars, tcpVars, nameVars, dbVars, portVars, process>>

Packets == [type : {"login", "ping", "msg", "name"}, dev : Devices, cookie : 0 .. MaxCookie]
Replies == [type : {"login", "retry"}, dev : Devices, cookie : 0 .. MaxCookie]

(* A user whose INSERT was refused, or whose row was loaded under id 0, has *)
(* no row that an UPDATE by id finds.                                       *)
Init ==
  /\ next = 1
  /\ cookie = [u \in Users |-> 0]
  /\ endpoint = [u \in Users |-> None]
  /\ tcp = [u \in Users |-> None]
  /\ conn = [c \in Conns |-> "new"]
  /\ user_port = [c \in Conns |-> None]
  /\ name_changed = [u \in Users |-> 0]
  /\ name = [u \in Users |-> 0]
  /\ naming = None
  /\ db_jobs = <<>>
  /\ dbPc = "idle"
  /\ ptr = None
  /\ bound = 0
  /\ saved = [u \in Users |-> 0]
  /\ rows \in SUBSET Users
  /\ wire = {}
  /\ replies = {}
  /\ know = [d \in Devices |-> 0]
  /\ want = Wants
  /\ taken = {}
  /\ current = {}
  /\ lapsed = {}
  /\ adopted = {}
  /\ failed = {}
  /\ process = "up"

-----------------------------------------------------------------------------
(* A packet is lost, or joins those on their way, of which one is lost if   *)
(* they are too many.                                                       *)
Carry(sent, p, max) ==
  {q \in {sent, sent \cup {p}} \cup {(sent \ {r}) \cup {p} : r \in sent} : Cardinality(q) <= max}

(* The devices: what the client must do for the server's replies to make    *)
(* sense.                                                                   *)

Transmit(d, type) ==
  /\ wire' \in Carry(wire, [type |-> type, dev |-> d, cookie |-> know[d]], MaxWire)
  /\ UNCHANGED <<replies, know, want, taken, tcpVars, nameVars, dbVars, portVars, process>>

SendLogin(d) == know[d] = 0 /\ Transmit(d, "login")
SendPing(d)  == know[d] # 0 /\ Transmit(d, "ping")
SendWant(d)  == know[d] # 0 /\ want[d] # "done" /\ Transmit(d, want[d])

(* LoginResponse and RETRY_LOGIN.                                           *)
Reply(r) ==
  /\ replies' = replies \ {r}
  /\ know' = [know EXCEPT ![r.dev] = r.cookie]
  /\ UNCHANGED <<wire, want, taken, tcpVars, nameVars, dbVars, portVars, process>>

-----------------------------------------------------------------------------
(* udp_recive.                                                              *)

(* Seeded fault: a session that has a cookie keeps it.                      *)
NewCookieFault(u, d) ==
  /\ next \in Cookies
  /\ IF cookie[u] = 0 THEN cookie' = [cookie EXCEPT ![u] = next] /\ next' = next + 1 ELSE UNCHANGED <<cookie, next>>
  /\ current' = {e \in current : Owner[e] # u} \cup {d}

(* A new cookie for u: the device that made it is the only current one.     *)
NewCookie(u, d) ==
  /\ next \in Cookies
  /\ cookie' = [cookie EXCEPT ![u] = next]
  /\ next' = next + 1
  /\ current' = {e \in current : Owner[e] # u} \cup {d}

(* Seeded fault: a login makes a new cookie here too, of which there is no  *)
(* end.                                                                     *)
UdpCookieFault(u, d) ==
  /\ cookie' = [cookie EXCEPT ![u] = IF @ = MaxCookie THEN 1 ELSE @ + 1]
  /\ current' = {e \in current : Owner[e] # u} \cup {d}
  /\ UNCHANGED next

UdpCookie(u, d) ==
  \/ cookie[u] = 0 /\ NewCookie(u, d)
  \/ cookie[u] # 0 /\ current' = current \cup {d} /\ UNCHANGED <<next, cookie>>

UdpLogin(p) ==
  LET d == p.dev  u == Owner[p.dev] IN
  /\ p.type = "login"
  /\ UdpCookie(u, d)
  /\ endpoint' = [endpoint EXCEPT ![u] = d]
  /\ replies' \in Carry(replies, [type |-> "login", dev |-> d, cookie |-> cookie'[u]], MaxReplies)
  /\ wire' = wire \ {p}
  /\ UNCHANGED <<lapsed, know, want, taken, tcpVars, nameVars, dbVars, process>>

(* A ping is answered in any case; it moves the endpoint if its cookie is   *)
(* that of the session.                                                     *)
Ping(p) ==
  LET u == Owner[p.dev] IN
  /\ p.type = "ping"
  /\ endpoint' = IF cookie[u] # 0 /\ p.cookie = cookie[u] THEN [endpoint EXCEPT ![u] = p.dev] ELSE endpoint
  /\ wire' = wire \ {p}
  /\ UNCHANGED <<replies, know, want, taken, tcpVars, nameVars, dbVars, next, cookie, current, lapsed, process>>

Accepted(p) == cookie[Owner[p.dev]] # 0 /\ p.cookie = cookie[Owner[p.dev]]

(* The ACK goes out before the cookie is looked at; it may be lost.         *)
Acknowledge(d) == want' \in {want, [want EXCEPT ![d] = "done"]}

(* Seeded fault: the endpoint is set before the cookie is looked at.        *)
RefuseFault(p) ==
  /\ p.type \in {"msg", "name"}
  /\ ~Accepted(p)
  /\ Acknowledge(p.dev)
  /\ endpoint' = [endpoint EXCEPT ![Owner[p.dev]] = p.dev]
  /\ replies' \in Carry(replies, [type |-> "retry", dev |-> p.dev, cookie |-> 0], MaxReplies)
  /\ wire' = wire \ {p}
  /\ UNCHANGED <<know, taken, tcpVars, nameVars, dbVars, next, cookie, current, lapsed, process>>

(* No session, or another cookie: RETRY_LOGIN, and the message that was     *)
(* acknowledged is dropped.                                                 *)
Refuse(p) ==
  /\ p.type \in {"msg", "name"}
  /\ ~Accepted(p)
  /\ Acknowledge(p.dev)
  /\ replies' \in Carry(replies, [type |-> "retry", dev |-> p.dev, cookie |-> 0], MaxReplies)
  /\ wire' = wire \ {p}
  /\ UNCHANGED <<know, taken, tcpVars, nameVars, dbVars, portVars, process>>

(* A message of the session.  One that comes again is ignored if the ring   *)
(* msg_ids has not forgotten it.                                            *)
Message(p) ==
  LET d == p.dev  u == Owner[p.dev] IN
  /\ p.type \in {"msg", "name"}
  /\ Accepted(p)
  /\ endpoint' = [endpoint EXCEPT ![u] = d]
  /\ Acknowledge(d)
  /\ wire' = wire \ {p}
  /\ taken' = taken \cup {d}
  /\ \/ d \in taken /\ UNCHANGED <<name_changed, name, naming>>
     \/ IF p.type = "name" /\ name_changed[u] < NameLimit
        THEN /\ name_changed' = [name_changed EXCEPT ![u] = @ + 1]
             /\ name' = [name EXCEPT ![u] = @ + 1]
             /\ naming' = u
        ELSE UNCHANGED <<name_changed, name, naming>>
  /\ UNCHANGED <<replies, know, tcpVars, db_jobs, dbVars, next, cookie, current, lapsed, process>>

(* The end of change_dispaly_name.                                          *)
PushNameJob ==
  /\ naming # None
  /\ db_jobs' = Append(db_jobs, naming)
  /\ naming' = None
  /\ UNCHANGED <<name_changed, name, clientVars, tcpVars, dbVars, portVars, process>>

-----------------------------------------------------------------------------
(* TcpConnection and tcp_recive.                                            *)

OpenConn(c) ==
  /\ conn[c] = "new"
  /\ conn' = [conn EXCEPT ![c] = "open"]
  /\ UNCHANGED <<tcp, user_port, adopted, clientVars, nameVars, dbVars, portVars, process>>

TcpLogin(c, d) ==
  LET u == Owner[d] IN
  /\ conn[c] = "open"
  /\ NewCookie(u, d)
  /\ lapsed' = lapsed \cup {e \in current : Owner[e] = u}
  /\ tcp' = [tcp EXCEPT ![u] = c]
  /\ user_port' = [user_port EXCEPT ![c] = u]
  /\ adopted' = adopted \ {<<u, c>>}
  /\ replies' \in Carry(replies, [type |-> "login", dev |-> d, cookie |-> cookie'[u]], MaxReplies)
  /\ UNCHANGED <<conn, endpoint, wire, know, want, taken, nameVars, dbVars, process>>

(* A MSG on a connection without a UserPort.  The connection is not told of *)
(* the UserPort that now points to it.                                      *)
TcpMsg(c, d) ==
  LET u == Owner[d] IN
  /\ conn[c] = "open"
  /\ user_port[c] = None
  /\ cookie[u] # 0 /\ know[d] = cookie[u]
  /\ tcp' = [tcp EXCEPT ![u] = c]
  /\ adopted' = adopted \cup {<<u, c>>}
  /\ UNCHANGED <<conn, user_port, clientVars, nameVars, dbVars, portVars, process>>

(* Seeded fault: the UserPort is not told.                                  *)
CloseFault(c) ==
  /\ conn[c] = "open"
  /\ conn' = [conn EXCEPT ![c] = "destroyed"]
  /\ UNCHANGED <<tcp, user_port, adopted, clientVars, nameVars, dbVars, portVars, process>>

(* The last handler of a connection ends: ~TcpConnection, tcp_disconnect.   *)
Close(c) ==
  LET u == user_port[c] IN
  /\ conn[c] = "open"
  /\ conn' = [conn EXCEPT ![c] = "destroyed"]
  /\ tcp' = IF u # None /\ tcp[u] = c THEN [tcp EXCEPT ![u] = None] ELSE tcp
  /\ UNCHANGED <<user_port, adopted, clientVars, nameVars, dbVars, portVars, process>>

-----------------------------------------------------------------------------
(* The db thread: ChangeNameJob::do_job.                                    *)

(* change_display_name takes the name as it is now ...                      *)
BindName ==
  /\ dbPc = "idle"
  /\ db_jobs # <<>>
  /\ bound' = name[Head(db_jobs)]
  /\ dbPc' = "query"
  /\ UNCHANGED <<ptr, saved, rows, failed, clientVars, tcpVars, nameVars, portVars, process>>

(* ... and saves it if the query succeeds, which it does as well when no    *)
(* row has the user's id.                                                   *)
SaveName ==
  /\ dbPc = "query"
  /\ LET u == Head(db_jobs) IN
     \/ /\ saved' = IF u \in rows THEN [saved EXCEPT ![u] = bound] ELSE saved
        /\ failed' = failed \ {u}
        /\ dbPc' = IF tcp[u] = None THEN "pop" ELSE "send"
        /\ ptr' = tcp[u]
     \/ /\ failed' = failed \cup {u}
        /\ dbPc' = "pop"
        /\ UNCHANGED <<saved, ptr>>
  /\ UNCHANGED <<bound, rows, clientVars, tcpVars, nameVars, portVars, process>>

(* UserPort::tcp_send, which may read its pointer once or twice.            *)
SendName ==
  /\ dbPc = "send"
  /\ dbPc' = "pop"
  /\ \E c \in {ptr, tcp[Head(db_jobs)]} :
       process' = IF c = None \/ (c \in Conns /\ conn[c] = "destroyed") THEN "crashed" ELSE process
  /\ UNCHANGED <<ptr, bound, saved, rows, failed, clientVars, tcpVars, nameVars, portVars>>

(* Seeded fault: the queue is emptied, with the jobs that were pushed       *)
(* meanwhile.                                                               *)
PopJobFault ==
  /\ dbPc = "pop"
  /\ dbPc' = "idle"
  /\ db_jobs' = <<>>
  /\ UNCHANGED <<name_changed, name, naming, ptr, bound, saved, rows, failed, clientVars, tcpVars, portVars, process>>

PopJob ==
  /\ dbPc = "pop"
  /\ dbPc' = "idle"
  /\ db_jobs' = Tail(db_jobs)
  /\ UNCHANGED <<name_changed, name, naming, ptr, bound, saved, rows, failed, clientVars, tcpVars, portVars, process>>

-----------------------------------------------------------------------------
Receive(p) == UdpLogin(p) \/ Ping(p) \/ Refuse(p) \/ Message(p)

(* One packet is handled to its end before the next is received.            *)
do_receive == \E p \in wire : Receive(p)

Io ==
  \/ /\ naming = None
     /\ \/ do_receive
        \/ \E c \in Conns : OpenConn(c) \/ Close(c) \/ \E d \in Devices : TcpLogin(c, d) \/ TcpMsg(c, d)
  \/ PushNameJob

NameJob == BindName \/ SaveName \/ SendName \/ PopJob

Device(d) == SendLogin(d) \/ SendPing(d) \/ SendWant(d)

Next ==
  /\ process = "up"
  /\ \/ Io
     \/ NameJob
     \/ \E d \in Devices : Device(d)
     \/ \E r \in replies : Reply(r)

Spec == Init /\ [][Next]_vars

-----------------------------------------------------------------------------
TypeOK ==
  /\ next \in 1 .. (MaxCookie + 1)
  /\ cookie \in [Users -> 0 .. (next - 1)]
  /\ endpoint \in [Users -> Devices \cup {None}]
  /\ tcp \in [Users -> Conns \cup {None}]
  /\ conn \in [Conns -> {"new", "open", "destroyed"}]
  /\ user_port \in [Conns -> Users \cup {None}]
  /\ name_changed \in [Users -> 0 .. NameLimit]
  /\ name = name_changed
  /\ naming \in Users \cup {None}
  /\ db_jobs \in Seq(Users)
  /\ dbPc \in {"idle", "query", "send", "pop"}
  /\ dbPc # "idle" => db_jobs # <<>>
  /\ ptr \in Conns \cup {None}
  /\ bound \in 0 .. NameLimit
  /\ saved \in [Users -> 0 .. NameLimit]
  /\ rows \subseteq Users
  /\ wire \subseteq Packets
  /\ replies \subseteq Replies
  /\ know \in [Devices -> 0 .. (next - 1)]
  /\ taken \subseteq Devices
  /\ want \in [Devices -> {"msg", "name", "done"}]
  /\ current \subseteq Devices
  /\ lapsed \subseteq Devices
  /\ adopted \subseteq Users \X Conns
  /\ failed \subseteq Users
  /\ process \in {"up", "crashed"}

(* A session never points to a destroyed connection that it was given by a  *)
(* TCP login, unless another user logged in over the same connection.       *)
TcpAlive ==
  \A u \in Users : LET c == tcp[u] IN
    c # None => conn[c] = "open" \/ <<u, c>> \in adopted \/ user_port[c] # u

(* A TCP login displaces the other devices of the user: none of them has    *)
(* the cookie of the session until it has logged in again, whatever is      *)
(* still on its way.                                                        *)
DisplacedLogsIn ==
  \A d \in Devices : know[d] # 0 /\ know[d] = cookie[Owner[d]] => d \in current

(* What the server sends to a user stays with the device that has it until  *)
(* one takes over that logged in since the last new cookie: no packet of a  *)
(* displaced device, however late, moves the endpoint back.                 *)
EndpointMoves == [][\A u \in Users : endpoint'[u] # endpoint[u] => endpoint'[u] \in current']_vars

(* When no rename is on its way the player table has the name that the      *)
(* server has for every user with a row, unless the last query failed,      *)
(* although the io thread sets names while the db thread saves them.        *)
NameSaved ==
  \A u \in rows :
    naming # u /\ (\A i \in DOMAIN db_jobs : db_jobs[i] # u) /\ u \notin failed
      => saved[u] = name[u]

(* The server acknowledges a message before it looks at the cookie: a       *)
(* message that is acknowledged was handled, unless a TCP login replaced    *)
(* the cookie of its device, whatever was lost, late or repeated.           *)
AckedIsHandled == \A d \in Devices : want[d] = "done" => d \in taken \cup lapsed
=============================================================================
