---------------------------- MODULE Registration ----------------------------
(***************************************************************************)
(* Registration over HTTP.  A connection lives on the io thread and is     *)
(* kept alive by the connection_manager and by the handler of its pending  *)
(* read or write.  POST /register hands a raw pointer to it to a           *)
(* RegisterJob; the db thread inserts the player, makes the account and    *)
(* calls back, which writes the reply to the connection.  A signal stops   *)
(* the HTTP server.                                                        *)
(*                                                                         *)
(* An account is its id and the connection that registered it.  The player *)
(* table may refuse an INSERT; the account is then made in memory alone.   *)
(* Sessions are left to the module Sessions.                               *)
(***************************************************************************)
EXTENDS Integers, FiniteSets, Sequences

CONSTANTS
  Conns,        (* the connections clients open, each for one request      *)
  NoConn,       (* the owner of an account that was loaded at the start    *)
  MaxStart      (* bound: ids the table gave out before the start          *)

ASSUME RegistrationAssumption ==
  /\ NoConn \notin Conns
  /\ MaxStart \in Nat

VARIABLES
  accepting,    (* the acceptor is open: no signal has come                *)
  conn,         (* where each connection is in its life                    *)
  managed,      (* connection_manager::connections_                        *)
  arrived,      (* connections whose read is done, its handler not yet run *)
  written,      (* how often each connection was written to (history)      *)
  db_jobs,      (* the connections of the RegisterJobs, oldest first       *)
  dbPc,         (* where the db thread is in db_dun                        *)
  userId,       (* RegisterResponse::userId of the running job             *)
  serial,       (* the next id of the player table                         *)
  first,        (* serial at the start (history)                           *)
  users,        (* DBAccess::users: the owner of every id in memory        *)
  made,         (* <<id, connection>> of every register_user (history)     *)
  inserted,     (* those whose INSERT succeeded (history)                  *)
  process       (* "up", or "crashed" by using a destroyed connection      *)

httpVars == <<accepting, conn, managed, arrived, written>>
dbVars   == <<dbPc, userId, serial, first, users, made, inserted>>
vars     == <<httpVars, db_jobs, dbVars, process>>

(* shared_ptrs to a connection: the manager's and its pending handler's.    *)
Pending(c) == conn[c] \in {"reading", "writing"}
Alive(c)   == c \in managed \/ Pending(c)

(* The constructor of DBAccess puts every row under UserData::id, which it  *)
(* leaves 0: only the last row stays.                                       *)
Loaded(rows) == IF rows = 0 THEN {} ELSE {0}

(* server::server: waits for a signal, listens and accepts.                *)
InitHttp ==
  /\ accepting = "yes"
  /\ conn = [c \in Conns |-> "new"]
  /\ managed = {}
  /\ arrived = {}
  /\ written = [c \in Conns |-> 0]

(* The table may have given out more ids than it has rows: rows were        *)
(* deleted, and INSERTs refused, before the start.                          *)
Init ==
  /\ InitHttp
  /\ db_jobs = <<>>
  /\ dbPc = "idle"
  /\ userId = 0
  /\ first \in 1 .. MaxStart + 1
  /\ serial = first
  /\ \E rows \in 0 .. first - 1 : users = [i \in Loaded(rows) |-> NoConn]
  /\ made = {}
  /\ inserted = {}
  /\ process = "up"

-----------------------------------------------------------------------------
(* The io thread.                                                           *)

(* connection_manager: start begins the first read; stop and stop_all close *)
(* the sockets, and forget the connections.                                 *)
start(c) ==
  /\ managed' = managed \cup {c}
  /\ conn' = [conn EXCEPT ![c] = "reading"]

stop(c) ==
  /\ managed' = managed \ {c}
  /\ conn' = [conn EXCEPT ![c] = "done"]

stop_all == managed' = {}

(* do_accept.                                                               *)
Accept(c) ==
  /\ accepting = "yes"
  /\ conn[c] = "new"
  /\ start(c)
  /\ UNCHANGED <<accepting, arrived, written, db_jobs, dbVars, process>>

(* The read is done and its handler queued; closing the socket no longer    *)
(* aborts it.  A read that leaves the request incomplete starts the next    *)
(* one and changes nothing here.                                            *)
DataArrives(c) ==
  /\ conn[c] = "reading"
  /\ c \in managed
  /\ c \notin arrived
  /\ arrived' = arrived \cup {c}
  /\ UNCHANGED <<accepting, conn, managed, written, db_jobs, dbVars, process>>

do_write(c) ==
  /\ conn' = [conn EXCEPT ![c] = "writing"]
  /\ written' = [written EXCEPT ![c] = @ + 1]

(* The handler of /register: a job with the connection in its callback.     *)
PushRegisterJob(c) == db_jobs' = Append(db_jobs, c)

(* Seeded fault: handle_request says that the caller should write as well.  *)
ReadRegisterFault(c) ==
  /\ c \in arrived
  /\ arrived' = arrived \ {c}
  /\ PushRegisterJob(c)
  /\ do_write(c)
  /\ UNCHANGED <<accepting, managed, dbVars, process>>

(* A complete request for /register: handlers2 pushes a RegisterJob, and    *)
(* handle_request returns false, so that nothing is pending any more.       *)
ReadRegister(c) ==
  /\ c \in arrived
  /\ arrived' = arrived \ {c}
  /\ PushRegisterJob(c)
  /\ conn' = [conn EXCEPT ![c] = "waiting"]
  /\ UNCHANGED <<accepting, managed, written, dbVars, process>>

(* Any other request, or a bad one, is answered at once.                    *)
ReadOther(c) ==
  /\ c \in arrived
  /\ arrived' = arrived \ {c}
  /\ do_write(c)
  /\ UNCHANGED <<accepting, managed, db_jobs, dbVars, process>>

(* The client went away (connection_manager::stop), or stop_all closed the  *)
(* socket and the handler does nothing.                                     *)
ReadFails(c) ==
  /\ conn[c] = "reading"
  /\ c \notin arrived
  /\ stop(c)
  /\ UNCHANGED <<accepting, arrived, written, db_jobs, dbVars, process>>

WriteDone(c) ==
  /\ conn[c] = "writing"
  /\ stop(c)
  /\ UNCHANGED <<accepting, arrived, written, db_jobs, dbVars, process>>

(* SIGINT, SIGTERM or SIGQUIT: close the acceptor and stop_all.             *)
Signal ==
  /\ accepting = "yes"
  /\ accepting' = "no"
  /\ stop_all
  /\ UNCHANGED <<conn, arrived, written, db_jobs, dbVars, process>>

-----------------------------------------------------------------------------
(* The db thread: db_dun and RegisterJob::do_job.                           *)

(* Seeded fault: the id that was given last.                                *)
FreeIdFault == userId

FreeId == Cardinality(DOMAIN users) + 1

(* register_user.  A refused INSERT may or may not use up an id.            *)
RegisterUser ==
  /\ dbPc = "idle"
  /\ db_jobs # <<>>
  /\ \/ /\ userId' = serial
        /\ serial' = serial + 1
        /\ inserted' = inserted \cup {<<serial, Head(db_jobs)>>}
     \/ /\ userId' = FreeId
        /\ serial' \in {serial, serial + 1}
        /\ UNCHANGED inserted
  /\ users' = [i \in DOMAIN users \cup {userId'} |->
                 IF i = userId' THEN Head(db_jobs) ELSE users[i]]
  /\ made' = made \cup {<<userId', Head(db_jobs)>>}
  /\ dbPc' = "callback"
  /\ UNCHANGED <<httpVars, db_jobs, first, process>>

(* Seeded fault: the reply is set and not written.                          *)
CallbackFault ==
  /\ dbPc = "callback"
  /\ dbPc' = "pop"
  /\ UNCHANGED <<httpVars, db_jobs, userId, serial, first, users, made, inserted, process>>

(* The callback: con->reply_ is set and con->do_write() called.             *)
Callback ==
  /\ dbPc = "callback"
  /\ \/ /\ Alive(Head(db_jobs))
        /\ do_write(Head(db_jobs))
        /\ UNCHANGED process
     \/ /\ ~Alive(Head(db_jobs))
        /\ process' = "crashed"
        /\ UNCHANGED <<conn, written>>
  /\ dbPc' = "pop"
  /\ UNCHANGED <<accepting, managed, arrived, db_jobs, userId, serial, first, users, made,
                 inserted>>

PopJob ==
  /\ dbPc = "pop"
  /\ db_jobs' = Tail(db_jobs)
  /\ dbPc' = "idle"
  /\ UNCHANGED <<httpVars, userId, serial, first, users, made, inserted, process>>

-----------------------------------------------------------------------------
Handler(c) == ReadRegister(c) \/ ReadOther(c) \/ WriteDone(c)
do_job == RegisterUser \/ Callback
Job == do_job \/ PopJob

Next ==
  /\ process = "up"
  /\ \/ \E c \in Conns : Accept(c) \/ DataArrives(c) \/ ReadFails(c) \/ Handler(c)
     \/ Signal
     \/ Job

(* The io thread runs the handlers that are queued, the db thread its jobs, *)
(* and a closed socket aborts its read.  Clients owe nothing.               *)
Fairness ==
  /\ \A c \in Conns : WF_vars(process = "up" /\ Handler(c))
  /\ \A c \in Conns : WF_vars(process = "up" /\ c \notin managed /\ ReadFails(c))
  /\ WF_vars(process = "up" /\ Job)

Spec == Init /\ [][Next]_vars
FairSpec == Spec /\ Fairness

-----------------------------------------------------------------------------
TypeOK ==
  /\ accepting \in {"yes", "no"}
  /\ conn \in [Conns -> {"new", "reading", "waiting", "writing", "done"}]
  /\ managed \subseteq Conns
  /\ arrived \subseteq {c \in Conns : conn[c] = "reading"}
  /\ written \in [Conns -> Nat]
  /\ db_jobs \in Seq(Conns)
  /\ dbPc \in {"idle", "callback", "pop"}
  /\ dbPc # "idle" => db_jobs # <<>>
  /\ userId \in Nat /\ serial \in Nat /\ first \in Nat \ {0}
  /\ users \in [DOMAIN users -> Conns \cup {NoConn}] /\ IsFiniteSet(DOMAIN users)
  /\ made \subseteq Nat \X Conns
  /\ inserted \subseteq made
  /\ process \in {"up", "crashed"}

(* A request to register makes one account, and its connection is written   *)
(* to once: by the callback, and not also by the handler that read it.      *)
OneReply ==
  \A c \in Conns :
    /\ written[c] <= 1
    /\ \A p, q \in made : p[2] = c /\ q[2] = c => p = q
    /\ \A p \in made : p[2] = c /\ written[c] = 0 =>
         (dbPc = "callback" /\ Head(db_jobs) = c) \/ process = "crashed"

(* Accounts whose INSERT was refused are numbered by the size of users, and *)
(* meet the ids of the table sooner or later.  Not if the ids in memory     *)
(* have no gap below those the table gives out,                             *)
Gapless == first = (IF 0 \in DOMAIN users THEN 2 ELSE 1)

(* nor before memory holds as many accounts as the table had given out      *)
(* before the start, one aside.                                             *)
Few == Cardinality(DOMAIN users) + 1 < first

(* A player in the table keeps his account in memory, in one run of the     *)
(* server, as long as one of the two is so, whatever INSERTs are refused    *)
(* and whatever ids they use up.  Beyond that the code does let an account  *)
(* that is in memory alone take his place.                                  *)
InsertedKept == Gapless \/ Few => \A p \in inserted : users[p[1]] = p[2]

(* Every request to register ends with its connection closed, whoever has   *)
(* gone away meanwhile, unless the process dies of a stop.                  *)
RequestsEnd ==
  \A c \in Conns : conn[c] = "waiting" ~> (conn[c] = "done" \/ process = "crashed")

(* "Manages open connections so that they may be cleanly stopped when the   *)
(* server needs to shut down" (connection_manager.hpp): no connection is    *)
(* used after the stop destroyed it.                                        *)
CleanStop == process = "up"
=============================================================================
