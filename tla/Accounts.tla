------------------------------ MODULE Accounts ------------------------------
(***************************************************************************)
(* The coins of one account.  MainServer::get_user_profile_msg grants what *)
(* has become due, starts the two hours for the next free coins and tops   *)
(* the account up, each by a test and a later store, and no lock is held:  *)
(* the io thread runs it for whoever asks for the profile, the db thread   *)
(* at the end of a change of name.  Each step is one load or store of the  *)
(* shared account.  An account is served only once it is registered, when  *)
(* it has its extra data, so LoadExtraData finds nothing to load.  Coins   *)
(* are not spent in the running program, and nothing else adds to them.    *)
(***************************************************************************)
EXTENDS Integers

CONSTANTS
  Threads,
  Coins,       (* what an account may begin with: 50, or a row's coins     *)
  Wait,        (* from the start of the timer to the coins, 2 h            *)
  Epoch,       (* a time after 1970 in ms                                  *)
  MaxClock     (* bound: how far time goes                                 *)

ASSUME AccountsAssumption ==
  /\ Coins \subseteq Nat
  /\ Wait \in Nat \ {0}
  /\ Epoch \in Nat
  /\ Epoch > 1000
  /\ MaxClock \in Nat

VARIABLES
  coin, free_coin_time,   (* of the account                                *)
  first,                  (* the coins it began with                       *)
  now,                    (* total_time                                    *)
  at,                     (* where each thread is in get_user_profile_msg  *)
  loaded,                 (* the coins it read to add to                   *)
  shown,                  (* the coins in the last profile it made         *)
  starts, grants,         (* history: timers it started, coins it granted  *)
  started, granted        (* history: the same of all threads              *)

account == <<coin, free_coin_time>>
history == <<starts, grants, started, granted>>
accountVars == <<account, first, now, at, loaded, shown, history>>

Steps == {"idle", "due", "positive", "reset", "load", "add", "poor", "stopped", "start",
          "low", "fill", "show"}

InitAccounts ==
  /\ coin \in Coins
  /\ first = coin
  /\ free_coin_time = 0
  /\ now = Epoch
  /\ at = [t \in Threads |-> "idle"]
  /\ loaded = [t \in Threads |-> 0]
  /\ shown = [t \in Threads |-> 200]
  /\ starts = [t \in Threads |-> 0]
  /\ grants = [t \in Threads |-> 0]
  /\ started = 0
  /\ granted = 0

Goto(t, from, to) == at[t] = from /\ at' = [at EXCEPT ![t] = to]

(* The total_time of BaseServer::run.                                       *)
Tick ==
  /\ now < Epoch + MaxClock
  /\ now' = now + 1
  /\ UNCHANGED <<account, first, at, loaded, shown, history>>

(* A request for the profile, or a job that has changed the name.           *)
Ask(t) ==
  /\ Goto(t, "idle", "due")
  /\ UNCHANGED <<account, first, now, loaded, shown, history>>

(* The timer has run out, and it was running: two loads.                    *)
TestDue(t) ==
  /\ Goto(t, "due", IF free_coin_time < now THEN "positive" ELSE "poor")
  /\ UNCHANGED <<account, first, now, loaded, shown, history>>

TestRunning(t) ==
  /\ Goto(t, "positive", IF free_coin_time > 0 THEN "reset" ELSE "poor")
  /\ UNCHANGED <<account, first, now, loaded, shown, history>>

(* Seeded fault: the timer is left as it is.                                *)
ResetFault(t) ==
  /\ Goto(t, "reset", "load")
  /\ UNCHANGED <<account, first, now, loaded, shown, history>>

Reset(t) ==
  /\ Goto(t, "reset", "load")
  /\ free_coin_time' = -1
  /\ UNCHANGED <<coin, first, now, loaded, shown, history>>

(* coin += 300: a load and a store.                                         *)
Load(t) ==
  /\ Goto(t, "load", "add")
  /\ loaded' = [loaded EXCEPT ![t] = coin]
  /\ UNCHANGED <<account, first, now, shown, history>>

Add(t) ==
  /\ Goto(t, "add", "poor")
  /\ coin' = loaded[t] + 300
  /\ grants' = [grants EXCEPT ![t] = @ + 1]
  /\ granted' = granted + 1
  /\ UNCHANGED <<free_coin_time, first, now, loaded, shown, starts, started>>

(* Less than 100 coins and no timer running.                                *)
TestPoor(t) ==
  /\ Goto(t, "poor", IF coin < 100 THEN "stopped" ELSE "low")
  /\ UNCHANGED <<account, first, now, loaded, shown, history>>

TestStopped(t) ==
  /\ Goto(t, "stopped", IF free_coin_time <= 1000 THEN "start" ELSE "low")
  /\ UNCHANGED <<account, first, now, loaded, shown, history>>

StartTimer(t) ==
  /\ Goto(t, "start", "low")
  /\ free_coin_time' = now + Wait
  /\ starts' = [starts EXCEPT ![t] = @ + 1]
  /\ started' = started + 1
  /\ UNCHANGED <<coin, first, now, loaded, shown, grants, granted>>

TestLow(t) ==
  /\ Goto(t, "low", IF coin < 200 THEN "fill" ELSE "show")
  /\ UNCHANGED <<account, first, now, loaded, shown, history>>

Fill(t) ==
  /\ Goto(t, "fill", "show")
  /\ coin' = 200
  /\ UNCHANGED <<free_coin_time, first, now, loaded, shown, history>>

(* The profile is made, to be sent to the owner or to whoever asked.        *)
Show(t) ==
  /\ Goto(t, "show", "idle")
  /\ shown' = [shown EXCEPT ![t] = coin]
  /\ UNCHANGED <<account, first, now, loaded, history>>

get_user_profile_msg(t) ==
  \/ TestDue(t) \/ TestRunning(t) \/ Reset(t) \/ Load(t) \/ Add(t)
  \/ TestPoor(t) \/ TestStopped(t) \/ StartTimer(t)
  \/ TestLow(t) \/ Fill(t) \/ Show(t)

NextAccounts == Tick \/ \E t \in Threads : Ask(t) \/ get_user_profile_msg(t)

SpecAccounts == InitAccounts /\ [][NextAccounts]_accountVars

-----------------------------------------------------------------------------
TypeOK ==
  /\ coin \in Nat /\ free_coin_time \in Int /\ first \in Nat
  /\ now \in Nat /\ now >= Epoch
  /\ at \in [Threads -> Steps]
  /\ loaded \in [Threads -> Nat]
  /\ shown \in [Threads -> Nat]
  /\ starts \in [Threads -> Nat] /\ grants \in [Threads -> Nat]
  /\ started \in Nat /\ granted \in Nat

(* Whatever the threads do to each other's tests: each starts the timer at  *)
(* most once, none is granted coins more often than timers were started,    *)
(* the account never holds more than it began with (or was filled up to)    *)
(* and 300 for each grant, and no profile shows less than 200.              *)
FreeCoins ==
  /\ \A t \in Threads : starts[t] <= 1 /\ grants[t] <= started /\ shown[t] >= 200
  /\ coin <= (IF first > 200 THEN first ELSE 200) + 300 * granted
=============================================================================
