-------------------------------- MODULE Logger --------------------------------
(***************************************************************************)
(* obLib::Logger: log() appends a message to a list under a mutex and      *)
(* notifies; the logger thread waits on a condition variable until the     *)
(* list has messages and writes them all. The destructor clears            *)
(* _isRunning, notifies once and joins the thread.                         *)
(*                                                                         *)
(* Every use of the list is inside one critical section of _logMutex, so   *)
(* a critical section is one action; _isRunning alone is read and written  *)
(* outside. Message n is that of the n-th call of log().                   *)
(***************************************************************************)
EXTENDS Naturals, Sequences

CONSTANT MaxLog     \* bound: the number of calls of log()

ASSUME MaxLogAssumption == MaxLog \in Nat

VARIABLES
  logged,      \* the calls of log() so far
  pending,     \* _logContainer
  written,     \* what the policy has written
  running,     \* _isRunning
  runner,      \* where run() is
  stopper      \* where stop() is

loggerVars == <<logged, pending, written, running, runner, stopper>>

LoggerInit ==
  /\ logged = 0
  /\ pending = <<>> /\ written = <<>>
  /\ running = TRUE
  /\ runner = "test"
  /\ stopper = "none"

(* notify_one(): run() is the only thread that ever waits. *)
Notified(r) == IF r = "wait" THEN "enter" ELSE r

(* Mutant of Log: the message is put without a notification. *)
LogQuietly ==
  /\ stopper = "none" /\ logged < MaxLog
  /\ logged' = logged + 1
  /\ pending' = Append(pending, logged + 1)
  /\ UNCHANGED <<written, running, runner, stopper>>

(* log(); nobody logs to a logger that is being destroyed. *)
Log ==
  /\ stopper = "none" /\ logged < MaxLog
  /\ logged' = logged + 1
  /\ pending' = Append(pending, logged + 1)
  /\ runner' = Notified(runner)
  /\ UNCHANGED <<written, running, stopper>>
-----------------------------------------------------------------------------
(* while(_isRunning), read without the mutex *)
RunTest ==
  /\ runner = "test"
  /\ runner' = IF running THEN "enter" ELSE "done"
  /\ UNCHANGED <<logged, pending, written, running, stopper>>

(* Mutant of RunWait: the list is not looked at before the wait. *)
RunWaitFirst ==
  /\ runner = "enter"
  /\ runner' = "wait"
  /\ UNCHANGED <<logged, pending, written, running, stopper>>

(* Nothing to write: wait, which lets the mutex go. _isRunning is not       *)
(* tested here.                                                             *)
RunWait ==
  /\ runner = "enter" /\ pending = <<>>
  /\ runner' = "wait"
  /\ UNCHANGED <<logged, pending, written, running, stopper>>

(* A wait may end with no notification. *)
RunWake ==
  /\ runner = "wait"
  /\ runner' = "enter"
  /\ UNCHANGED <<logged, pending, written, running, stopper>>

(* popAll() *)
RunPopAll ==
  /\ runner = "enter" /\ pending # <<>>
  /\ written' = written \o pending
  /\ pending' = <<>>
  /\ runner' = "test"
  /\ UNCHANGED <<logged, running, stopper>>
-----------------------------------------------------------------------------
(* _isRunning = false, without the mutex *)
StopFlag ==
  /\ stopper = "none"
  /\ running' = FALSE
  /\ stopper' = "notify"
  /\ UNCHANGED <<logged, pending, written, runner>>

StopNotify ==
  /\ stopper = "notify"
  /\ runner' = Notified(runner)
  /\ stopper' = "join"
  /\ UNCHANGED <<logged, pending, written, running>>

(* join(), and the destruction of the list with what is left in it *)
StopJoin ==
  /\ stopper = "join" /\ runner = "done"
  /\ stopper' = "joined"
  /\ pending' = <<>>
  /\ UNCHANGED <<logged, written, running, runner>>

Run == RunTest \/ RunWait \/ RunWake \/ RunPopAll
Stop == StopFlag \/ StopNotify \/ StopJoin
LoggerNext == Log \/ Run \/ Stop
LoggerSpec == LoggerInit /\ [][LoggerNext]_loggerVars
-----------------------------------------------------------------------------
LoggerTypeOK ==
  /\ logged \in 0 .. MaxLog
  /\ pending \in Seq(1 .. MaxLog) /\ written \in Seq(1 .. MaxLog)
  /\ running \in BOOLEAN
  /\ runner \in {"test", "enter", "wait", "done"}
  /\ stopper \in {"none", "notify", "join", "joined"}

(* The file has the messages in the order of their log() calls, each at     *)
(* most once, and none is missing between two that are there.               *)
WrittenInOrder ==
  /\ written = [k \in 1 .. Len(written) |-> k]
  /\ stopper # "joined" => written \o pending = [k \in 1 .. logged |-> k]

(* No wake-up is lost: a message logged is written in the end, unless the   *)
(* logger is stopped.                                                       *)
WrittenOrStopped ==
  \A n \in 1 .. MaxLog : (logged >= n) ~> (Len(written) >= n \/ stopper # "none")

(* stop() returns if it found a message to be written; it may hang only on  *)
(* a logger thread back in its wait on an empty list, where the             *)
(* notification of stop() cannot make it test _isRunning.                   *)
StopHangsOnlyIdle ==
  /\ (stopper = "notify" /\ pending # <<>>) ~> (stopper = "joined")
  /\ (stopper = "join") ~>
       (stopper = "joined" \/ [](runner \in {"wait", "enter"} /\ pending = <<>>))
===============================================================================
