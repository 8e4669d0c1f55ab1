------------------------------- MODULE Threads -------------------------------
(***************************************************************************)
(* The two classes of the library that own a thread which runs until a     *)
(* flag tells it to end, and is then joined: Logger and TcpClientSession.  *)
(* A behaviour is that of one of them; the other stays as it was made.     *)
(***************************************************************************)
EXTENDS Logger

CONSTANTS MaxAddresses, MaxSockets          \* TcpSession

ASSUME TcpAssumption == MaxAddresses \in Nat /\ MaxSockets \in Nat

VARIABLES
  tried,                                    \* the class in use, fixed
  addresses, sockets, fd, shutdown, receivers, receiver, user, left, crashed

Tcp == INSTANCE TcpSession
tcp == <<addresses, sockets, fd, shutdown, receivers, receiver, user, left, crashed>>
all == <<tried, loggerVars, tcp>>

ThreadsInit == tried \in {"Logger", "TcpClientSession"} /\ LoggerInit /\ Tcp!TcpInit
LoggerStep(A) == tried = "Logger" /\ A /\ UNCHANGED <<tried, tcp>>
TcpStep(A) == tried = "TcpClientSession" /\ A /\ UNCHANGED <<tried, loggerVars>>
ThreadsNext == LoggerStep(LoggerNext) \/ TcpStep(Tcp!TcpNext)

(* Each thread runs, and gets the mutex it waits for; nobody has to log, to *)
(* stop, to connect or to disconnect.                                       *)
ThreadsSpec ==
  /\ ThreadsInit /\ [][ThreadsNext]_all
  /\ WF_all(LoggerStep(RunTest)) /\ WF_all(LoggerStep(RunWait)) /\ WF_all(LoggerStep(RunPopAll))
  /\ WF_all(LoggerStep(StopNotify)) /\ WF_all(LoggerStep(StopJoin))
  /\ WF_all(TcpStep(~crashed /\ Tcp!Join))
  /\ \A r \in 1..MaxSockets :
       WF_all(TcpStep(~crashed /\ r \in DOMAIN receivers /\ Tcp!Receive(r)))
-----------------------------------------------------------------------------
(* TcpClientSession: a disconnect() under way ends, though nobody closes    *)
(* the socket and the peer may stay silent, and then no receiver thread is  *)
(* left.                                                                    *)
DisconnectEnds == Tcp!DisconnectEnds
=============================================================================
