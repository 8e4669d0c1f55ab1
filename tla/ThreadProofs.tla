---------------------------- MODULE ThreadProofs ----------------------------
(***************************************************************************)
(* The two classes whose thread runs in a loop: the logger, whose file     *)
(* keeps the order of log() and whose thread never sleeps on a message,    *)
(* for any number of messages; and the session with the exchange, for any  *)
(* timeout of its logon.                                                   *)
(***************************************************************************)
EXTENDS Logger, Session, SequenceTheorems, TLAPS

(* The logger                                                              *)

Numbered(n) == [k \in 1 .. n |-> k]

(* The order alone is not inductive: what is still in the list must follow *)
(* on what was written, and a joined logger must have nothing in its list. *)
LogInv == LoggerTypeOK /\ WrittenInOrder /\ (stopper = "joined" => pending = <<>>)

(* A logger thread waits only on an empty list. *)
NoLostWakeUp == runner = "wait" => pending = <<>>

-----------------------------------------------------------------------------
(* One more message at the end of a numbered sequence, wherever it is cut. *)
LEMMA NumberedAppend ==
  ASSUME NEW n \in Nat, NEW done \in Seq(Nat), NEW todo \in Seq(Nat),
         done \o todo = Numbered(n)
  PROVE  done \o Append(todo, n + 1) = Numbered(n + 1)
<1>1. n + 1 \in Nat /\ <<n + 1>> \in Seq(Nat) /\ Len(<<n + 1>>) = 1 /\ <<n + 1>>[1] = n + 1
  OBVIOUS
<1>2. Append(todo, n + 1) = todo \o <<n + 1>>
  BY <1>1
<1>3. done \o Append(todo, n + 1) = Numbered(n) \o <<n + 1>>
  BY <1>1, <1>2, ConcatAssociative
<1>4. Numbered(n) \in Seq(Nat) /\ Len(Numbered(n)) = n /\ \A i \in 1 .. n : Numbered(n)[i] = i
  BY DEF Numbered
<1>5. /\ Numbered(n + 1) \in Seq(Nat) /\ Len(Numbered(n + 1)) = n + 1
      /\ \A i \in 1 .. n + 1 : Numbered(n + 1)[i] = i
  BY DEF Numbered
<1>6. /\ Numbered(n) \o <<n + 1>> \in Seq(Nat)
      /\ Len(Numbered(n) \o <<n + 1>>) = n + 1
      /\ \A i \in 1 .. n + 1 : (Numbered(n) \o <<n + 1>>)[i] =
                              IF i <= n THEN Numbered(n)[i] ELSE <<n + 1>>[i - n]
  BY <1>1, <1>4, ConcatProperties
<1>7. \A i \in 1 .. n + 1 : (Numbered(n) \o <<n + 1>>)[i] = Numbered(n + 1)[i]
  BY <1>1, <1>4, <1>5, <1>6
<1>8. QED
  BY <1>3, <1>5, <1>6, <1>7, SeqEqual

LEMMA InitLogInv == LoggerInit => LogInv /\ NoLostWakeUp
<1> SUFFICES ASSUME LoggerInit PROVE LogInv /\ NoLostWakeUp
  OBVIOUS
<1>1. [k \in 1 .. 0 |-> k] = <<>>
  OBVIOUS
<1>2. <<>> \o <<>> = <<>> /\ Len(<<>>) = 0
  OBVIOUS
<1>3. LoggerTypeOK
  BY MaxLogAssumption DEF LoggerInit, LoggerTypeOK
<1>4. WrittenInOrder
  BY <1>1, <1>2 DEF LoggerInit, WrittenInOrder
<1>5. QED
  BY <1>3, <1>4 DEF LoggerInit, LogInv, NoLostWakeUp

(* Every step keeps the order. *)
LEMMA StepLogInv == LogInv /\ [LoggerNext]_loggerVars => LogInv'
<1> SUFFICES ASSUME LogInv, [LoggerNext]_loggerVars PROVE LogInv'
  OBVIOUS
<1> USE MaxLogAssumption
<1>1. CASE Log
  <2>1. stopper = "none" /\ stopper' = stopper /\ written' = written /\ logged' = logged + 1
        /\ pending' = Append(pending, logged + 1)
    BY <1>1 DEF Log
  <2>2. LoggerTypeOK'
    BY <1>1 DEF LogInv, LoggerTypeOK, Log, Notified
  <2>3. written \o pending = Numbered(logged)
    BY <2>1 DEF LogInv, WrittenInOrder, Numbered
  <2>4. written \in Seq(Nat) /\ pending \in Seq(Nat) /\ logged \in Nat
    <3>1. 1 .. MaxLog \subseteq Nat
      OBVIOUS
    <3>2. QED
      BY <3>1, SeqMonotonic DEF LogInv, LoggerTypeOK
  <2>5. written' \o pending' = Numbered(logged')
    BY <2>1, <2>3, <2>4, NumberedAppend
  <2>6. WrittenInOrder'
    BY <2>1, <2>5 DEF LogInv, WrittenInOrder, Numbered
  <2>7. QED
    BY <2>1, <2>2, <2>6 DEF LogInv
<1>2. CASE RunTest
  BY <1>2 DEF LogInv, LoggerTypeOK, WrittenInOrder, RunTest
<1>3. CASE RunWait
  BY <1>3 DEF LogInv, LoggerTypeOK, WrittenInOrder, RunWait
<1>4. CASE RunWake
  BY <1>4 DEF LogInv, LoggerTypeOK, WrittenInOrder, RunWake
<1>5. CASE RunPopAll
  <2>1. pending # <<>> /\ written' = written \o pending /\ pending' = <<>>
        /\ logged' = logged /\ stopper' = stopper /\ stopper # "joined"
    BY <1>5 DEF RunPopAll, LogInv
  <2>2. written' \in Seq(1 .. MaxLog) /\ written' \o <<>> = written'
    BY <2>1, ConcatProperties, ConcatEmptySeq DEF LogInv, LoggerTypeOK
  <2>3. LoggerTypeOK'
    BY <1>5, <2>1, <2>2 DEF LogInv, LoggerTypeOK, RunPopAll
  <2>4. written' = Numbered(logged)
    BY <2>1 DEF LogInv, WrittenInOrder, Numbered
  <2>5. Len(written') = logged
    BY <2>4 DEF LogInv, LoggerTypeOK, Numbered
  <2>6. WrittenInOrder'
    BY <2>1, <2>2, <2>4, <2>5 DEF WrittenInOrder, Numbered
  <2>7. QED
    BY <2>1, <2>3, <2>6 DEF LogInv
<1>6. CASE StopFlag
  BY <1>6 DEF LogInv, LoggerTypeOK, WrittenInOrder, StopFlag
<1>7. CASE StopNotify
  BY <1>7 DEF LogInv, LoggerTypeOK, WrittenInOrder, StopNotify, Notified
<1>8. CASE StopJoin
  BY <1>8 DEF LogInv, LoggerTypeOK, WrittenInOrder, StopJoin
<1>9. CASE UNCHANGED loggerVars
  BY <1>9 DEF LogInv, LoggerTypeOK, WrittenInOrder, loggerVars
<1>10. QED
  BY <1>1, <1>2, <1>3, <1>4, <1>5, <1>6, <1>7, <1>8, <1>9 DEF LoggerNext, Run, Stop

LEMMA StepNoLostWakeUp == NoLostWakeUp /\ [LoggerNext]_loggerVars => NoLostWakeUp'
  BY DEF NoLostWakeUp, LoggerNext, Run, Stop, Log, RunTest, RunWait, RunWake, RunPopAll,
         StopFlag, StopNotify, StopJoin, Notified, loggerVars
-----------------------------------------------------------------------------
(* The messages in the list and in the file are numbers of log() calls. *)
THEOREM LoggerTypeCorrect == LoggerSpec => []LoggerTypeOK
<1>1. LogInv => LoggerTypeOK
  BY DEF LogInv
<1>2. QED
  BY <1>1, InitLogInv, StepLogInv, PTL DEF LoggerSpec

(* However log(), run() and stop() interleave, the file is the calls of    *)
(* log() in their order, none twice and none missing in between            *)
(* (Logger.hpp:176-201).                                                   *)
THEOREM FileInOrder == LoggerSpec => []WrittenInOrder
<1>1. LogInv => WrittenInOrder
  BY DEF LogInv
<1>2. QED
  BY <1>1, InitLogInv, StepLogInv, PTL DEF LoggerSpec

(* The logger thread never waits with a message in its list                *)
(* (Logger.hpp:186, 197).                                                  *)
THEOREM NoWakeUpLost == LoggerSpec => []NoLostWakeUp
  BY InitLogInv, StepNoLostWakeUp, PTL DEF LoggerSpec
-----------------------------------------------------------------------------
(* The session with the exchange                                           *)

(* The flag, the connection and the place in the loop agree.                *)
FlagInv ==
  /\ pc = "send" => open /\ ~sentLogon
  /\ pc = "select" => open /\ sentLogon
  /\ pc = "closing" => open
  /\ sentLogon => open

(* How old a logon may be at each place: no select() starts with a logon    *)
(* older than the timeout, and from then on both count the same seconds.    *)
AgeInv ==
  /\ sentLogon /\ pc = "top" => age <= LogonTimeout
  /\ sentLogon /\ pc = "select" => age <= LogonTimeout + waited
  /\ LogonGivenUp

SessionInv == TypeOK /\ FlagInv /\ AgeInv /\ OneLogonPerConnection

LEMMA InitSessionInv == Init => SessionInv
<1> SUFFICES ASSUME Init PROVE SessionInv
  OBVIOUS
<1>1. ~sentLogon /\ ~open /\ pc = "top"
  BY DEF Init
<1>2. open \in BOOLEAN /\ sentLogon \in BOOLEAN
  BY Zenon DEF Init
<1>3. age = 0 /\ waited = 0 /\ unread = 0 /\ logons = 0 /\ peer = "closed"
  BY DEF Init
<1>4. TypeOK
  BY <1>1, <1>2, <1>3, TimesAssumption, UnreadAssumption DEF TypeOK
<1>5. QED
  BY <1>1, <1>4 DEF SessionInv, FlagInv, AgeInv, LogonGivenUp, OneLogonPerConnection

(* Every step of the reader thread keeps the invariant.                     *)
LEMMA ReaderKeepsInv == SessionInv /\ Reader => SessionInv'
<1> SUFFICES ASSUME SessionInv, Reader PROVE SessionInv'
  OBVIOUS
<1> USE TimesAssumption, UnreadAssumption DEF SessionInv, TypeOK, FlagInv, AgeInv, LogonGivenUp, OneLogonPerConnection, network
<1>1. CASE Connect
  BY <1>1 DEF Connect
<1>2. CASE ConnectFails
  BY <1>2 DEF ConnectFails, vars
<1>3. CASE ConnectedAlready
  BY <1>3 DEF ConnectedAlready
<1>4. CASE SendLogon
  BY <1>4 DEF SendLogon
<1>5. CASE SendFails
  BY <1>5 DEF SendFails
<1>6. CASE Crash
  BY <1>6 DEF Crash
<1>7. CASE AwaitMessage
  BY <1>7 DEF AwaitMessage, CheckStatus
<1>8. CASE SelectTimeout
  BY <1>8 DEF SelectTimeout, CheckStatus
<1>9. CASE ReadMessage
  BY <1>9 DEF ReadMessage, CheckStatus
<1>10. CASE ReadEnd
  BY <1>10 DEF ReadEnd
<1>11. CASE Disconnect
  BY <1>11 DEF Disconnect
<1>12. QED
  BY <1>1, <1>2, <1>3, <1>4, <1>5, <1>6, <1>7, <1>8, <1>9, <1>10, <1>11 DEF Reader

(* So do the clock and the exchange.                                        *)
LEMMA OthersKeepInv == SessionInv /\ (Tick \/ Exchange) => SessionInv'
<1> SUFFICES ASSUME SessionInv, Tick \/ Exchange PROVE SessionInv'
  OBVIOUS
<1> USE TimesAssumption, UnreadAssumption DEF SessionInv, TypeOK, FlagInv, AgeInv, LogonGivenUp, OneLogonPerConnection, network
<1>1. CASE Tick
  BY <1>1 DEF Tick
<1>2. CASE Arrive
  BY <1>2 DEF Arrive
<1>3. CASE PeerCloses
  BY <1>3 DEF PeerCloses
<1>4. CASE PeerResets
  BY <1>4 DEF PeerResets
<1>5. QED
  BY <1>1, <1>2, <1>3, <1>4 DEF Exchange

LEMMA StepSessionInv == SessionInv /\ [Next]_vars => SessionInv'
<1> SUFFICES ASSUME SessionInv, [Next]_vars PROVE SessionInv'
  OBVIOUS
<1>1. CASE UNCHANGED vars
  BY <1>1 DEF vars, SessionInv, TypeOK, FlagInv, AgeInv, LogonGivenUp, OneLogonPerConnection
<1>2. QED
  BY <1>1, ReaderKeepsInv, OthersKeepInv DEF Next

(* The variables stay in their types.                                       *)
THEOREM TypeCorrect == Spec => []TypeOK
<1>1. SessionInv => TypeOK
  BY DEF SessionInv
<1>2. QED
  BY <1>1, InitSessionInv, StepSessionInv, PTL DEF Spec

(* Whatever the exchange does, it gets one logon on a connection at most.   *)
THEOREM OneLogon == Spec => []OneLogonPerConnection
<1>1. SessionInv => OneLogonPerConnection
  BY DEF SessionInv
<1>2. QED
  BY <1>1, InitSessionInv, StepSessionInv, PTL DEF Spec

(* For any timeout and any length of a select(), no logon is out for longer *)
(* than the two together.                                                   *)
THEOREM LogonsEnd == Spec => []LogonGivenUp
<1>1. SessionInv => LogonGivenUp
  BY DEF SessionInv, AgeInv
<1>2. QED
  BY <1>1, InitSessionInv, StepSessionInv, PTL DEF Spec

(* A connection reset before its logon was written is never left.           *)
THEOREM StuckStays == Spec => StuckForGood
<1>1. SessionInv /\ [Next]_vars => (Stuck => Stuck' \/ pc' = "crashed")
  <2> SUFFICES ASSUME SessionInv, [Next]_vars, Stuck PROVE Stuck' \/ pc' = "crashed"
    OBVIOUS
  <2> USE DEF Stuck, network
  <2>1. CASE Reader
    BY <2>1 DEF Reader, Connect, ConnectFails, ConnectedAlready, SendLogon, SendFails, Crash,
                AwaitMessage, SelectTimeout, ReadMessage, ReadEnd, Disconnect, vars
  <2>2. CASE Tick \/ Exchange
    BY <2>2 DEF Tick, Exchange, Arrive, PeerCloses, PeerResets
  <2>3. CASE UNCHANGED vars
    BY <2>3 DEF vars
  <2>4. QED
    BY <2>1, <2>2, <2>3 DEF Next
<1>2. QED
  BY <1>1, InitSessionInv, StepSessionInv, PTL DEF Spec, StuckForGood
=============================================================================
