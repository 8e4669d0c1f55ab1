------------------------------ MODULE Session -------------------------------
(***************************************************************************)
(* The session with the exchange: the reader thread of ExchangeSession     *)
(* with the socket of ExchangeConnection, as NSESession completes them. It *)
(* connects, sends a logon, waits for messages and gives up a logon that   *)
(* stays without effect for more than LogonTimeout seconds.                *)
(* NSESession::processInMessage does nothing with a message and nothing    *)
(* else sets _loggedOn, so the session is never logged on: the branches of *)
(* checkStatus for heartbeats and test requests, the sending of orders and *)
(* the onSessionClose that disconnect posts (it finds the session not      *)
(* open) change nothing and are left out.                                  *)
(***************************************************************************)
EXTENDS Naturals

CONSTANTS
  LogonTimeout,   \* _logonTimeout, in seconds
  SelectTime,     \* seconds select() waits for something to read
  MaxUnread       \* bound: messages of the exchange that wait to be read

ASSUME TimesAssumption == LogonTimeout \in Nat /\ SelectTime \in Nat \ {0}
ASSUME UnreadAssumption == MaxUnread \in Nat

VARIABLES
  pc,          \* where the reader thread is
  open,        \* _socketFileDesc != -1
  sentLogon,   \* _sentLogon
  age,         \* seconds since _lastSentTime, while a logon is out
  waited,      \* seconds the select() under way has waited
  peer,        \* the other end of the connection: "up", "closed" or "reset"
  unread,      \* messages of the exchange that wait in the socket
  logons       \* logons the exchange got on this connection

vars == <<pc, open, sentLogon, age, waited, peer, unread, logons>>
network == <<peer, unread, logons>>

Init ==
  /\ pc = "top" /\ open = FALSE /\ sentLogon = FALSE
  /\ age = 0 /\ waited = 0
  /\ peer = "closed" /\ unread = 0 /\ logons = 0
-----------------------------------------------------------------------------
(* sendLogon() without a connection: one of the addresses accepts.          *)
Connect ==
  /\ pc = "top" /\ ~sentLogon /\ ~open
  /\ open' = TRUE
  /\ peer' = "up" /\ unread' = 0 /\ logons' = 0
  /\ pc' = "send"
  /\ UNCHANGED <<sentLogon, age, waited>>

(* No address accepts. After some tries connect() returns false, sendLogon()*)
(* throws, the loop swallows it and calls sendLogon() again.                *)
ConnectFails ==
  /\ pc = "top" /\ ~sentLogon /\ ~open
  /\ UNCHANGED vars

(* sendLogon() with a connection left from a logon that could not be sent   *)
ConnectedAlready ==
  /\ pc = "top" /\ ~sentLogon /\ open
  /\ pc' = "send"
  /\ UNCHANGED <<open, sentLogon, age, waited, network>>

(* Mutant of SendLogon: the flag is not set. *)
SendLogonForgets ==
  /\ pc = "send" /\ peer # "reset"
  /\ age' = 0 /\ waited' = 0
  /\ logons' = logons + 1
  /\ pc' = "top"
  /\ UNCHANGED <<open, sentLogon, peer, unread>>

(* The logon is written. That the other end has closed does not show yet.   *)
SendLogon ==
  /\ pc = "send" /\ peer # "reset"
  /\ sentLogon' = TRUE
  /\ age' = 0 /\ waited' = 0
  /\ logons' = logons + 1
  /\ pc' = "select"
  /\ UNCHANGED <<open, peer, unread>>

(* The write fails: sendLogon() throws, the loop swallows it. The socket    *)
(* stays open and nothing of what belongs to it is reset.                   *)
SendFails ==
  /\ pc = "send" /\ peer = "reset"
  /\ pc' = "top"
  /\ UNCHANGED <<open, sentLogon, age, waited, network>>

(* getSocketSendBufSize() and getSocketRecvBufSize(), called before the     *)
(* logon is filled, are declared int and return nothing.                    *)
Crash ==
  /\ pc = "send"
  /\ pc' = "crashed"
  /\ UNCHANGED <<open, sentLogon, age, waited, network>>
-----------------------------------------------------------------------------
(* checkStatus(): a logon out for too long ends the connection; otherwise   *)
(* the reader goes on at step.                                              *)
CheckStatus(step) == pc' = IF sentLogon /\ open /\ age > LogonTimeout THEN "closing" ELSE step

(* The loop with a logon out: checkStatus(), then recvMsg() starts to wait, *)
(* or returns at once if there is no connection.                            *)
AwaitMessage ==
  /\ pc = "top" /\ sentLogon
  /\ CheckStatus(IF open THEN "select" ELSE "top")
  /\ waited' = 0
  /\ UNCHANGED <<open, sentLogon, age, network>>

Readable == unread > 0 \/ peer # "up"

(* Mutant of SelectTimeout: recvMsg() waits on without checkStatus().       *)
SelectTimeoutUnchecked ==
  /\ pc = "select" /\ waited = SelectTime /\ ~Readable
  /\ waited' = 0
  /\ UNCHANGED <<pc, open, sentLogon, age, network>>

(* Nothing to read within SelectTime: checkStatus(), and recvMsg() selects again. *)
SelectTimeout ==
  /\ pc = "select" /\ waited = SelectTime /\ ~Readable
  /\ CheckStatus("select")
  /\ waited' = 0
  /\ UNCHANGED <<open, sentLogon, age, network>>

(* One recv() takes what there is. NSESession::isFullMsg calls all of it one *)
(* message, processInMessage ignores it, and checkStatus() ends the round.  *)
ReadMessage ==
  /\ pc = "select" /\ unread > 0 /\ peer # "reset"
  /\ unread' = 0
  /\ CheckStatus("top")
  /\ UNCHANGED <<open, sentLogon, age, waited, peer, logons>>

(* recv() returns 0 or an error: disconnect(). *)
ReadEnd ==
  /\ pc = "select"
  /\ peer = "reset" \/ (peer = "closed" /\ unread = 0)
  /\ pc' = "closing"
  /\ UNCHANGED <<open, sentLogon, age, waited, network>>

(* Mutant of Disconnect: the logon of the old connection still counts.      *)
DisconnectKeepsLogon ==
  /\ pc = "closing"
  /\ open' = FALSE
  /\ age' = 0
  /\ pc' = "top"
  /\ UNCHANGED <<sentLogon, waited, network>>

(* disconnect() after its second of waiting: the socket is closed and the   *)
(* flags are reset. Without a connection recvMsg() returns false at once,   *)
(* so wherever it was called the loop starts anew.                          *)
Disconnect ==
  /\ pc = "closing"
  /\ open' = FALSE
  /\ sentLogon' = FALSE /\ age' = 0
  /\ pc' = "top"
  /\ UNCHANGED <<waited, network>>

Reader ==
  \/ Connect \/ ConnectFails \/ ConnectedAlready
  \/ SendLogon \/ SendFails \/ Crash
  \/ AwaitMessage \/ SelectTimeout \/ ReadMessage \/ ReadEnd \/ Disconnect
-----------------------------------------------------------------------------
(* A second passes. The reader blocks in select(); its own work takes no    *)
(* time, and while it connects or closes no time counts.                    *)
Tick ==
  /\ pc = "select" /\ ~Readable /\ waited < SelectTime
  /\ waited' = waited + 1
  /\ age' = age + 1
  /\ UNCHANGED <<pc, open, sentLogon, network>>

Connected == open /\ pc \in {"top", "send", "select"}

(* The exchange sends something, closes, or resets the connection. Once a   *)
(* logon is out, what it sends within a second counts as one arrival: ages  *)
(* are whole seconds.                                                       *)
Arrive ==
  /\ Connected /\ peer = "up" /\ unread < MaxUnread
  /\ sentLogon => waited > 0
  /\ unread' = unread + 1
  /\ UNCHANGED <<pc, open, sentLogon, age, waited, peer, logons>>

PeerCloses ==
  /\ Connected /\ peer = "up"
  /\ peer' = "closed"
  /\ UNCHANGED <<pc, open, sentLogon, age, waited, unread, logons>>

PeerResets ==
  /\ Connected /\ peer # "reset"
  /\ peer' = "reset"
  /\ UNCHANGED <<pc, open, sentLogon, age, waited, unread, logons>>

Exchange == Arrive \/ PeerCloses \/ PeerResets

Next == Reader \/ Tick \/ Exchange
Spec == Init /\ [][Next]_vars

(* The reader thread runs, time goes on, and of the connection attempts, of *)
(* which there is no end, one succeeds at some time. Nothing else is        *)
(* assumed of the exchange.                                                 *)
Fairness == WF_vars(Reader) /\ WF_vars(Connect) /\ WF_vars(Tick)
FairSpec == Spec /\ Fairness
-----------------------------------------------------------------------------
TypeOK ==
  /\ pc \in {"top", "send", "select", "closing", "crashed"}
  /\ open \in BOOLEAN /\ sentLogon \in BOOLEAN
  /\ age \in Nat /\ waited \in 0..SelectTime
  /\ peer \in {"up", "closed", "reset"} /\ unread \in 0..MaxUnread
  /\ logons \in Nat

(* sendLogon() is called again after every exception and every loss: the    *)
(* exchange never gets two logons on one connection, and the flag tells     *)
(* whether it got one on this one.                                          *)
OneLogonPerConnection == open => logons = IF sentLogon THEN 1 ELSE 0

(* A logon the exchange does not react to is given up: checkStatus() is     *)
(* called often enough, whatever else the exchange sends, that no logon is  *)
(* out for longer than the timeout and one select().                        *)
LogonGivenUp == sentLogon => age <= LogonTimeout + SelectTime

(* The exchange has reset the connection before the logon was written.      *)
Stuck == open /\ ~sentLogon /\ peer = "reset" /\ pc \in {"top", "send"}

(* Such a connection is never left: sendLogon() fails on the same socket,   *)
(* which still counts as connected, for ever.                               *)
StuckForGood == [][Stuck => Stuck' \/ pc' = "crashed"]_vars

(* Unless it ends up in such a connection, for ever (ExchangeSession.cpp:   *)
(* 166, 285), the session sends a logon again after every loss, at whatever *)
(* moment; and as no answer is ever taken in, it does so again and again.   *)
KeepsLoggingOn == []<>(open /\ sentLogon /\ age = 0) \/ <>(pc = "crashed") \/ <>[]Stuck
=============================================================================
