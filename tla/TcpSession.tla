----------------------------- MODULE TcpSession -----------------------------
(***************************************************************************)
(* obLib::TcpClientSession: the user's thread connects, disconnects and    *)
(* destroys the session; a receiver thread made by each connect() reads    *)
(* the socket until _shutdown is set. No socket is ever closed, and        *)
(* nothing is ever sent: send() is empty. What is read is printed.         *)
(*                                                                         *)
(* A connect() on a session that has its receiver destroys a joinable      *)
(* thread, and a disconnect() of one that has none, as in the destructor   *)
(* after a disconnect() or a failed connect(), joins a null one: both end  *)
(* the program.                                                            *)
(***************************************************************************)
EXTENDS Integers, Sequences

CONSTANTS
  MaxAddresses,   \* the greatest number of addresses a host has
  MaxSockets      \* bound: the sockets ever made

VARIABLES
  addresses,      \* the length of the list _serverInfo
  sockets,        \* the sockets made, by number
  fd,             \* _socketFileDesc, -1 or the number of a socket
  shutdown,       \* _shutdown
  receivers,      \* the receiver threads made, by number: where each is
  receiver,       \* _receiverThread, 0 or the number of a receiver
  user,           \* the call the user's thread is in
  left,           \* the addresses a connect() has not tried
  crashed         \* has std::terminate() or a null pointer ended the program?

tcp == <<addresses, sockets, fd, shutdown, receivers, receiver, user, left, crashed>>

TcpInit ==
  /\ addresses \in 0..MaxAddresses
  /\ sockets = <<>> /\ fd = -1
  /\ shutdown = TRUE
  /\ receivers = <<>> /\ receiver = 0
  /\ user = "idle" /\ left = 0
  /\ crashed = FALSE
-----------------------------------------------------------------------------
(* connect(): the addresses one after the other. *)
ConnectCall ==
  /\ user = "idle"
  /\ user' = "socket" /\ left' = addresses
  /\ UNCHANGED <<addresses, sockets, fd, shutdown, receivers, receiver, crashed>>

NoAddressLeft ==
  /\ user = "socket" /\ left = 0
  /\ user' = "idle"
  /\ UNCHANGED <<addresses, sockets, fd, shutdown, receivers, receiver, left, crashed>>

SocketFails ==
  /\ user = "socket" /\ left > 0
  /\ fd' = -1
  /\ left' = left - 1
  /\ UNCHANGED <<addresses, sockets, shutdown, receivers, receiver, user, crashed>>

(* socket(): the one before, if there is one, stays open. *)
Socket ==
  /\ user = "socket" /\ left > 0 /\ Len(sockets) < MaxSockets
  /\ sockets' = Append(sockets, [peer |-> "none", unread |-> FALSE, blocking |-> TRUE])
  /\ fd' = Len(sockets) + 1
  /\ user' = "connect" /\ left' = left - 1
  /\ UNCHANGED <<addresses, shutdown, receivers, receiver, crashed>>

(* ::connect() *)
Refused ==
  /\ user = "connect"
  /\ user' = "socket"
  /\ UNCHANGED <<addresses, sockets, fd, shutdown, receivers, receiver, left, crashed>>

Accepted ==
  /\ user = "connect"
  /\ sockets' = [sockets EXCEPT ![fd].peer = "up"]
  /\ user' = "start"
  /\ UNCHANGED <<addresses, fd, shutdown, receivers, receiver, left, crashed>>

(* Mutant of Start: the socket stays in blocking mode. *)
StartBlocking ==
  /\ user = "start"
  /\ shutdown' = FALSE
  /\ receivers' = Append(receivers, "test")
  /\ receiver' = Len(receivers) + 1
  /\ crashed' = (receiver # 0)
  /\ user' = "idle"
  /\ UNCHANGED <<addresses, sockets, fd, left>>

(* The socket is made non-blocking and a receiver thread started; the       *)
(* assignment of the pointer destroys the thread it pointed to.             *)
Start ==
  /\ user = "start"
  /\ sockets' = [sockets EXCEPT ![fd].blocking = FALSE]
  /\ shutdown' = FALSE
  /\ receivers' = Append(receivers, "test")
  /\ receiver' = Len(receivers) + 1
  /\ crashed' = (receiver # 0)
  /\ user' = "idle"
  /\ UNCHANGED <<addresses, fd, left>>

(* disconnect(), also in the destructor: the flag, and the join. *)
Disconnect ==
  /\ user = "idle"
  /\ shutdown' = TRUE
  /\ crashed' = (receiver = 0)
  /\ user' \in {"join", "destroy"}
  /\ UNCHANGED <<addresses, sockets, fd, receivers, receiver, left>>

Join ==
  /\ user \in {"join", "destroy"} /\ receivers[receiver] = "ended"
  /\ receiver' = 0
  /\ user' = IF user = "join" THEN "idle" ELSE "gone"
  /\ UNCHANGED <<addresses, sockets, fd, shutdown, receivers, left, crashed>>
-----------------------------------------------------------------------------
(* receiverThread(): while(!_shutdown) *)
Test(r) ==
  /\ receivers[r] = "test"
  /\ receivers' = [receivers EXCEPT ![r] = IF shutdown THEN "ended" ELSE "recv"]
  /\ UNCHANGED <<addresses, sockets, fd, shutdown, receiver, user, left, crashed>>

(* recv() waits on a connected socket in blocking mode until there is       *)
(* something to read or the peer has closed; else it returns, with a        *)
(* message, with 0 at the end of the stream, or with -1.                    *)
Waits(s) == s.blocking /\ s.peer = "up" /\ ~s.unread
Recv(r) ==
  /\ receivers[r] = "recv"
  /\ fd # -1 => ~Waits(sockets[fd])
  /\ sockets' = IF fd = -1 THEN sockets ELSE [sockets EXCEPT ![fd].unread = FALSE]
  /\ receivers' = [receivers EXCEPT ![r] = "test"]
  /\ UNCHANGED <<addresses, fd, shutdown, receiver, user, left, crashed>>

(* The other ends of the connections. *)
Arrive(s) ==
  /\ sockets[s].peer = "up" /\ ~sockets[s].unread
  /\ sockets' = [sockets EXCEPT ![s].unread = TRUE]
  /\ UNCHANGED <<addresses, fd, shutdown, receivers, receiver, user, left, crashed>>
PeerCloses(s) ==
  /\ sockets[s].peer = "up"
  /\ sockets' = [sockets EXCEPT ![s].peer = "closed"]
  /\ UNCHANGED <<addresses, fd, shutdown, receivers, receiver, user, left, crashed>>

Connecting == ConnectCall \/ NoAddressLeft \/ SocketFails \/ Socket \/ Refused \/ Accepted \/ Start
Receive(r) == Test(r) \/ Recv(r)

TcpNext ==
  /\ ~crashed
  /\ \/ Connecting \/ Disconnect \/ Join
     \/ \E r \in DOMAIN receivers : Receive(r)
     \/ \E s \in DOMAIN sockets : Arrive(s) \/ PeerCloses(s)
-----------------------------------------------------------------------------
(* A disconnect() under way ends, though nobody closes the socket and the   *)
(* peer may stay silent; then no receiver is left, also none of an earlier  *)
(* connection.                                                              *)
DisconnectEnds ==
  (user \in {"join", "destroy"} /\ ~crashed) ~>
    (user \in {"idle", "gone"} /\ \A r \in DOMAIN receivers : receivers[r] = "ended")
=============================================================================
