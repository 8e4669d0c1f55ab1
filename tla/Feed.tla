--------------------------------- MODULE Feed ---------------------------------
(***************************************************************************)
(* The feed: the publisher replays a capture file to its subscribers, one  *)
(* after another; a subscriber gives each message to the book of its token *)
(* and the printed message to its logger.                                  *)
(*                                                                         *)
(* Each program has one io_service thread. A handler is one action, but    *)
(* for Session::doRead, the replay of a whole file inside the accept       *)
(* handler: there an action is one message. A message travels as two       *)
(* cells, header with type, and body. A socket holds at most Room of them. *)
(*                                                                         *)
(* asio tries a write at once when no other write of the socket waits. The *)
(* rest is written when the io thread is free again, after the replay, and *)
(* from a buffer that was deleted long before: Junk.                       *)
(***************************************************************************)
EXTENDS Integers, FiniteSets, SequencesExt

CONSTANTS
  Sub,         \* subscribers
  Setup,       \* what the programs are started with, see SetupAssumption
  Single,      \* the token a publisher "for a single sec" sends
  MaxBooks,    \* MAXSECURITIES
  Room,        \* bound: the cells the sockets of a connection hold
  None, Junk

Packet == [seq : Int, kind : {"message", "broken", "unsupported"}, token : Int]
Message == [seq : Int, kind : {"message"}, token : Int]
Cell == {"head", "body"} \X Packet \cup {Junk}

(* The file of the publisher, that of the subscribers, and the publisher's flag. *)
ASSUME SetupAssumption ==
  \A u \in Setup : /\ u.sent \in Seq(Packet) /\ u.known \in Seq(Packet)
                   /\ u.single \in BOOLEAN
ASSUME BoundAssumption == MaxBooks \in Nat /\ Room \in Nat \ {0}
ASSUME ValueAssumption ==
  /\ None \notin Sub \cup Packet
  /\ Junk \notin {None} \cup Packet \cup {"head", "body"} \X (Packet \cup {None})

VARIABLES
  setup,       \* the setup of this behaviour
  pub,         \* the io thread of the publisher: "idle", "replay", "deaf" or "down"
  serving,     \* the subscriber whose replay runs
  todo,        \* what of its messages is still to be written
  failed,      \* the handler of a failed write is due
  conn,        \* s -> its connection: "none", "backlog", "open" or "shut"
  wire,        \* s -> cells written and not yet read
  rest,        \* s -> how many cells wait to be written
  pace,        \* s -> how its writes went: all "direct", one "partial", or "stuck"
  sub,         \* s -> "out", waits for a "head" or a "body", "hung", "closed" or "crashed"
  got,         \* s -> the message whose header was read
  books,       \* s -> the calls its books have seen
  logged       \* s -> the messages given to the logger

pubVars == <<pub, serving, todo, failed>>
subVars == <<sub, got, books, logged>>
vars == <<setup, pubVars, conn, wire, rest, pace, subVars>>

-----------------------------------------------------------------------------
(* The capture files *)

(* The numbers of a finite set by rising value, and what of seq is in S, in *)
(* its order: SetToSortSeq and SelectSeq, in a form the proofs can expand.  *)
Nth(S, k) == CHOOSE x \in S : Cardinality({y \in S : y < x}) = k - 1
Rising(S) == [k \in 1 .. Cardinality(S) |-> Nth(S, k)]
Only(seq, S) ==
  LET at == {i \in DOMAIN seq : seq[i] \in S} IN [k \in 1 .. Cardinality(at) |-> seq[Nth(at, k)]]

Messages(file) == Only(file, Message)
Readable(file) == \A i \in DOMAIN file : file[i].kind # "unsupported"
Tokens(file) == {p.token : p \in ToSet(Messages(file))}

(* Mutant of MktData: the messages in the order of the file. *)
MktDataAsRead(file) == Messages(file)

(* The publisher keeps the first message of a sequence number, in their order. *)
MktData(file) ==
  LET seqs == Rising({p.seq : p \in ToSet(Messages(file))})
      First(n) == SelectInSeq(Messages(file), LAMBDA p : p.seq = n)
  IN [i \in DOMAIN seqs |-> Messages(file)[First(seqs[i])]]

(* The books of a subscriber. 0 is the empty key of _symbols: it is found *)
(* before anything was stored for it, and never gets a book of its own.   *)
Subscribed(file) == Rising(Tokens(file) \ {0})

(* Mutant of BookOf: an unknown token gets the last book. *)
BookOrLast(token) ==
  LET b == SelectInSeq(Subscribed(setup.known), LAMBDA t : t = token)
  IN IF token = 0 THEN 1 ELSE IF b = 0 THEN Len(Subscribed(setup.known)) ELSE b

(* The index of the book of a token, 0 if it has none. The entry found for *)
(* token 0 is a blank one, whose value is the index of the first book.     *)
BookOf(token) ==
  IF token = 0 THEN 1 ELSE SelectInSeq(Subscribed(setup.known), LAMBDA t : t = token)

Gone(s) == sub[s] \in {"closed", "crashed"}

(* The io thread waits for handlers, with an accept pending or without. *)
Free == pub \in {"idle", "deaf"}

-----------------------------------------------------------------------------
Init ==
  /\ setup \in Setup
  /\ pub = "idle" /\ serving = None /\ todo = <<>> /\ failed = FALSE
  /\ conn = [s \in Sub |-> "none"]
  /\ wire = [s \in Sub |-> <<>>]
  /\ rest = [s \in Sub |-> 0]
  /\ pace = [s \in Sub |-> "direct"]
  /\ sub = [s \in Sub |-> "out"]
  /\ got = [s \in Sub |-> None]
  /\ books = [s \in Sub |-> <<>>]
  /\ logged = [s \in Sub |-> <<>>]

(* A subscriber reads its file, makes its books and connects. *)
Connect(s) ==
  /\ sub[s] = "out"
  /\ pub # "down" /\ Readable(setup.known) /\ Len(Subscribed(setup.known)) <= MaxBooks
  /\ sub' = [sub EXCEPT ![s] = "head"]
  /\ conn' = [conn EXCEPT ![s] = "backlog"]
  /\ books' = [books EXCEPT ![s] = [i \in DOMAIN Subscribed(setup.known) |-> <<>>]]
  /\ UNCHANGED <<setup, pubVars, wire, rest, pace, got, logged>>

(* Reading the file throws, there are too many books, or nobody listens. *)
ConnectFails(s) ==
  /\ sub[s] = "out"
  /\ \/ pub = "down"
     \/ ~ Readable(setup.known)
     \/ Len(Subscribed(setup.known)) > MaxBooks
  /\ sub' = [sub EXCEPT ![s] = "closed"]
  /\ UNCHANGED <<setup, pubVars, conn, wire, rest, pace, got, books, logged>>

(* io_service::run has returned, or an exception has left it: the *)
(* publisher ends, and with it its sockets.                       *)
Down ==
  /\ pub' = "down"
  /\ conn' = [s \in Sub |-> IF conn[s] = "none" THEN "none" ELSE "shut"]

Accept(s) ==
  /\ pub = "idle" /\ conn[s] = "backlog"
  /\ IF Readable(setup.sent)
     THEN /\ pub' = "replay" /\ serving' = s /\ todo' = MktData(setup.sent)
          /\ conn' = [conn EXCEPT ![s] = "open"]
     ELSE Down /\ UNCHANGED <<serving, todo>>
  /\ UNCHANGED <<setup, failed, wire, rest, pace, subVars>>

(* The accept fails, and may take a connection with it: its handler returns *)
(* without starting another, so that the publisher accepts nobody any more. *)
AcceptFails ==
  /\ pub = "idle"
  /\ pub' = "deaf"
  /\ \/ UNCHANGED conn
     \/ \E s \in Sub : conn[s] = "backlog" /\ conn' = [conn EXCEPT ![s] = "shut"]
  /\ UNCHANGED <<setup, serving, todo, failed, wire, rest, pace, subVars>>

(* io_service::run returns when there is nothing left to wait for. *)
RunReturns ==
  /\ pub = "deaf" /\ ~ failed /\ \A s \in Sub : conn[s] # "open"
  /\ Down
  /\ UNCHANGED <<setup, serving, todo, failed, wire, rest, pace, subVars>>

-----------------------------------------------------------------------------
(* The replay *)

Skipped == setup.single /\ Head(todo).token # Single

Skip ==
  /\ pub = "replay" /\ todo # <<>> /\ Skipped
  /\ todo' = Tail(todo)
  /\ UNCHANGED <<setup, pub, serving, failed, conn, wire, rest, pace, subVars>>

(* Mutant of Taken: there is always room. *)
TakenAll(s, n) == n

(* How many of n cells the socket takes at once. *)
Taken(s, n) == IF pace[s] = "stuck" THEN 0
               ELSE IF n <= Room - Len(wire[s]) THEN n ELSE Room - Len(wire[s])

Write ==
  /\ pub = "replay" /\ todo # <<>> /\ ~ Skipped /\ ~ Gone(serving)
  /\ todo' = Tail(todo)
  /\ LET p == Head(todo)
         n == Taken(serving, 2)
     IN /\ wire' = [wire EXCEPT ![serving] =
                      @ \o SubSeq(<< <<"head", p>>, <<"body", p>> >>, 1, n)]
        /\ rest' = [rest EXCEPT ![serving] = @ + 2 - n]
        /\ pace' = [pace EXCEPT ![serving] =
                      CASE n = 2 -> @ [] n = 1 -> "partial" [] n = 0 -> "stuck"]
  /\ UNCHANGED <<setup, pub, serving, failed, conn, subVars>>

(* The reader has gone: the first writes may still succeed. *)
WriteToClosed ==
  /\ pub = "replay" /\ todo # <<>> /\ ~ Skipped /\ Gone(serving)
  /\ todo' = Tail(todo)
  /\ failed' \in {failed, TRUE}
  /\ UNCHANGED <<setup, pub, serving, conn, wire, rest, pace, subVars>>

(* Mutant of EndReplay: it waits there until everything has been written. *)
EndReplayFlushed ==
  /\ pub = "replay" /\ todo = <<>> /\ rest[serving] = 0
  /\ pub' = "idle" /\ serving' = None
  /\ UNCHANGED <<setup, todo, failed, conn, wire, rest, pace, subVars>>

(* After five minutes doRead returns, and the next accept is started. *)
EndReplay ==
  /\ pub = "replay" /\ todo = <<>>
  /\ pub' = "idle" /\ serving' = None
  /\ UNCHANGED <<setup, todo, failed, conn, wire, rest, pace, subVars>>

-----------------------------------------------------------------------------
(* The handlers of the writes, when the io thread is free *)

Flush(s) ==
  /\ Free /\ conn[s] = "open" /\ rest[s] > 0
  /\ ~ Gone(s) /\ Len(wire[s]) < Room
  /\ wire' = [wire EXCEPT ![s] = Append(@, Junk)]
  /\ rest' = [rest EXCEPT ![s] = @ - 1]
  /\ UNCHANGED <<setup, pubVars, conn, pace, subVars>>

FlushFails(s) ==
  /\ Free /\ conn[s] = "open" /\ rest[s] > 0 /\ Gone(s)
  /\ rest' = [rest EXCEPT ![s] = 0]
  /\ failed' = TRUE
  /\ UNCHANGED <<setup, pub, serving, todo, conn, wire, pace, subVars>>

(* The handler of a failed write throws. *)
Fail ==
  /\ Free /\ failed
  /\ Down
  /\ UNCHANGED <<setup, serving, todo, failed, wire, rest, pace, subVars>>

(* The last handler that holds the session has run. *)
CloseSession(s) ==
  /\ Free /\ conn[s] = "open" /\ rest[s] = 0
  /\ conn' = [conn EXCEPT ![s] = "shut"]
  /\ UNCHANGED <<setup, pubVars, wire, rest, pace, subVars>>

-----------------------------------------------------------------------------
(* The subscriber *)

(* Once a cell was not the expected one, the reads are out of step for good. *)
ReadHead(s) ==
  /\ sub[s] = "head" /\ wire[s] # <<>>
  /\ LET cell == Head(wire[s])
         right == got[s] # Junk /\ cell # Junk /\ cell[1] = "head"
     IN \/ /\ got' = [got EXCEPT ![s] = IF right THEN cell[2] ELSE Junk]
           /\ sub' = [sub EXCEPT ![s] = "body"]
           /\ wire' = [wire EXCEPT ![s] = Tail(@)]
        \* an unknown type: no read is started, io_service::run returns, and
        \* the subscriber ends, or waits in ~Logger before it closes its socket
        \/ /\ ~ right
           /\ got' = [got EXCEPT ![s] = Junk]
           /\ \/ sub' = [sub EXCEPT ![s] = "closed"] /\ wire' = [wire EXCEPT ![s] = <<>>]
              \/ sub' = [sub EXCEPT ![s] = "hung"] /\ wire' = [wire EXCEPT ![s] = Tail(@)]
  /\ UNCHANGED <<setup, pubVars, conn, rest, pace, books, logged>>

(* What the read of a body gives. *)
Body(s) == IF got[s] # Junk /\ Head(wire[s]) = <<"body", got[s]>> THEN got[s] ELSE Junk

(* Junk may have the token of any book, or of none. *)
Targets(s) == IF Body(s) = Junk THEN 0 .. Len(books[s])
              ELSE {BookOf(Body(s).token)} \cap (0 .. Len(books[s]))

(* Mutant of ReadBody: without a book nothing is caught. *)
ReadBodyOrLeave(s) ==
  /\ sub[s] = "body" /\ wire[s] # <<>>
  /\ \E b \in Targets(s) :
       /\ books' = IF b = 0 THEN books ELSE [books EXCEPT ![s][b] = Append(@, Body(s))]
       /\ sub' = [sub EXCEPT ![s] = IF b = 0 THEN "closed" ELSE "head"]
       /\ logged' = [logged EXCEPT ![s] = IF b = 0 THEN @ ELSE Append(@, Body(s))]
  /\ got' = [got EXCEPT ![s] = IF Body(s) = Junk THEN Junk ELSE None]
  /\ wire' = [wire EXCEPT ![s] = Tail(@)]
  /\ UNCHANGED <<setup, pubVars, conn, rest, pace>>

(* The message goes to its book, which may throw; without a book the manager *)
(* throws. Both are caught, and the message is logged.                       *)
ReadBody(s) ==
  /\ sub[s] = "body" /\ wire[s] # <<>>
  /\ \E b \in Targets(s) :
       books' = IF b = 0 THEN books ELSE [books EXCEPT ![s][b] = Append(@, Body(s))]
  /\ logged' = [logged EXCEPT ![s] = Append(@, Body(s))]
  /\ got' = [got EXCEPT ![s] = IF Body(s) = Junk THEN Junk ELSE None]
  /\ sub' = [sub EXCEPT ![s] = "head"]
  /\ wire' = [wire EXCEPT ![s] = Tail(@)]
  /\ UNCHANGED <<setup, pubVars, conn, rest, pace>>

(* The handler uses references to parameters of doReadBody, which returned *)
(* before: the pointers it finds there may be anything. The books may also *)
(* be none, with a message for token 0.                                    *)
Crash(s) ==
  /\ sub[s] = "body" /\ wire[s] # <<>>
  /\ sub' = [sub EXCEPT ![s] = "crashed"]
  /\ wire' = [wire EXCEPT ![s] = <<>>]
  /\ UNCHANGED <<setup, pubVars, conn, rest, pace, got, books, logged>>

ReadEof(s) ==
  /\ sub[s] \in {"head", "body"} /\ wire[s] = <<>> /\ conn[s] = "shut"
  /\ sub' = [sub EXCEPT ![s] = "closed"]
  /\ UNCHANGED <<setup, pubVars, conn, wire, rest, pace, got, books, logged>>

-----------------------------------------------------------------------------
Publish == \/ Skip \/ Write \/ WriteToClosed \/ EndReplay \/ Fail \/ RunReturns
           \/ \E s \in Sub : Accept(s) \/ Flush(s) \/ FlushFails(s) \/ CloseSession(s)
Receive(s) == ReadHead(s) \/ ReadBody(s) \/ Crash(s) \/ ReadEof(s)

Next == Publish \/ AcceptFails \/ \E s \in Sub : Connect(s) \/ ConnectFails(s) \/ Receive(s)

(* Both programs run their io threads. No accept has to fail. *)
Spec == /\ Init /\ [][Next]_vars
        /\ WF_vars(Publish) /\ \A s \in Sub : WF_vars(Receive(s))

-----------------------------------------------------------------------------
(* Types of the variables; the sockets hold no more than they can. *)
TypeOK ==
  /\ setup \in Setup
  /\ pub \in {"idle", "replay", "deaf", "down"} /\ failed \in BOOLEAN
  /\ serving \in Sub \cup {None} /\ (serving = None <=> pub # "replay")
  /\ todo \in Seq(Packet)
  /\ conn \in [Sub -> {"none", "backlog", "open", "shut"}]
  /\ wire \in [Sub -> Seq(Cell)] /\ \A s \in Sub : Len(wire[s]) <= Room
  /\ rest \in [Sub -> Nat]
  /\ pace \in [Sub -> {"direct", "partial", "stuck"}]
  /\ sub \in [Sub -> {"out", "head", "body", "hung", "closed", "crashed"}]
  /\ got \in [Sub -> Packet \cup {None, Junk}]
  /\ logged \in [Sub -> Seq(Packet \cup {Junk})]
  /\ books \in [Sub -> Seq(Seq(Packet \cup {Junk}))]

(* A message that should be published: the first of the file with its number. *)
Wanted(p) ==
  LET file == Messages(setup.sent)
  IN /\ \E i \in DOMAIN file : file[i] = p /\ \A j \in 1 .. i - 1 : file[j].seq # p.seq
     /\ setup.single => p.token = Single

Clean(seq) == Only(seq, ToSet(seq) \ {Junk})

(* However the writes and reads of publisher and subscribers interleave,   *)
(* a subscriber has logged the messages of the file by rising sequence     *)
(* number, each once and none left out, up to where it has lost step with  *)
(* the stream; and it has lost step only when a write had to wait          *)
(* (Publisher.hpp:37, 143).                                                *)
InOrder ==
  \A s \in Sub :
    /\ \A i \in DOMAIN logged[s] : logged[s][i] # Junk =>
         /\ Wanted(logged[s][i])
         /\ \A j \in 1 .. i - 1 : logged[s][j] # Junk /\ logged[s][j].seq < logged[s][i].seq
    /\ \A p \in ToSet(setup.sent) :
         Wanted(p) /\ (\E q \in ToSet(logged[s]) \ {Junk} : p.seq < q.seq) => p \in ToSet(logged[s])
    /\ pace[s] = "direct" => got[s] # Junk /\ Junk \notin ToSet(logged[s])

(* A book has seen the messages of its own token that were logged, in that *)
(* order, and no others but those of token 0, the empty key of the map     *)
(* (OrderBookManager.hpp:114), which all go to the first book.             *)
OwnBook ==
  \A s \in Sub : \A i \in DOMAIN books[s] :
    LET Own(p) == p.token = Subscribed(setup.known)[i] \/ (i = 1 /\ p.token = 0)
    IN Clean(books[s][i]) = Only(logged[s], {p \in ToSet(logged[s]) \ {Junk} : Own(p)})

(* A subscriber that has connected is accepted or refused, whatever the    *)
(* ones before it do: the replay of another is never waited for for good,  *)
(* not even when its reader has gone (Publisher.hpp:178). It is neither    *)
(* only where an accept has failed (Publisher.hpp:174-177) and the program *)
(* cannot end, as a write to a subscriber that hangs waits for good.       *)
Unending == pub = "deaf" /\ \E r \in Sub : conn[r] = "open" /\ sub[r] = "hung" /\ rest[r] > 0
EveryoneServed == \A s \in Sub : conn[s] = "backlog" ~> (conn[s] # "backlog" \/ []Unending)

Complete(s) == \A p \in ToSet(setup.sent) : Wanted(p) => p \in ToSet(logged[s])

(* A subscriber that was accepted gets the whole file, unless a write had  *)
(* to wait or it crashed itself: the publisher ending over the failure of  *)
(* another connection takes nothing from it (Publisher.hpp:46).            *)
Delivered ==
  \A s \in Sub : conn[s] = "open" ~>
                   (Complete(s) \/ pace[s] # "direct" \/ sub[s] = "crashed")
=============================================================================
