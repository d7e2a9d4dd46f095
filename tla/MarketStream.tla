---------------------------- MODULE MarketStream ----------------------------
(***************************************************************************)
(* /ws of the order service (handlers/ws.rs): the task that serves one      *)
(* WebSocket connection.  Tasks share nothing but the engine, so one is     *)
(* enough; the engine is seen here as the sequence number of each book,     *)
(* zero as long as there is none.                                           *)
(*                                                                          *)
(* The task is one loop around a select!.  Whatever its arm sends goes into *)
(* a bounded channel, and while that is full the arm waits, and with it the *)
(* loop: commands, pings and the end of the connection are not looked at.   *)
(* The channel, the socket and the client are not the repository's code.    *)
(***************************************************************************)
EXTENDS Integers, Sequences

CONSTANTS
  Symbol,
  Stream,         \* names of streams that clients ask for
  Params,         \* the sets of them that one command names
  MaxCommands,    \* bound: commands of the client
  MaxSequence,    \* bound: changes of a book
  Capacity        \* messages on their way to the client: 32 in the channel, and the socket

\* "depth.<symbol>", "ticker.<symbol>"; any other name is taken, and never served.
Prefix == {"depth", "ticker", "other"}

ASSUME StreamAssumption ==
  /\ Stream \subseteq Prefix \X Symbol
  /\ Params \subseteq SUBSET Stream
  /\ MaxCommands \in Nat /\ MaxSequence \in Nat \ {0} /\ Capacity \in Nat \ {0}

VARIABLES
  books,       \* symbol -> sequence number of its book
  commands,    \* history: what the client has sent
  received,    \* how many of them the task has taken
  subs,        \* the streams subscribed to
  task,        \* where the loop is
  outgoing,    \* messages sent and not delivered yet
  connection,  \* "failed": closed, and the error that told of it is past
  reading,     \* the client reads what comes
  acked,       \* history: the last command whose answer was delivered
  shown        \* history: the book that each stream showed last

vars == <<books, commands, received, subs, task, outgoing, connection, reading, acked, shown>>

Command == [method: {"SUBSCRIBE"}, params: Params]
             \cup [method: {"UNSUBSCRIBE"}, params: Params]
             \cup [method: {"PING", "CLOSE", "OTHER", "MALFORMED"}, params: {{}}]

\* `command` is the SUBSCRIBE that an ack answers, `book` what an update was read from
\* (a ticker's message has no number, and is told apart by it only here).
Message == [type: {"ack"}, command: Nat]
             \cup [type: {"update"}, stream: Stream, book: 0 .. MaxSequence]
             \cup [type: {"ping", "pong"}]

\* At an await: in select!, or in the call that sends `message`; `left` are the streams
\* that the tick has yet to come to.
Task == [at: {"select", "ended", "spinning"}]
          \cup [at: {"send"}, message: Message, left: SUBSET Stream]
          \cup [at: {"update"}, left: (SUBSET Stream) \ {{}}]

TypeOK ==
  /\ books \in [Symbol -> 0 .. MaxSequence]
  /\ commands \in Seq(Command) /\ Len(commands) <= MaxCommands
  /\ received \in 0 .. Len(commands)
  /\ subs \subseteq Stream
  /\ task \in Task
  /\ outgoing \in Seq(Message) /\ Len(outgoing) <= Capacity
  /\ connection \in {"open", "closed", "failed"}
  /\ reading \in BOOLEAN
  /\ acked \in 0 .. received
  /\ shown \in [Stream -> 0 .. MaxSequence]

InSelect == [at |-> "select"]
Ended    == [at |-> "ended"]
Spinning == [at |-> "spinning"]

Init ==
  /\ books \in [Symbol -> {0, 1}]
  /\ commands = <<>> /\ received = 0
  /\ subs = {}
  /\ task = InSelect
  /\ outgoing = <<>>
  /\ connection = "open" /\ reading = TRUE
  /\ acked = 0
  /\ shown = [s \in Stream |-> 0]

seen == <<acked, shown>>
outside == <<books, commands, connection, reading>>

-----------------------------------------------------------------------------
(* The arms of select! *)

Sending(message, left) == [at |-> "send", message |-> message, left |-> left]

\* The loop goes on with the rest of the tick, if there is any.
Onward(left) == IF left = {} THEN InSelect ELSE [at |-> "update", left |-> left]

\* The next command, once the task is back in select!.
Takes(method) ==
  /\ task = InSelect
  /\ received < Len(commands)
  /\ commands[received + 1].method = method
  /\ received' = received + 1
  /\ UNCHANGED <<outgoing, seen, outside>>

Named == commands[received + 1].params

Subscribe ==
  /\ Takes("SUBSCRIBE")
  /\ subs' = subs \cup Named
  /\ task' = Sending([type |-> "ack", command |-> received'], {})

\* Mutant: a command with several streams takes none away.
UnsubscribeOne ==
  /\ Takes("UNSUBSCRIBE")
  /\ subs' = IF \E s \in Stream : Named = {s} THEN subs \ Named ELSE subs
  /\ UNCHANGED task

Unsubscribe ==
  /\ Takes("UNSUBSCRIBE")
  /\ subs' = subs \ Named
  /\ UNCHANGED task

Pong ==
  /\ Takes("PING")
  /\ task' = Sending([type |-> "pong"], {})
  /\ UNCHANGED subs

\* Text that is no command, frames of other sorts, and errors that pass.
Ignore ==
  /\ Takes("OTHER")
  /\ UNCHANGED <<subs, task>>

\* Mutant: a frame of another sort.
IgnoreClose ==
  /\ Takes("CLOSE")
  /\ UNCHANGED <<subs, task>>

Close ==
  /\ Takes("CLOSE")
  /\ task' = Ended
  /\ UNCHANGED subs

\* An error that stays: what cannot be parsed is left in the library's buffer, and
\* recv() gives the error whenever it is asked.  The loop passes it over at once, again
\* and again; it never waits, so that no timer fires and no other arm gets its turn.
Spin ==
  /\ task = InSelect
  /\ received < Len(commands) /\ commands[received + 1].method = "MALFORMED"
  /\ task' = Spinning
  /\ UNCHANGED <<received, subs, outgoing, seen, outside>>

\* recv() gives None.  What the client had sent last may be lost.
StreamEnds ==
  /\ task = InSelect
  /\ connection = "closed"
  /\ task' = Ended
  /\ UNCHANGED <<received, subs, outgoing, seen, outside>>

\* recv() gives an error instead, which is passed over, and then nothing any more.
StreamFails ==
  /\ task = InSelect
  /\ connection = "closed"
  /\ connection' = "failed"
  /\ UNCHANGED <<books, commands, received, subs, task, outgoing, reading, seen>>

\* ping_interval
Ping ==
  /\ task = InSelect
  /\ task' = Sending([type |-> "ping"], {})
  /\ UNCHANGED <<received, subs, outgoing, seen, outside>>

\* update_interval
Update ==
  /\ task = InSelect
  /\ subs # {}
  /\ task' = [at |-> "update", left |-> subs]
  /\ UNCHANGED <<received, subs, outgoing, seen, outside>>

\* Mutant: a stream without a book ends the tick.
ReadFirst ==
  /\ task.at = "update"
  /\ \E s \in task.left :
       LET book == books[s[2]]
       IN  task' = IF s[1] = "other" \/ book = 0 THEN InSelect
                   ELSE Sending([type |-> "update", stream |-> s, book |-> book],
                                task.left \ {s})
  /\ UNCHANGED <<received, subs, outgoing, seen, outside>>

\* The loop over current_subs, in the order of the HashSet: the engine is locked, read
\* and unlocked for each stream on its own.
ReadStream ==
  /\ task.at = "update"
  /\ \E s \in task.left :
       LET book == books[s[2]]
           left == task.left \ {s}
       IN  task' = IF s[1] = "other" \/ book = 0 THEN Onward(left)
                   ELSE Sending([type |-> "update", stream |-> s, book |-> book], left)
  /\ UNCHANGED <<received, subs, outgoing, seen, outside>>

\* session.text, ping and pong, when there is room.
Send ==
  /\ task.at = "send"
  /\ connection = "open" /\ Len(outgoing) < Capacity
  /\ outgoing' = Append(outgoing, task.message)
  /\ task' = Onward(task.left)
  /\ UNCHANGED <<received, subs, seen, outside>>

\* Mutant: an update is sent again until it gets through.
SendRetries ==
  /\ task.at = "send"
  /\ connection # "open"
  /\ task' = IF task.message.type \in {"ack", "pong"} THEN InSelect
             ELSE IF task.message.type = "update" THEN task ELSE Ended
  /\ UNCHANGED <<received, subs, outgoing, seen, outside>>

\* When the connection is gone: the error ends the task, unless it was an answer.
SendFails ==
  /\ task.at = "send"
  /\ connection # "open"
  /\ task' = IF task.message.type \in {"ack", "pong"} THEN InSelect ELSE Ended
  /\ UNCHANGED <<received, subs, outgoing, seen, outside>>

-----------------------------------------------------------------------------
(* Around it *)

\* Orders are placed and cancelled.
BookChanges ==
  /\ \E y \in Symbol :
       /\ books[y] < MaxSequence
       /\ books' = [books EXCEPT ![y] = @ + 1]
  /\ UNCHANGED <<commands, received, subs, task, outgoing, connection, reading, seen>>

ClientSends ==
  /\ connection = "open" /\ Len(commands) < MaxCommands
  /\ \A i \in DOMAIN commands : commands[i].method # "CLOSE"
  /\ \E c \in Command : commands' = Append(commands, c)
  /\ UNCHANGED <<books, received, subs, task, outgoing, connection, reading, seen>>

ClientReads ==
  /\ connection = "open" /\ reading /\ outgoing # <<>>
  /\ outgoing' = Tail(outgoing)
  /\ LET m == Head(outgoing)
     IN  /\ acked' = IF m.type = "ack" THEN m.command ELSE acked
         /\ shown' = IF m.type = "update" THEN [shown EXCEPT ![m.stream] = m.book] ELSE shown
  /\ UNCHANGED <<books, commands, received, subs, task, connection, reading>>

\* It hangs, but its connection stays.
ClientStops ==
  /\ connection = "open" /\ reading
  /\ reading' = FALSE
  /\ UNCHANGED <<books, commands, received, subs, task, outgoing, connection, seen>>

Disconnect ==
  /\ connection' = "closed" /\ outgoing' = <<>>
  /\ UNCHANGED <<books, commands, received, subs, task, reading, seen>>

ClientGone == connection = "open" /\ Disconnect

\* The session was dropped with the task: when all is delivered, the response ends.
HangUp ==
  /\ connection = "open" /\ task = Ended /\ outgoing = <<>>
  /\ Disconnect

\* Nothing is left to do.
Over ==
  /\ task \in {Ended, Spinning} /\ connection # "open"
  /\ UNCHANGED vars

Takings == Subscribe \/ Unsubscribe \/ Pong \/ Ignore \/ Close

Next ==
  \/ Takings \/ Spin \/ StreamEnds \/ StreamFails \/ Ping \/ Update \/ ReadStream \/ Send \/ SendFails
  \/ BookChanges \/ ClientSends \/ ClientReads \/ ClientStops \/ ClientGone \/ HangUp
  \/ Over

Spec == Init /\ [][Next]_vars

\* The runtime polls a task that can go on.  select! begins with an arm drawn at random:
\* an arm that is ready again and again is taken again and again, and both intervals
\* tick for ever.  A client that reads goes on reading, until it stops.  Nothing is asked
\* of commands and orders, nor that the end of a connection be told by None.
Fairness ==
  /\ SF_vars(Takings \/ Spin) /\ SF_vars(StreamEnds \/ StreamFails)
  /\ SF_vars(Update) /\ SF_vars(Ping)
  /\ WF_vars(ReadStream \/ Send \/ SendFails)
  /\ WF_vars(ClientReads) /\ WF_vars(HangUp)

FairSpec == Spec /\ Fairness

-----------------------------------------------------------------------------
(* Properties *)

\* The streams asked for by the first n commands, by what the commands say.
WantedAfter(n) ==
  {s \in Stream :
     \E i \in 1 .. n :
       /\ commands[i].method = "SUBSCRIBE" /\ s \in commands[i].params
       /\ \A j \in i + 1 .. n : commands[j].method = "UNSUBSCRIBE" => s \notin commands[j].params}

\* What a client is shown it has asked for: each update delivered is of a stream that
\* was wanted at some point since the last command whose answer the client has got.  So
\* an UNSUBSCRIBE is heeded when a later SUBSCRIBE is answered, however full the channel
\* was, and wherever the tick stood, when it came.
UnsubscribedIsSilent ==
  [][ClientReads /\ Head(outgoing).type = "update" =>
       \E n \in acked .. received : Head(outgoing).stream \in WantedAfter(n)]_vars

\* No task outlives its connection, even one that waits for room in the channel, or that
\* heard of the end by an error which it passed over; except for a task that a malformed
\* frame had caught before.
GoneClientsLeave == connection # "open" ~> task \in {Ended, Spinning}

\* A client that says goodbye, and reads what is still on the way, is let go, if it sent
\* no malformed frame before.
CloseIsHeeded ==
  <>[](/\ reading
       /\ \E i \in DOMAIN commands : commands[i].method = "CLOSE"
       /\ \A i \in DOMAIN commands : commands[i].method # "MALFORMED")
    => <>(task = Ended /\ connection # "open")

\* A client that stays subscribed, and reads, is shown the last state of the book, once
\* this changes no more, whatever else it is subscribed to, unless a malformed frame
\* catches the task.
CatchesUp ==
  \A s \in Stream :
    LET y == s[2]
    IN  s[1] # "other" =>
          (<>[](s \in subs /\ reading /\ connection = "open" /\ task \notin {Ended, Spinning})
             => <>[](shown[s] = books[y]))
=============================================================================
