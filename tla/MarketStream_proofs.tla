-------------------------- MODULE MarketStream_proofs --------------------------
(* Theorems about MarketStream, for any symbols, streams, commands and capacity. *)
EXTENDS MarketStream, SequenceTheorems, TLAPS

\* What the task is about to send, and what it has left to do in this tick, is of now:
\* no command is taken meanwhile.
TaskOK ==
  /\ subs = WantedAfter(received)
  /\ task.at \in {"send", "update"} => task.left \subseteq subs
  /\ task.at = "send" /\ task.message.type = "update" => task.message.stream \in subs
  /\ task.at = "send" /\ task.message.type = "ack" => task.message.command = received

\* An update on its way was wanted after some command, no earlier than any whose answer
\* goes before it.
UpdatesOK ==
  \A j \in DOMAIN outgoing :
    outgoing[j].type = "update" =>
      \E n \in acked .. received :
        /\ outgoing[j].stream \in WantedAfter(n)
        /\ \A i \in 1 .. j - 1 : outgoing[i].type = "ack" => outgoing[i].command <= n

\* Answers are on their way in the order of the commands.
AcksOK ==
  \A j \in DOMAIN outgoing :
    outgoing[j].type = "ack" =>
      /\ outgoing[j].command \in acked .. received
      /\ \A i \in 1 .. j - 1 :
           outgoing[i].type = "ack" => outgoing[i].command <= outgoing[j].command

StreamInv == TypeOK /\ TaskOK /\ UpdatesOK /\ AcksOK

-----------------------------------------------------------------------------
(* Types *)

LEMMA TaskTypes ==
  /\ InSelect \in Task /\ Ended \in Task /\ Spinning \in Task
  /\ \A message \in Message, left \in SUBSET Stream : Sending(message, left) \in Task
  /\ \A left \in SUBSET Stream : Onward(left) \in Task
  /\ \A left \in (SUBSET Stream) \ {{}} : [at |-> "update", left |-> left] \in Task
<1>1. InSelect \in Task /\ Ended \in Task /\ Spinning \in Task
  BY DEF InSelect, Ended, Spinning, Task
<1>2. \A message \in Message, left \in SUBSET Stream : Sending(message, left) \in Task
  BY DEF Sending, Task
<1>3. \A left \in (SUBSET Stream) \ {{}} : [at |-> "update", left |-> left] \in Task
  BY DEF Task
<1>4. \A left \in SUBSET Stream : Onward(left) \in Task
  <2> TAKE left \in SUBSET Stream
  <2>1. CASE left = {}
    BY <1>1, <2>1 DEF Onward
  <2>2. CASE left # {}
    BY <1>3, <2>2 DEF Onward
  <2> QED
    BY <2>1, <2>2
<1> QED
  BY <1>1, <1>2, <1>3, <1>4

LEMMA TaskFields ==
  ASSUME task \in Task
  PROVE  /\ task.at = "send" => task.message \in Message /\ task.left \in SUBSET Stream
         /\ task.at = "update" => task.left \in (SUBSET Stream) \ {{}}
BY DEF Task

LEMMA MessageTypes ==
  /\ [type |-> "ping"] \in Message /\ [type |-> "pong"] \in Message
  /\ \A n \in Nat : [type |-> "ack", command |-> n] \in Message
  /\ \A s \in Stream, n \in 0 .. MaxSequence : [type |-> "update", stream |-> s, book |-> n] \in Message
BY DEF Message

LEMMA MessageFields ==
  ASSUME NEW m \in Message
  PROVE  /\ m.type = "ack" => m.command \in Nat
         /\ m.type = "update" => m.stream \in Stream /\ m.book \in 0 .. MaxSequence
BY DEF Message

LEMMA CommandFields ==
  ASSUME NEW c \in Command
  PROVE  c.params \subseteq Stream
BY StreamAssumption DEF Command

-----------------------------------------------------------------------------
(* What the commands say *)

\* One more command taken.
LEMMA WantedNext ==
  ASSUME NEW n \in Nat, commands \in Seq(Command), n < Len(commands)
  PROVE  LET c == commands[n + 1]
         IN  WantedAfter(n + 1) =
               IF c.method = "SUBSCRIBE" THEN WantedAfter(n) \cup c.params
               ELSE IF c.method = "UNSUBSCRIBE" THEN WantedAfter(n) \ c.params
               ELSE WantedAfter(n)
<1> DEFINE c == commands[n + 1]
<1>1. c \in Command /\ c.params \subseteq Stream
  BY CommandFields
<1>2. \A i : i \in 1 .. n + 1 <=> i \in 1 .. n \/ i = n + 1
  OBVIOUS
<1>3. \A i \in 1 .. n : \A j : j \in i + 1 .. n + 1 <=> j \in i + 1 .. n \/ j = n + 1
  OBVIOUS
<1>4. \A j : j \notin n + 1 + 1 .. n + 1
  OBVIOUS
<1>5. ASSUME NEW s \in Stream
      PROVE  s \in WantedAfter(n + 1) <=>
               \/ c.method = "SUBSCRIBE" /\ s \in c.params
               \/ s \in WantedAfter(n) /\ (c.method = "UNSUBSCRIBE" => s \notin c.params)
  <2>1. ASSUME s \in WantedAfter(n + 1)
        PROVE  \/ c.method = "SUBSCRIBE" /\ s \in c.params
               \/ s \in WantedAfter(n) /\ (c.method = "UNSUBSCRIBE" => s \notin c.params)
    <3>1. PICK i \in 1 .. n + 1 :
            /\ commands[i].method = "SUBSCRIBE" /\ s \in commands[i].params
            /\ \A j \in i + 1 .. n + 1 :
                 commands[j].method = "UNSUBSCRIBE" => s \notin commands[j].params
      BY <2>1 DEF WantedAfter
    <3>2. CASE i = n + 1
      BY <3>1, <3>2
    <3>3. CASE i \in 1 .. n
      <4>1. \A j \in i + 1 .. n :
              commands[j].method = "UNSUBSCRIBE" => s \notin commands[j].params
        BY <1>3, <3>1, <3>3
      <4>2. n + 1 \in i + 1 .. n + 1
        BY <1>3, <3>3
      <4> QED
        BY <3>1, <3>3, <4>1, <4>2 DEF WantedAfter
    <3> QED
      BY <1>2, <3>2, <3>3
  <2>2. ASSUME c.method = "SUBSCRIBE" /\ s \in c.params
        PROVE  s \in WantedAfter(n + 1)
    BY <1>2, <1>4, <2>2 DEF WantedAfter
  <2>3. ASSUME s \in WantedAfter(n), c.method = "UNSUBSCRIBE" => s \notin c.params
        PROVE  s \in WantedAfter(n + 1)
    <3>1. PICK i \in 1 .. n :
            /\ commands[i].method = "SUBSCRIBE" /\ s \in commands[i].params
            /\ \A j \in i + 1 .. n :
                 commands[j].method = "UNSUBSCRIBE" => s \notin commands[j].params
      BY <2>3 DEF WantedAfter
    <3>2. \A j \in i + 1 .. n + 1 :
            commands[j].method = "UNSUBSCRIBE" => s \notin commands[j].params
      BY <1>3, <2>3, <3>1
    <3> QED
      BY <1>2, <3>1, <3>2 DEF WantedAfter
  <2> QED
    BY <2>1, <2>2, <2>3
<1>6. WantedAfter(n) \subseteq Stream /\ WantedAfter(n + 1) \subseteq Stream
  BY DEF WantedAfter
<1> HIDE DEF c
<1>7. WantedAfter(n + 1) =
        IF c.method = "SUBSCRIBE" THEN WantedAfter(n) \cup c.params
        ELSE IF c.method = "UNSUBSCRIBE" THEN WantedAfter(n) \ c.params
        ELSE WantedAfter(n)
  <2>1. CASE c.method = "SUBSCRIBE"
    BY <1>1, <1>5, <1>6, <2>1
  <2>2. CASE c.method = "UNSUBSCRIBE"
    BY <1>1, <1>5, <1>6, <2>2
  <2>3. CASE c.method \notin {"SUBSCRIBE", "UNSUBSCRIBE"}
    BY <1>1, <1>5, <1>6, <2>3
  <2> QED
    BY <2>1, <2>2, <2>3
<1> QED
  BY <1>7 DEF c

\* A command that is sent later does not change what was wanted before.
LEMMA WantedBefore ==
  ASSUME commands \in Seq(Command), NEW c \in Command, commands' = Append(commands, c),
         NEW n \in 0 .. Len(commands)
  PROVE  WantedAfter(n)' = WantedAfter(n)
<1>1. \A i \in 1 .. n : commands'[i] = commands[i]
  <2>1. \A i \in 1 .. Len(commands) : commands'[i] = commands[i]
    BY AppendProperties
  <2>2. Len(commands) \in Nat
    OBVIOUS
  <2> QED
    BY <2>1, <2>2
<1>2. \A i \in 1 .. n : \A j \in i + 1 .. n : j \in 1 .. n
  OBVIOUS
<1> QED
  BY <1>1, <1>2 DEF WantedAfter

LEMMA InitStream == Init => StreamInv
<1> SUFFICES ASSUME Init PROVE StreamInv
  OBVIOUS
<1>1. commands = <<>> /\ received = 0 /\ outgoing = <<>> /\ acked = 0 /\ task = InSelect
  BY DEF Init
<1>2. Len(commands) = 0 /\ commands \in Seq(Command) /\ outgoing \in Seq(Message)
      /\ Len(outgoing) = 0 /\ DOMAIN outgoing = {}
  BY <1>1
<1>3. TypeOK
  <2>1. /\ {0, 1} \subseteq 0 .. MaxSequence /\ 0 \in 0 .. 0
        /\ 0 <= MaxCommands /\ 0 <= Capacity
    BY StreamAssumption
  <2>2. books \in [Symbol -> 0 .. MaxSequence] /\ shown \in [Stream -> 0 .. MaxSequence]
    BY <2>1 DEF Init
  <2>3. task \in Task
    BY <1>1, TaskTypes
  <2> QED
    BY <1>1, <1>2, <2>1, <2>2, <2>3 DEF Init, TypeOK
<1>4. TaskOK
  BY <1>1 DEF Init, TaskOK, WantedAfter, InSelect
<1> QED
  BY <1>2, <1>3, <1>4 DEF StreamInv, UpdatesOK, AcksOK

-----------------------------------------------------------------------------
(* Steps *)

\* What is on its way stays as right as it was, when commands are taken or sent.
LEMMA FlowStays ==
  ASSUME StreamInv, UNCHANGED <<outgoing, acked>>, received' \in {received, received + 1},
         \A n \in 0 .. received : WantedAfter(n)' = WantedAfter(n)
  PROVE  UpdatesOK' /\ AcksOK'
<1>1. /\ received \in Nat /\ acked \in 0 .. received
      /\ \A n \in acked .. received : n \in 0 .. received /\ n \in acked .. received'
  BY DEF StreamInv, TypeOK
<1>2. UpdatesOK'
  <2> SUFFICES ASSUME NEW j \in DOMAIN outgoing, outgoing[j].type = "update"
               PROVE  \E n \in acked .. received' :
                        /\ outgoing[j].stream \in WantedAfter(n)'
                        /\ \A i \in 1 .. j - 1 :
                             outgoing[i].type = "ack" => outgoing[i].command <= n
    BY DEF UpdatesOK
  <2>1. PICK n \in acked .. received :
          /\ outgoing[j].stream \in WantedAfter(n)
          /\ \A i \in 1 .. j - 1 : outgoing[i].type = "ack" => outgoing[i].command <= n
    BY DEF StreamInv, UpdatesOK
  <2> QED
    BY <1>1, <2>1
<1>3. AcksOK'
  BY <1>1 DEF StreamInv, AcksOK
<1> QED
  BY <1>2, <1>3

LEMMA SameCommands ==
  ASSUME UNCHANGED commands, NEW n
  PROVE  WantedAfter(n)' = WantedAfter(n)
BY DEF WantedAfter

\* A step that changes where the task is, and nothing else.
LEMMA TaskStepKeeps ==
  ASSUME StreamInv, UNCHANGED <<received, subs, outgoing, seen, outside>>,
         task' \in Task,
         task'.at \in {"send", "update"} => task'.left \subseteq subs,
         task'.at = "send" /\ task'.message.type = "update" => task'.message.stream \in subs,
         task'.at = "send" => task'.message.type # "ack"
  PROVE  StreamInv'
<1>1. UpdatesOK' /\ AcksOK'
  BY FlowStays, SameCommands DEF seen, outside
<1>2. TypeOK'
  BY DEF StreamInv, TypeOK, seen, outside
<1>3. TaskOK'
  BY SameCommands DEF StreamInv, TaskOK, outside
<1> QED
  BY <1>1, <1>2, <1>3 DEF StreamInv

LEMMA TakingKeeps ==
  ASSUME StreamInv, Takings
  PROVE  StreamInv'
<1>1. /\ task = InSelect /\ received < Len(commands) /\ received' = received + 1
      /\ UNCHANGED <<outgoing, seen, outside>>
  BY DEF Takings, Subscribe, Unsubscribe, Pong, Ignore, Close, Takes
<1>2. /\ commands \in Seq(Command) /\ Len(commands) \in Nat /\ received \in Nat
      /\ received' \in 0 .. Len(commands) /\ acked \in 0 .. received'
  BY <1>1 DEF StreamInv, TypeOK
<1>3. UpdatesOK' /\ AcksOK'
  BY <1>1, FlowStays, SameCommands DEF seen, outside
<1>4. subs = WantedAfter(received) /\ Named \subseteq Stream /\ subs \subseteq Stream
  BY <1>1, <1>2, CommandFields DEF StreamInv, TypeOK, TaskOK, Named
<1>5. /\ subs' = WantedAfter(received + 1) /\ subs' \subseteq Stream
      /\ task' \in Task /\ task'.at # "update"
      /\ task'.at = "send" => /\ task'.left = {} /\ task'.message.type # "update"
                              /\ task'.message.type = "ack" => task'.message.command = received'
  <2>1. CASE Subscribe
    <3>1. /\ subs' = subs \cup Named /\ commands[received + 1].method = "SUBSCRIBE"
          /\ task' = Sending([type |-> "ack", command |-> received'], {})
      BY <2>1 DEF Subscribe, Takes
    <3>2. task' \in Task
      BY <1>2, <3>1, TaskTypes, MessageTypes
    <3>3. subs' = WantedAfter(received + 1)
      BY <1>1, <1>2, <1>4, <3>1, WantedNext DEF Named
    <3>4. /\ task'.at = "send" /\ task'.left = {}
          /\ task'.message.type = "ack" /\ task'.message.command = received'
      BY <3>1 DEF Sending
    <3>5. subs' \subseteq Stream
      BY <1>4, <3>1
    <3> QED
      BY <3>2, <3>3, <3>4, <3>5
  <2>2. CASE Unsubscribe
    <3>1. /\ subs' = subs \ Named /\ commands[received + 1].method = "UNSUBSCRIBE"
          /\ task' = InSelect
      BY <1>1, <2>2 DEF Unsubscribe, Takes
    <3>2. task' \in Task /\ task'.at = "select"
      BY <3>1, TaskTypes DEF InSelect
    <3>3. subs' = WantedAfter(received + 1)
      BY <1>1, <1>2, <1>4, <3>1, WantedNext DEF Named
    <3>4. subs' \subseteq Stream
      BY <1>4, <3>1
    <3> QED
      BY <3>2, <3>3, <3>4
  <2>3. CASE Pong
    <3>1. /\ subs' = subs /\ commands[received + 1].method = "PING"
          /\ task' = Sending([type |-> "pong"], {})
      BY <2>3 DEF Pong, Takes
    <3>2. task' \in Task
      BY <3>1, TaskTypes, MessageTypes
    <3>3. subs' = WantedAfter(received + 1)
      BY <1>1, <1>2, <1>4, <3>1, WantedNext
    <3>4. task'.at = "send" /\ task'.left = {} /\ task'.message.type = "pong"
      BY <3>1 DEF Sending
    <3>5. subs' \subseteq Stream
      BY <1>4, <3>1
    <3> QED
      BY <3>2, <3>3, <3>4, <3>5
  <2>4. CASE Ignore
    <3>1. /\ subs' = subs /\ commands[received + 1].method = "OTHER"
          /\ task' = InSelect
      BY <1>1, <2>4 DEF Ignore, Takes
    <3>2. task' \in Task /\ task'.at = "select"
      BY <3>1, TaskTypes DEF InSelect
    <3>3. subs' = WantedAfter(received + 1)
      BY <1>1, <1>2, <1>4, <3>1, WantedNext DEF Named
    <3>4. subs' \subseteq Stream
      BY <1>4, <3>1
    <3> QED
      BY <3>2, <3>3, <3>4
  <2>5. CASE Close
    <3>1. /\ subs' = subs /\ commands[received + 1].method = "CLOSE"
          /\ task' = Ended
      BY <1>1, <2>5 DEF Close, Takes
    <3>2. task' \in Task /\ task'.at = "ended"
      BY <3>1, TaskTypes DEF Ended
    <3>3. subs' = WantedAfter(received + 1)
      BY <1>1, <1>2, <1>4, <3>1, WantedNext DEF Named
    <3>4. subs' \subseteq Stream
      BY <1>4, <3>1
    <3> QED
      BY <3>2, <3>3, <3>4
  <2> QED
    BY <2>1, <2>2, <2>3, <2>4, <2>5 DEF Takings
<1>6. TypeOK'
  BY <1>1, <1>2, <1>5 DEF StreamInv, TypeOK, seen, outside
<1>7. TaskOK'
  BY <1>1, <1>5, SameCommands DEF TaskOK, outside
<1> QED
  BY <1>3, <1>6, <1>7 DEF StreamInv

LEMMA StreamEndsKeeps ==
  ASSUME StreamInv, StreamEnds
  PROVE  StreamInv'
BY TaskStepKeeps, TaskTypes DEF StreamEnds, Ended

LEMMA SpinKeeps ==
  ASSUME StreamInv, Spin
  PROVE  StreamInv'
BY TaskStepKeeps, TaskTypes DEF Spin, Spinning

LEMMA StreamFailsKeeps ==
  ASSUME StreamInv, StreamFails
  PROVE  StreamInv'
<1>1. connection' = "failed"
      /\ UNCHANGED <<books, commands, received, subs, task, outgoing, reading, acked, shown>>
  BY DEF StreamFails, seen
<1>2. TypeOK'
  BY <1>1 DEF StreamInv, TypeOK
<1>3. TaskOK'
  BY <1>1, SameCommands DEF StreamInv, TaskOK
<1> QED
  BY <1>1, <1>2, <1>3, FlowStays, SameCommands DEF StreamInv

LEMMA PingKeeps ==
  ASSUME StreamInv, Ping
  PROVE  StreamInv'
<1>1. task' = Sending([type |-> "ping"], {}) /\ UNCHANGED <<received, subs, outgoing, seen, outside>>
  BY DEF Ping
<1>2. task' \in Task
  BY <1>1, TaskTypes, MessageTypes
<1> QED
  BY <1>1, <1>2, TaskStepKeeps DEF Sending

LEMMA UpdateKeeps ==
  ASSUME StreamInv, Update
  PROVE  StreamInv'
<1>1. task' = [at |-> "update", left |-> subs] /\ UNCHANGED <<received, subs, outgoing, seen, outside>>
  BY DEF Update
<1>2. task' \in Task
  BY <1>1, TaskTypes DEF StreamInv, TypeOK, Update
<1> QED
  BY <1>1, <1>2, TaskStepKeeps

LEMMA ReadStreamKeeps ==
  ASSUME StreamInv, ReadStream
  PROVE  StreamInv'
<1>1. /\ task.at = "update" /\ UNCHANGED <<received, subs, outgoing, seen, outside>>
      /\ task.left \subseteq subs /\ subs \subseteq Stream
      /\ books \in [Symbol -> 0 .. MaxSequence]
  BY DEF ReadStream, StreamInv, TypeOK, TaskOK
<1>2. PICK s \in task.left :
        task' = IF s[1] = "other" \/ books[s[2]] = 0 THEN Onward(task.left \ {s})
                ELSE Sending([type |-> "update", stream |-> s, book |-> books[s[2]]],
                             task.left \ {s})
  BY DEF ReadStream
<1> DEFINE left == task.left \ {s}
<1>3. CASE s[1] = "other" \/ books[s[2]] = 0
  <2>1. task' = Onward(left)
    BY <1>2, <1>3
  <2>2. task' \in Task
    BY <1>1, <2>1, TaskTypes
  <2>3. task'.at # "send" /\ (task'.at = "update" => task'.left \subseteq subs)
    BY <1>1, <2>1 DEF Onward, InSelect
  <2> QED
    BY <1>1, <2>2, <2>3, TaskStepKeeps
<1>4. CASE ~(s[1] = "other" \/ books[s[2]] = 0)
  <2>1. task' = Sending([type |-> "update", stream |-> s, book |-> books[s[2]]], left)
    BY <1>2, <1>4
  <2>2. s \in Stream /\ books[s[2]] \in 0 .. MaxSequence
    BY <1>1, StreamAssumption DEF Prefix
  <2>3. task' \in Task
    BY <1>1, <2>1, <2>2, TaskTypes, MessageTypes
  <2> QED
    BY <1>1, <2>1, <2>3, TaskStepKeeps DEF Sending
<1> QED
  BY <1>3, <1>4

LEMMA SendFailsKeeps ==
  ASSUME StreamInv, SendFails
  PROVE  StreamInv'
BY TaskStepKeeps, TaskTypes DEF SendFails, InSelect, Ended

\* What is sent is of now; the answers before it are of commands taken before.
LEMMA SendKeeps ==
  ASSUME StreamInv, Send
  PROVE  StreamInv'
<1> DEFINE m == task.message
           L == Len(outgoing)
<1>1. /\ task.at = "send" /\ L < Capacity
      /\ outgoing' = Append(outgoing, m) /\ task' = Onward(task.left)
      /\ UNCHANGED <<received, subs, seen, outside>>
  BY DEF Send
<1>2. /\ m \in Message /\ task.left \in SUBSET Stream
      /\ outgoing \in Seq(Message) /\ L \in Nat
      /\ received \in Nat /\ acked \in 0 .. received
      /\ subs = WantedAfter(received)
  BY <1>1, TaskFields DEF StreamInv, TypeOK, TaskOK
<1>3. /\ outgoing' \in Seq(Message) /\ Len(outgoing') = L + 1
      /\ DOMAIN outgoing' = 1 .. L + 1 /\ DOMAIN outgoing = 1 .. L
      /\ \A i \in 1 .. L : outgoing'[i] = outgoing[i]
      /\ outgoing'[L + 1] = m
  <2> HIDE DEF m
  <2> QED
    BY <1>1, <1>2, AppendProperties
<1>4. /\ m.type = "update" => m.stream \in WantedAfter(received)
      /\ m.type = "ack" => m.command = received
  BY <1>1, <1>2 DEF StreamInv, TaskOK
<1> HIDE DEF m, L
<1>5. TypeOK'
  <2>1. task' \in Task
    BY <1>1, <1>2, TaskTypes
  <2>2. Len(outgoing') <= Capacity
    BY <1>1, <1>2, <1>3, StreamAssumption
  <2> QED
    BY <1>1, <1>3, <2>1, <2>2 DEF StreamInv, TypeOK, seen, outside
<1>6. TaskOK'
  <2>1. task'.at # "send" /\ (task'.at = "update" => task'.left = task.left)
    BY <1>1 DEF Onward, InSelect
  <2>2. task.left \subseteq subs
    BY <1>1 DEF StreamInv, TaskOK
  <2> QED
    BY <1>1, <1>2, <2>1, <2>2, SameCommands DEF TaskOK, outside
<1>7. \A i \in 1 .. L : outgoing[i].type = "ack" => outgoing[i].command <= received
  <2> SUFFICES ASSUME NEW i \in 1 .. L, outgoing[i].type = "ack"
               PROVE  outgoing[i].command <= received
    OBVIOUS
  <2>1. outgoing[i].command \in acked .. received
    BY <1>3 DEF StreamInv, AcksOK
  <2> QED
    BY <1>2, <2>1
<1>8. UpdatesOK'
  <2> SUFFICES ASSUME NEW j \in 1 .. L + 1, outgoing'[j].type = "update"
               PROVE  \E n \in acked .. received :
                        /\ outgoing'[j].stream \in WantedAfter(n)
                        /\ \A i \in 1 .. j - 1 :
                             outgoing'[i].type = "ack" => outgoing'[i].command <= n
    BY <1>1, <1>3, SameCommands DEF UpdatesOK, seen, outside
  <2>1. CASE j = L + 1
    <3>1. received \in acked .. received /\ \A i \in 1 .. j - 1 : i \in 1 .. L
      BY <1>2, <2>1
    <3> QED
      BY <1>3, <1>4, <1>7, <2>1, <3>1
  <2>2. CASE j # L + 1
    <3>1. j \in 1 .. L /\ \A i \in 1 .. j - 1 : i \in 1 .. L
      BY <1>2, <2>2
    <3>2. outgoing[j].type = "update" /\ outgoing[j] = outgoing'[j]
      BY <1>3, <3>1
    <3>3. PICK n \in acked .. received :
            /\ outgoing[j].stream \in WantedAfter(n)
            /\ \A i \in 1 .. j - 1 : outgoing[i].type = "ack" => outgoing[i].command <= n
      BY <1>3, <3>1, <3>2 DEF StreamInv, UpdatesOK
    <3> QED
      BY <1>3, <3>1, <3>2, <3>3
  <2> QED
    BY <2>1, <2>2
<1>9. AcksOK'
  <2> SUFFICES ASSUME NEW j \in 1 .. L + 1, outgoing'[j].type = "ack"
               PROVE  /\ outgoing'[j].command \in acked .. received
                      /\ \A i \in 1 .. j - 1 :
                           outgoing'[i].type = "ack" => outgoing'[i].command <= outgoing'[j].command
    BY <1>1, <1>3 DEF AcksOK, seen
  <2>1. CASE j = L + 1
    <3>1. received \in acked .. received /\ \A i \in 1 .. j - 1 : i \in 1 .. L
      BY <1>2, <2>1
    <3> QED
      BY <1>3, <1>4, <1>7, <2>1, <3>1
  <2>2. CASE j # L + 1
    <3>1. j \in 1 .. L /\ \A i \in 1 .. j - 1 : i \in 1 .. L
      BY <1>2, <2>2
    <3> QED
      BY <1>3, <3>1 DEF StreamInv, AcksOK
  <2> QED
    BY <2>1, <2>2
<1> QED
  BY <1>5, <1>6, <1>8, <1>9 DEF StreamInv

\* What is read goes; an answer that is read was before all that stays.
LEMMA ClientReadsKeeps ==
  ASSUME StreamInv, ClientReads
  PROVE  StreamInv'
<1> DEFINE m == Head(outgoing)
           L == Len(outgoing)
<1>1. /\ outgoing # <<>> /\ outgoing' = Tail(outgoing)
      /\ acked' = IF m.type = "ack" THEN m.command ELSE acked
      /\ shown' = IF m.type = "update" THEN [shown EXCEPT ![m.stream] = m.book] ELSE shown
      /\ UNCHANGED <<books, commands, received, subs, task, connection, reading>>
  BY DEF ClientReads
<1>2. /\ outgoing \in Seq(Message) /\ L \in Nat /\ L >= 1 /\ DOMAIN outgoing = 1 .. L
      /\ received \in Nat /\ acked \in 0 .. received
  BY <1>1 DEF StreamInv, TypeOK
<1>3. /\ m = outgoing[1] /\ m \in Message
      /\ outgoing' \in Seq(Message) /\ Len(outgoing') = L - 1
      /\ DOMAIN outgoing' = 1 .. L - 1
      /\ \A i \in 1 .. L - 1 : outgoing'[i] = outgoing[i + 1]
  BY <1>1, <1>2, HeadTailProperties
<1>4. m.type = "ack" => m.command \in acked .. received
  BY <1>2, <1>3 DEF StreamInv, AcksOK
<1> HIDE DEF m, L
<1>5. acked' \in acked .. received
  BY <1>1, <1>2, <1>4
<1>6. TypeOK'
  <2>1. m.type = "update" => m.stream \in Stream /\ m.book \in 0 .. MaxSequence
    BY <1>3, MessageFields
  <2>2. shown' \in [Stream -> 0 .. MaxSequence]
    BY <1>1, <2>1 DEF StreamInv, TypeOK
  <2>3. Len(outgoing') <= Capacity
    BY <1>2, <1>3, StreamAssumption DEF StreamInv, TypeOK, L
  <2> QED
    BY <1>1, <1>2, <1>3, <1>5, <2>2, <2>3 DEF StreamInv, TypeOK
<1>7. TaskOK'
  BY <1>1, SameCommands DEF StreamInv, TaskOK
<1>8. \A j \in 1 .. L - 1 : outgoing'[j].type = "update" =>
        \E n \in acked' .. received :
          /\ outgoing'[j].stream \in WantedAfter(n)
          /\ \A i \in 1 .. j - 1 : outgoing'[i].type = "ack" => outgoing'[i].command <= n
  <2> TAKE j \in 1 .. L - 1
  <2> HAVE outgoing'[j].type = "update"
  <2>1. j + 1 \in 1 .. L /\ outgoing'[j] = outgoing[j + 1]
        /\ 1 \in 1 .. j + 1 - 1 /\ \A i \in 1 .. j - 1 : i + 1 \in 1 .. j + 1 - 1 /\ i \in 1 .. L - 1
    BY <1>2, <1>3
  <2>2. PICK n \in acked .. received :
          /\ outgoing[j + 1].stream \in WantedAfter(n)
          /\ \A i \in 1 .. j + 1 - 1 : outgoing[i].type = "ack" => outgoing[i].command <= n
    BY <1>2, <2>1 DEF StreamInv, UpdatesOK
  <2>3. n \in acked' .. received
    BY <1>1, <1>2, <1>3, <1>4, <2>1, <2>2
  <2> QED
    BY <1>3, <2>1, <2>2, <2>3
<1>9. \A j \in 1 .. L - 1 : outgoing'[j].type = "ack" =>
        /\ outgoing'[j].command \in acked' .. received
        /\ \A i \in 1 .. j - 1 :
             outgoing'[i].type = "ack" => outgoing'[i].command <= outgoing'[j].command
  <2> TAKE j \in 1 .. L - 1
  <2> HAVE outgoing'[j].type = "ack"
  <2>1. j + 1 \in 1 .. L /\ outgoing'[j] = outgoing[j + 1]
        /\ 1 \in 1 .. j + 1 - 1 /\ \A i \in 1 .. j - 1 : i + 1 \in 1 .. j + 1 - 1 /\ i \in 1 .. L - 1
    BY <1>2, <1>3
  <2>2. /\ outgoing[j + 1].command \in acked .. received
        /\ \A i \in 1 .. j + 1 - 1 :
             outgoing[i].type = "ack" => outgoing[i].command <= outgoing[j + 1].command
    BY <1>2, <2>1 DEF StreamInv, AcksOK
  <2>3. outgoing[j + 1].command \in acked' .. received
    BY <1>1, <1>2, <1>3, <1>4, <2>1, <2>2
  <2> QED
    BY <1>3, <2>1, <2>2, <2>3
<1>10. received' = received /\ DOMAIN outgoing' = 1 .. L - 1
       /\ \A n : WantedAfter(n)' = WantedAfter(n)
  BY <1>1, <1>3, SameCommands
<1>11. AcksOK'
  BY <1>9, <1>10 DEF AcksOK
<1>12. UpdatesOK'
  BY <1>8, <1>10 DEF UpdatesOK
<1> QED
  BY <1>6, <1>7, <1>11, <1>12 DEF StreamInv

LEMMA BookChangesKeeps ==
  ASSUME StreamInv, BookChanges
  PROVE  StreamInv'
<1>1. UNCHANGED <<commands, received, subs, task, outgoing, connection, reading, acked, shown>>
  BY DEF BookChanges, seen
<1>2. books' \in [Symbol -> 0 .. MaxSequence]
  BY StreamAssumption DEF BookChanges, StreamInv, TypeOK
<1>3. TypeOK'
  BY <1>1, <1>2 DEF StreamInv, TypeOK
<1>4. TaskOK'
  BY <1>1, SameCommands DEF StreamInv, TaskOK
<1> QED
  BY <1>1, <1>3, <1>4, FlowStays, SameCommands DEF StreamInv

LEMMA ClientSendsKeeps ==
  ASSUME StreamInv, ClientSends
  PROVE  StreamInv'
<1>1. /\ Len(commands) < MaxCommands
      /\ UNCHANGED <<books, received, subs, task, outgoing, connection, reading, acked, shown>>
  BY DEF ClientSends, seen
<1>2. PICK c \in Command : commands' = Append(commands, c)
  BY DEF ClientSends
<1>3. commands \in Seq(Command) /\ received \in 0 .. Len(commands) /\ Len(commands) \in Nat
  BY DEF StreamInv, TypeOK
<1>4. commands' \in Seq(Command) /\ Len(commands') = Len(commands) + 1
  BY <1>2, <1>3, AppendProperties
<1>5. \A n \in 0 .. received : WantedAfter(n)' = WantedAfter(n)
  <2> TAKE n \in 0 .. received
  <2>1. n \in 0 .. Len(commands)
    BY <1>3
  <2> QED
    BY <1>2, <1>3, <2>1, WantedBefore
<1>6. TypeOK'
  BY <1>1, <1>3, <1>4, StreamAssumption DEF StreamInv, TypeOK
<1>7. TaskOK'
  BY <1>1, <1>3, <1>5 DEF StreamInv, TaskOK
<1> QED
  BY <1>1, <1>5, <1>6, <1>7, FlowStays DEF StreamInv

LEMMA ClientStopsKeeps ==
  ASSUME StreamInv, ClientStops
  PROVE  StreamInv'
<1>1. reading' = FALSE
      /\ UNCHANGED <<books, commands, received, subs, task, outgoing, connection, acked, shown>>
  BY DEF ClientStops, seen
<1>2. TypeOK'
  BY <1>1 DEF StreamInv, TypeOK
<1>3. TaskOK'
  BY <1>1, SameCommands DEF StreamInv, TaskOK
<1> QED
  BY <1>1, <1>2, <1>3, FlowStays, SameCommands DEF StreamInv

LEMMA DisconnectKeeps ==
  ASSUME StreamInv, Disconnect
  PROVE  StreamInv'
<1>1. connection' = "closed" /\ outgoing' = <<>>
      /\ UNCHANGED <<books, commands, received, subs, task, reading, acked, shown>>
  BY DEF Disconnect, seen
<1>2. outgoing' \in Seq(Message) /\ Len(outgoing') = 0 /\ DOMAIN outgoing' = {}
  BY <1>1
<1>3. TypeOK'
  BY <1>1, <1>2, StreamAssumption DEF StreamInv, TypeOK
<1>4. TaskOK'
  BY <1>1, SameCommands DEF StreamInv, TaskOK
<1>5. UpdatesOK' /\ AcksOK'
  BY <1>2 DEF UpdatesOK, AcksOK
<1> QED
  BY <1>3, <1>4, <1>5 DEF StreamInv

LEMMA StutterKeeps ==
  ASSUME StreamInv, UNCHANGED vars
  PROVE  StreamInv'
<1>1. UNCHANGED <<books, commands, received, subs, task, outgoing, connection, reading, acked, shown>>
  BY DEF vars
<1>2. TypeOK'
  BY <1>1 DEF StreamInv, TypeOK
<1>3. TaskOK'
  BY <1>1, SameCommands DEF StreamInv, TaskOK
<1> QED
  BY <1>1, <1>2, <1>3, FlowStays, SameCommands DEF StreamInv

LEMMA StreamInvariant == Spec => []StreamInv
<1>1. StreamInv /\ [Next]_vars => StreamInv'
  <2> SUFFICES ASSUME StreamInv, [Next]_vars PROVE StreamInv'
    OBVIOUS
  <2>1. CASE Takings
    BY <2>1, TakingKeeps
  <2>2. CASE StreamEnds
    BY <2>2, StreamEndsKeeps
  <2>3. CASE Ping
    BY <2>3, PingKeeps
  <2>4. CASE Update
    BY <2>4, UpdateKeeps
  <2>5. CASE ReadStream
    BY <2>5, ReadStreamKeeps
  <2>6. CASE Send
    BY <2>6, SendKeeps
  <2>7. CASE SendFails
    BY <2>7, SendFailsKeeps
  <2>8. CASE BookChanges
    BY <2>8, BookChangesKeeps
  <2>9. CASE ClientSends
    BY <2>9, ClientSendsKeeps
  <2>10. CASE ClientReads
    BY <2>10, ClientReadsKeeps
  <2>11. CASE ClientStops
    BY <2>11, ClientStopsKeeps
  <2>12. CASE ClientGone \/ HangUp
    BY <2>12, DisconnectKeeps DEF ClientGone, HangUp
  <2>13. CASE Over \/ UNCHANGED vars
    BY <2>13, StutterKeeps DEF Over
  <2>14. CASE Spin
    BY <2>14, SpinKeeps
  <2>15. CASE StreamFails
    BY <2>15, StreamFailsKeeps
  <2> QED
    BY <2>1, <2>2, <2>3, <2>4, <2>5, <2>6, <2>7, <2>8, <2>9, <2>10, <2>11, <2>12, <2>13, <2>14,
       <2>15
    DEF Next
<1> QED
  BY <1>1, InitStream, PTL DEF Spec

-----------------------------------------------------------------------------
(* Theorems *)

\* Types: what the task remembers and sends, and no more on its way than there is room for.
THEOREM StreamTypes == Spec => []TypeOK
<1>1. StreamInv => TypeOK
  BY DEF StreamInv
<1> QED
  BY <1>1, StreamInvariant, PTL

\* The task has subscribed to what the commands say that it has taken.
THEOREM SubscriptionsFollowCommands == Spec => [](subs = WantedAfter(received))
<1>1. StreamInv => subs = WantedAfter(received)
  BY DEF StreamInv, TaskOK
<1> QED
  BY <1>1, StreamInvariant, PTL

\* However long the channel, no update is delivered of a stream that was not wanted at
\* some point since the last command whose answer the client has got.
THEOREM UnsubscribedStaysSilent == Spec => UnsubscribedIsSilent
<1>1. StreamInv /\ [Next]_vars =>
        [ClientReads /\ Head(outgoing).type = "update" =>
           \E n \in acked .. received : Head(outgoing).stream \in WantedAfter(n)]_vars
  <2> SUFFICES ASSUME StreamInv, ClientReads, Head(outgoing).type = "update"
               PROVE  \E n \in acked .. received : Head(outgoing).stream \in WantedAfter(n)
    OBVIOUS
  <2>1. outgoing \in Seq(Message) /\ outgoing # <<>>
    BY DEF StreamInv, TypeOK, ClientReads
  <2>2. 1 \in DOMAIN outgoing /\ Head(outgoing) = outgoing[1]
    BY <2>1
  <2> QED
    BY <2>2 DEF StreamInv, UpdatesOK
<1> QED
  BY <1>1, StreamInvariant, PTL DEF Spec, UnsubscribedIsSilent
=============================================================================
