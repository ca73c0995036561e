-------------------------- MODULE InferenceActorProofs --------------------------
(***************************************************************************)
(* Proofs about InferenceActor: the actor's maps and the engine agree for  *)
(* any number of requests, any queue capacity and any interleaving.        *)
(***************************************************************************)
EXTENDS InferenceActor, QueueTheorems, TLAPS

Commands == ({"Submit", "Cancel"} \X Ids) \cup {Shutdown}

\* The running tick has reported the request finished and the actor not yet told it.
Done(id) == <<id, Finished>> \in finished \/ <<id, Error>> \in finished

\* BooksAgree is not inductive by itself: between a tick and the last of its sends the
\* actor holds more than the engine runs, exactly the requests still to be told.
BooksInv ==
  /\ commands \in Seq(Commands)
  /\ engine \in [Ids -> Int]
  /\ active \subseteq Ids
  /\ by_external = active
  /\ finished \subseteq Ids \X {Finished, Error}
  /\ \A id \in Ids : id \in active <=> (Held(id) \/ Done(id))
  /\ \A id \in Ids : Done(id) => ~Held(id)
  /\ \A id \in Ids : ~(<<id, Finished>> \in finished /\ <<id, Error>> \in finished)
  /\ pc \in {"drain", "output", "finish", "stopped"}
  /\ pc \in {"drain", "stopped"} => finished = {}
  /\ pc = "stopped" => active = {}

\* Requests cancelled between ticks leave the maps and the engine together.
LEMMA CancelKeepsBooks ==
  ASSUME BooksInv, NEW S, finished = {}, finished' = finished,
         CancelSchedulerRequests(S), commands' \in Seq(Commands),
         pc' = pc \/ pc' = "drain" \/ (pc' = "stopped" /\ active \subseteq S)
  PROVE  BooksInv'
<1>1. engine' \in [Ids -> Int] BY DEF BooksInv, CancelSchedulerRequests
<1>2. \A id \in Ids : Held(id)' <=> (Held(id) /\ id \notin S)
  BY DEF BooksInv, CancelSchedulerRequests, Held
<1>3. \A id \in Ids : ~Done(id) /\ ~Done(id)' BY DEF Done
<1>4. active' \subseteq Ids /\ by_external' = active'
  BY DEF BooksInv, CancelSchedulerRequests
<1>5. \A id \in Ids : id \in active' <=> (Held(id)' \/ Done(id)')
  BY <1>2, <1>3 DEF BooksInv, CancelSchedulerRequests
<1>6. pc' = "stopped" => active' = {}
  BY DEF BooksInv, CancelSchedulerRequests
<1>7. pc' \in {"drain", "output", "finish", "stopped"} BY DEF BooksInv
<1> QED BY <1>1, <1>3, <1>4, <1>5, <1>6, <1>7 DEF BooksInv

\* A step of a handler, or of the loop between two sends, leaves the books alone.
LEMMA BooksUntouched ==
  ASSUME BooksInv, UNCHANGED <<active, by_external, engine, finished>>,
         commands' \in Seq(Commands),
         pc' = pc \/ (pc = "output" /\ pc' = "finish")
  PROVE  BooksInv'
<1>1. \A id \in Ids : (Held(id)' <=> Held(id)) /\ (Done(id)' <=> Done(id))
  BY DEF Held, Done
<1> QED BY <1>1 DEF BooksInv

\* What a handler sends keeps the command channel typed.
LEMMA SentIsTyped ==
  ASSUME BooksInv, NEW command \in Commands
  PROVE  Sent(command) \in Seq(Commands)
BY DEF BooksInv, Sent

\* handle_command: an accepted request enters the maps and the engine together.
LEMMA HandleCommandKeepsBooks == BooksInv /\ HandleCommand => BooksInv'
<1> SUFFICES ASSUME BooksInv, HandleCommand PROVE BooksInv'
  OBVIOUS
<1> DEFINE command == Head(commands)
<1>1. commands # <<>> /\ pc = "drain" /\ finished = {} /\ finished' = finished
  BY DEF BooksInv, HandleCommand, results
<1>2. command \in Commands /\ Tail(commands) \in Seq(Commands) /\ <<>> \in Seq(Commands)
  BY <1>1 DEF BooksInv
<1>3. command[1] \in {"Submit", "Cancel"} => command[2] \in Ids
  BY <1>2 DEF Commands, Shutdown
<1>4. CASE command[1] = "Submit" /\ HandleSubmit(command[2]) /\ commands' = Tail(commands)
  <2> DEFINE id == command[2]
  <2>0. id \in Ids BY <1>3, <1>4
  <2>1. CASE UNCHANGED <<pc, books>>
    BY <1>1, <1>2, <1>4, <2>1, BooksUntouched DEF books
  <2>2. CASE /\ \E ticks \in 1..MaxTicks \cup {t \in {Never} : id \in Decisions} :
                  engine' = [engine EXCEPT ![id] = ticks]
             /\ active' = active \cup {id}
             /\ by_external' = by_external \cup {id}
             /\ UNCHANGED <<pc, queue>>
    <3>1. PICK ticks \in 1..MaxTicks \cup {t \in {Never} : id \in Decisions} :
            engine' = [engine EXCEPT ![id] = ticks]
      BY <2>2
    <3>2. ticks \in Int /\ ticks # 0
      BY ActorAssumption DEF Never
    <3>3. engine' \in [Ids -> Int] BY <2>0, <3>1, <3>2 DEF BooksInv
    <3>4. \A i \in Ids : Held(i)' <=> (Held(i) \/ i = id)
      BY <2>0, <3>1, <3>2 DEF BooksInv, Held
    <3>5. \A i \in Ids : ~Done(i) /\ ~Done(i)' BY <1>1 DEF Done
    <3>6. active' \subseteq Ids /\ by_external' = active' BY <2>0, <2>2 DEF BooksInv
    <3>7. \A i \in Ids : i \in active' <=> (Held(i)' \/ Done(i)')
      BY <2>2, <3>4, <3>5 DEF BooksInv
    <3> QED BY <1>1, <1>2, <1>4, <2>2, <3>3, <3>5, <3>6, <3>7 DEF BooksInv
  <2> HIDE DEF id
  <2>3. HandleSubmit(id) BY <1>4 DEF id
  <2> QED BY <2>1, <2>2, <2>3 DEF HandleSubmit
<1>5. CASE command[1] = "Cancel" /\ HandleCancel(command[2]) /\ commands' = Tail(commands)
  <2>1. CancelSchedulerRequests({command[2]} \cap by_external) /\ pc' = pc
    BY <1>5 DEF HandleCancel
  <2> QED BY <1>1, <1>2, <1>5, <2>1, CancelKeepsBooks
<1>6. CASE command = Shutdown /\ HandleShutdown /\ commands' = <<>>
  <2>1. CancelSchedulerRequests(active) /\ pc' = "stopped"
    BY <1>6 DEF HandleShutdown
  <2> QED BY <1>1, <1>2, <1>6, <2>1, CancelKeepsBooks
<1> QED BY <1>4, <1>5, <1>6 DEF HandleCommand

\* A tick takes out of the engine what it reports finished, and nothing else.
LEMMA TickKeepsBooks == BooksInv /\ Tick => BooksInv'
<1> SUFFICES ASSUME BooksInv, Tick PROVE BooksInv'
  OBVIOUS
<1> DEFINE done == {id \in Ids : Held(id) /\ TicksLeft(id) = 0}
<1>1. PICK failed \in SUBSET (done \cap Decisions) :
        finished' = {<<id, IF id \in failed THEN Error ELSE Finished>> : id \in done}
  BY DEF Tick
<1>2. /\ pc = "drain" /\ pc' = "output" /\ finished = {}
      /\ active' = active /\ by_external' = by_external /\ commands' = commands
      /\ engine' = [id \in Ids |-> TicksLeft(id)]
  BY DEF Tick, BooksInv
<1>3. \A id \in Ids : TicksLeft(id) \in Int BY DEF BooksInv, TicksLeft, Never
<1>4. engine' \in [Ids -> Int] BY <1>2, <1>3
<1>5. \A id \in Ids : Held(id)' <=> TicksLeft(id) # 0 BY <1>2 DEF Held
<1>6. \A id \in Ids : TicksLeft(id) # 0 => Held(id) BY DEF TicksLeft, Held
<1>7. finished' \subseteq Ids \X {Finished, Error} BY <1>1
<1>8. Finished # Error BY DEF Finished, Error
<1>9. \A id \in Ids : /\ <<id, Finished>> \in finished' <=> (id \in done /\ id \notin failed)
                      /\ <<id, Error>> \in finished' <=> (id \in done /\ id \in failed)
  <2> HIDE DEF done
  <2> QED BY <1>1, <1>8
<1>10. \A id \in Ids : Done(id)' <=> id \in done BY <1>9 DEF Done
<1>11. \A id \in Ids : ~Done(id) BY <1>2 DEF Done
<1>12. \A id \in Ids : id \in active' <=> (Held(id)' \/ Done(id)')
  BY <1>2, <1>5, <1>6, <1>10, <1>11 DEF BooksInv
<1>13. \A id \in Ids : Done(id)' => ~Held(id)' BY <1>5, <1>10
<1> QED BY <1>2, <1>4, <1>7, <1>9, <1>12, <1>13 DEF BooksInv

\* Telling a finished request takes it out of the maps: the engine had let it go.
LEMMA SendFinishedKeepsBooks ==
  ASSUME BooksInv, NEW id \in Ids, NEW event \in {Finished, Error}, SendFinished(id, event)
  PROVE  BooksInv'
<1>1. /\ finished' = finished \ {<<id, event>>} /\ <<id, event>> \in finished
      /\ active' = active \ {id} /\ by_external' = by_external \ {id}
      /\ pc = "finish" /\ pc' = pc /\ engine' = engine /\ commands' = commands
  BY DEF SendFinished, RemainingActive, RemainingExternal
<1>2. Done(id) /\ ~Done(id)' BY <1>1 DEF BooksInv, Done
<1>3. \A i \in Ids : i # id => (Done(i)' <=> Done(i)) BY <1>1 DEF Done
<1>4. \A i \in Ids : Held(i)' <=> Held(i) BY <1>1 DEF Held
<1>5. \A i \in Ids : i \in active' <=> (Held(i)' \/ Done(i)')
  BY <1>1, <1>2, <1>3, <1>4 DEF BooksInv
<1>6. \A i \in Ids : Done(i)' => ~Held(i)' BY <1>2, <1>3, <1>4 DEF BooksInv
<1> QED BY <1>1, <1>5, <1>6 DEF BooksInv

\* No step of a handler touches the actor's books.
LEMMA HandlerKeepsBooks ==
  ASSUME BooksInv, NEW id \in Ids, Handler(id)
  PROVE  BooksInv'
<1>1. Command("Submit", id) \in Commands /\ Command("Cancel", id) \in Commands
  BY DEF Command, Commands
<1>2. /\ Sent(Command("Submit", id)) \in Seq(Commands)
      /\ Sent(Command("Cancel", id)) \in Seq(Commands)
      /\ commands \in Seq(Commands)
  BY <1>1, SentIsTyped DEF BooksInv
<1>3. commands' \in {commands, Sent(Command("Submit", id)), Sent(Command("Cancel", id))}
  BY DEF Handler, Submit, Receive, ReceiveClosed, Abandon, AbandonUnpolled
<1>4. UNCHANGED <<pc, books, results>>
  BY DEF Handler, Submit, Receive, ReceiveClosed, Abandon, AbandonUnpolled
<1> QED BY <1>2, <1>3, <1>4, BooksUntouched DEF books, results

\* Every step keeps the books.
LEMMA NextKeepsBooks == BooksInv /\ [Next]_vars => BooksInv'
<1> SUFFICES ASSUME BooksInv, [Next]_vars PROVE BooksInv'
  OBVIOUS
<1>0. commands \in Seq(Commands) BY DEF BooksInv
<1>1. CASE HandleCommand BY <1>1, HandleCommandKeepsBooks
<1>2. CASE Tick BY <1>2, TickKeepsBooks
<1>3. CASE TickFails
  <2>1. /\ CancelSchedulerRequests(active) /\ finished = {} /\ finished' = finished
        /\ commands' = commands /\ pc' = pc
    BY <1>3 DEF TickFails, FailAll, BooksInv, results
  <2> QED BY <1>0, <2>1, CancelKeepsBooks
<1>4. CASE OutputsSent
  BY <1>0, <1>4, BooksUntouched DEF OutputsSent, books, results
<1>5. CASE CancelDisconnected
  <2>1. /\ finished = {} /\ finished' = finished /\ commands' = commands /\ pc' = "drain"
        /\ CancelSchedulerRequests(
             disconnected \cup {id \in active \cap Decisions : ~Open(id)})
    BY <1>5 DEF CancelDisconnected
  <2> QED BY <1>0, <2>1, CancelKeepsBooks
<1>6. ASSUME NEW id \in Chats, SendOutput(id) PROVE BooksInv'
  BY <1>0, <1>6, BooksUntouched DEF SendOutput, books
<1>7. ASSUME NEW id \in Ids, NEW event \in {Finished, Error}, SendFinished(id, event)
      PROVE BooksInv'
  BY <1>7, SendFinishedKeepsBooks
<1>8. CASE RequestShutdown
  <2>1. Append(commands, Shutdown) \in Seq(Commands) BY <1>0 DEF Commands
  <2> QED BY <1>8, <2>1, BooksUntouched DEF RequestShutdown, books, results
<1>9. ASSUME NEW id \in Ids, Handler(id) PROVE BooksInv'
  BY <1>9, HandlerKeepsBooks
<1>10. CASE UNCHANGED vars
  BY <1>0, <1>10, BooksUntouched DEF vars, books, results
<1> QED BY <1>1, <1>2, <1>3, <1>4, <1>5, <1>6, <1>7, <1>8, <1>9, <1>10 DEF Next, Actor

\* The empty actor satisfies the invariant.
LEMMA InitBooks == Init => BooksInv
BY DEF Init, BooksInv, Held, Done

\* For any set of requests and any interleaving of handlers and sends, the engine never
\* runs a request that the actor could not cancel, and between ticks, after a failed
\* tick and after a shutdown the actor holds exactly what the engine runs.
THEOREM BooksAlwaysAgree == Spec => []BooksAgree
<1>1. BooksInv => BooksAgree
  <2> SUFFICES ASSUME BooksInv PROVE BooksAgree
    OBVIOUS
  <2>1. finished = {} => \A id \in Ids : ~Done(id) BY DEF Done
  <2>2. {id \in Ids : Held(id)} \subseteq active BY DEF BooksInv
  <2>3. pc \in {"drain", "stopped"} => active = {id \in Ids : Held(id)}
    BY <2>1 DEF BooksInv
  <2> QED BY <2>2, <2>3 DEF BooksInv, BooksAgree
<1> QED BY <1>1, InitBooks, NextKeepsBooks, PTL DEF Spec
--------------------------------------------------------------------------------
(***************************************************************************)
(* Event streams.                                                          *)
(***************************************************************************)

\* The request's Submit command waits in the channel.
Queued(id) == Command("Submit", id) \in ToSet(commands)

\* Output events of the request that the actor has sent or failed to send.
Told(id) == IF id \in Chats THEN produced[id] - pending[id] ELSE 0

\* Ascending output events among the first told, and only at the end a terminal one.
Shape(s, told) ==
  /\ \A i \in 1..Len(s) : Terminal(s[i]) \/ (s[i] = Output(s[i][2]) /\ s[i][2] \in 1..told)
  /\ \A i \in 1..(Len(s) - 1) : ~Terminal(s[i])
  /\ \A i, j \in 1..Len(s) : i < j /\ ~Terminal(s[j]) => s[i][2] < s[j][2]

\* The stream is still open: nothing terminal has been sent.
Unended(s) == \A i \in 1..Len(s) : ~Terminal(s[i])

\* Every output event the actor has come to is in the stream.
Gapless(s, told) == Len(s) = told /\ \A i \in 1..Len(s) : s[i] = Output(i)

\* What holds of one request's stream.  A terminal event leaves when its request leaves
\* the actor's maps, so nothing follows it; and a request is submitted once, so its
\* stream is empty when it enters them.
StreamOK(id) ==
  /\ Shape(Stream(id), Told(id))
  /\ id \in active => Unended(Stream(id))
  /\ client[id] = "new" => ~Queued(id)
  /\ client[id] = "new" \/ Queued(id) =>
       id \notin active /\ Stream(id) = <<>> /\ (id \in Chats => produced[id] = 0)
  /\ id \in Chats /\ id \in active /\ Open(id) /\ id \notin disconnected =>
       Gapless(Stream(id), Told(id))

\* No request is submitted twice.
SubmitOnce ==
  \A i, j \in 1..Len(commands) :
    commands[i] = commands[j] /\ commands[i][1] = "Submit" => i = j

\* The types the argument needs, and where the running tick stands.
DeliveryInv ==
  /\ produced \in [Chats -> Nat] /\ pending \in [Chats -> Nat]
  /\ queue \in [Ids -> Seq(Events)] /\ received \in [Ids -> Seq(Events)]
  /\ client \in [Ids -> {"new", "refused", "waiting", "answered", "closed", "left"}]
  /\ disconnected \subseteq Ids
  /\ \A id \in Chats : pending[id] <= produced[id]
  /\ pc # "output" => \A id \in Chats : pending[id] = 0
  /\ pc \in {"drain", "stopped"} => disconnected = {}
  /\ \A id \in Chats : pending[id] > 0 => id \in active

StreamInv == DeliveryInv /\ SubmitOnce /\ \A id \in Ids : StreamOK(id)

\* The events are told apart by their first component.
LEMMA EventFacts ==
  /\ Finished \in Events /\ Error \in Events
  /\ \A n \in Nat : Output(n) \in Events /\ ~Terminal(Output(n)) /\ Output(n)[2] = n
                     /\ Output(n)[1] = "Output"
  /\ \A e \in Events : Terminal(e) => e[1] # "Output"
  BY DEF Finished, Error, Events, Output, Terminal

\* A terminal event ends an open stream.
LEMMA TerminalEnds ==
  ASSUME NEW s \in Seq(Events), NEW told \in Nat, Shape(s, told), Unended(s),
         NEW e \in {Finished, Error}
  PROVE  Append(s, e) \in Seq(Events) /\ Shape(Append(s, e), told)
  <1> DEFINE n == Len(s)
             t == Append(s, e)
  <1>1. n \in Nat /\ e \in Events /\ Terminal(e)
    BY EventFacts DEF Terminal
  <1>2. /\ t \in Seq(Events) /\ Len(t) = n + 1 /\ t[n + 1] = e
        /\ \A i \in 1..n : t[i] = s[i]
    BY <1>1
  <1> HIDE DEF t, n
  <1>3. \A i \in 1..n : s[i] = Output(s[i][2]) /\ s[i][2] \in 1..told /\ ~Terminal(s[i])
    BY DEF Shape, Unended, n
  <1>4. \A i, j \in 1..n : i < j => s[i][2] < s[j][2]
    BY <1>3 DEF Shape, n
  <1>5. \A i \in 1..(n + 1) : i \in 1..n \/ i = n + 1
    BY <1>1
  <1>6. Shape(t, told)
    <2>1. \A i \in 1..Len(t) :
            Terminal(t[i]) \/ (t[i] = Output(t[i][2]) /\ t[i][2] \in 1..told)
      BY <1>1, <1>2, <1>3, <1>5
    <2>2. \A i \in 1..(Len(t) - 1) : ~Terminal(t[i])
      BY <1>1, <1>2, <1>3
    <2>3. ASSUME NEW i \in 1..Len(t), NEW j \in 1..Len(t), i < j, ~Terminal(t[j])
          PROVE  t[i][2] < t[j][2]
      <3>1. j \in 1..n /\ i \in 1..n
        BY <1>1, <1>2, <1>5, <2>3
      <3> QED
        BY <1>2, <1>4, <2>3, <3>1
    <2> QED
      BY <2>1, <2>2, <2>3 DEF Shape
  <1> QED
    BY <1>2, <1>6 DEF t

\* The next output event extends an open stream, and one without a gap stays so.
LEMMA OutputExtends ==
  ASSUME NEW s \in Seq(Events), NEW told \in Nat, Shape(s, told), Unended(s)
  PROVE  LET t == Append(s, Output(told + 1))
         IN  /\ t \in Seq(Events) /\ Shape(t, told + 1) /\ Unended(t)
             /\ Gapless(s, told) => Gapless(t, told + 1)
  <1> DEFINE n == Len(s)
             e == Output(told + 1)
             t == Append(s, e)
  <1>1. /\ n \in Nat /\ told + 1 \in Nat /\ e \in Events /\ ~Terminal(e)
        /\ e[2] = told + 1 /\ e = Output(e[2])
    BY EventFacts
  <1>2. /\ t \in Seq(Events) /\ Len(t) = n + 1 /\ t[n + 1] = e
        /\ \A i \in 1..n : t[i] = s[i]
    BY <1>1
  <1>20. Gapless(s, told) => n = told /\ \A i \in 1..n : s[i] = Output(i)
    BY DEF Gapless, n
  <1>21. n = told => e = Output(n + 1)
    OBVIOUS
  <1> HIDE DEF t, n, e
  <1>3. \A i \in 1..n : s[i] = Output(s[i][2]) /\ s[i][2] \in 1..told /\ ~Terminal(s[i])
    BY DEF Shape, Unended, n
  <1>4. \A i, j \in 1..n : i < j => s[i][2] < s[j][2]
    BY <1>3 DEF Shape, n
  <1>5. \A i \in 1..(n + 1) : i \in 1..n \/ i = n + 1
    BY <1>1
  <1>51. \A k \in 1..told : k \in 1..(told + 1) /\ k < told + 1
    OBVIOUS
  <1>52. told + 1 \in 1..(told + 1)
    OBVIOUS
  <1>6. \A i \in 1..Len(t) :
          ~Terminal(t[i]) /\ t[i] = Output(t[i][2]) /\ t[i][2] \in 1..(told + 1)
    BY <1>1, <1>2, <1>3, <1>5, <1>51, <1>52
  <1>7. ASSUME NEW i \in 1..Len(t), NEW j \in 1..Len(t), i < j PROVE t[i][2] < t[j][2]
    <2>1. i \in 1..n
      BY <1>1, <1>2, <1>7
    <2>2. CASE j \in 1..n
      BY <1>2, <1>4, <1>7, <2>1, <2>2
    <2>3. CASE j = n + 1
      BY <1>1, <1>2, <1>3, <1>51, <2>1, <2>3
    <2> QED
      BY <1>2, <1>5, <2>2, <2>3
  <1>8. Shape(t, told + 1)
    <2>1. \A i \in 1..(Len(t) - 1) : i \in 1..Len(t)
      BY <1>1, <1>2
    <2> QED
      BY <1>6, <1>7, <2>1 DEF Shape
  <1>9. ASSUME Gapless(s, told) PROVE Gapless(t, told + 1)
    <2>1. \A i \in 1..Len(t) : t[i] = Output(i)
      BY <1>2, <1>5, <1>9, <1>20, <1>21
    <2> QED
      BY <1>2, <1>9, <1>20, <2>1 DEF Gapless
  <1> QED
    BY <1>2, <1>6, <1>8, <1>9 DEF t, e, Unended

\* Dropping the unread part of a stream leaves it well formed.
LEMMA PrefixShape ==
  ASSUME NEW r \in Seq(Events), NEW q \in Seq(Events), NEW told, Shape(r \o q, told)
  PROVE  Shape(r, told)
  <1> DEFINE s == r \o q
  <1>1. /\ s \in Seq(Events) /\ Len(s) = Len(r) + Len(q) /\ Len(r) \in Nat /\ Len(q) \in Nat
        /\ \A i \in 1..Len(r) : s[i] = r[i]
    OBVIOUS
  <1> HIDE DEF s
  <1>2. /\ \A i \in 1..Len(r) : i \in 1..Len(s)
        /\ \A i \in 1..(Len(r) - 1) : i \in 1..(Len(s) - 1) /\ i \in 1..Len(r)
    BY <1>1
  <1>3. Shape(s, told)
    BY DEF s
  <1>4. /\ \A i \in 1..Len(s) :
             Terminal(s[i]) \/ (s[i] = Output(s[i][2]) /\ s[i][2] \in 1..told)
        /\ \A i \in 1..(Len(s) - 1) : ~Terminal(s[i])
        /\ \A i, j \in 1..Len(s) : i < j /\ ~Terminal(s[j]) => s[i][2] < s[j][2]
    BY <1>3 DEF Shape
  <1> QED
    BY <1>1, <1>2, <1>4 DEF Shape

\* Taking the head of the queue does not change the stream.
LEMMA ReceiveMoves ==
  ASSUME NEW r \in Seq(Events), NEW q \in Seq(Events), q # <<>>
  PROVE  /\ Append(r, Head(q)) \o Tail(q) = r \o q
         /\ Append(r, Head(q)) \in Seq(Events) /\ Tail(q) \in Seq(Events)
         /\ Head(q) \in Events /\ Len(q) \in Nat /\ Len(q) > 0
         /\ Len(q) = 1 => Tail(q) = <<>>
  <1>1. /\ Head(q) \in Events /\ Tail(q) \in Seq(Events) /\ Len(q) \in Nat /\ Len(q) > 0
        /\ Len(Tail(q)) = Len(q) - 1
        /\ \A i \in 1..Len(Tail(q)) : Tail(q)[i] = q[i + 1]
        /\ Head(q) = q[1] /\ Len(r) \in Nat
    OBVIOUS
  <1> DEFINE a == Append(r, Head(q))
             u == a \o Tail(q)
             v == r \o q
  <1>2. /\ a \in Seq(Events) /\ Len(a) = Len(r) + 1 /\ a[Len(r) + 1] = q[1]
        /\ \A i \in 1..Len(r) : a[i] = r[i]
    BY <1>1
  <1>3. /\ u \in Seq(Events) /\ Len(u) = Len(a) + Len(Tail(q))
        /\ \A i \in 1..Len(a) : u[i] = a[i]
        /\ \A i \in 1..Len(Tail(q)) : u[Len(a) + i] = Tail(q)[i]
    BY <1>1, <1>2
  <1>4. /\ v \in Seq(Events) /\ Len(v) = Len(r) + Len(q)
        /\ \A i \in 1..Len(r) : v[i] = r[i]
        /\ \A i \in 1..Len(q) : v[Len(r) + i] = q[i]
    BY <1>1
  <1> HIDE DEF u, v, a
  <1>5. Len(u) = Len(v)
    BY <1>1, <1>2, <1>3, <1>4
  <1>6. ASSUME NEW i \in 1..Len(u) PROVE u[i] = v[i]
    <2>1. CASE i \in 1..Len(r)
      BY <1>1, <1>2, <1>3, <1>4, <2>1
    <2>2. CASE i = Len(r) + 1
      <3>1. 1 \in 1..Len(q) /\ i \in 1..Len(a)
        BY <1>1, <1>2, <2>2
      <3> QED
        BY <1>2, <1>3, <1>4, <2>2, <3>1
    <2>3. CASE i > Len(r) + 1
      <3> DEFINE k == i - Len(a)
      <3>1. k \in 1..Len(Tail(q)) /\ k + 1 \in 1..Len(q) /\ Len(a) + k = i
            /\ Len(r) + (k + 1) = i
        BY <1>1, <1>2, <1>3, <2>3
      <3> HIDE DEF k
      <3>2. u[i] = Tail(q)[k] /\ v[i] = q[k + 1]
        BY <1>3, <1>4, <3>1
      <3> QED
        BY <1>1, <3>1, <3>2
    <2> QED
      BY <1>1, <1>2, <1>3, <2>1, <2>2, <2>3
  <1>7. u = v
    BY <1>3, <1>4, <1>5, <1>6
  <1>8. Len(q) = 1 => Tail(q) = <<>>
    <2> DEFINE t == Tail(q)
    <2>1. t \in Seq(Events) /\ (Len(q) = 1 => Len(t) = 0)
      BY <1>1
    <2> HIDE DEF t
    <2>2. Len(t) = 0 => t = <<>>
      BY <2>1
    <2> QED
      BY <2>1, <2>2 DEF t
  <1> QED
    BY <1>1, <1>2, <1>7, <1>8 DEF u, v, a

\* A stream that no event enters stays as it is while its request lives or leaves.
LEMMA QuietStream ==
  ASSUME NEW x \in Ids, StreamOK(x), Stream(x)' = Stream(x), Told(x)' = Told(x),
         x \in Chats /\ (client[x] = "new" \/ Queued(x)) => produced'[x] = produced[x],
         x \in active' => x \in active,
         Queued(x)' => Queued(x),
         \/ client'[x] = client[x]
         \/ client[x] = "waiting" /\ client'[x] \in {"answered", "closed"},
         x \in active' /\ x \notin disconnected' => x \notin disconnected
  PROVE  StreamOK(x)'
  BY DEF StreamOK, Open

\* A sent command is behind the others.
LEMMA CommandSent ==
  ASSUME BooksInv, SubmitOnce, NEW c \in Commands, commands' = Append(commands, c),
         c[1] = "Submit" => c \notin ToSet(commands)
  PROVE  SubmitOnce' /\ ToSet(commands') = ToSet(commands) \cup {c}
  <1> DEFINE n == Len(commands)
             t == Append(commands, c)
  <1>1. commands \in Seq(Commands) /\ n \in Nat
    BY DEF BooksInv
  <1>2. /\ Len(t) = n + 1 /\ t[n + 1] = c
        /\ \A i \in 1..n : t[i] = commands[i]
    BY <1>1
  <1>3. ToSet(t) = ToSet(commands) \cup {c}
    BY <1>1, ToSetAppend
  <1>4. \A i \in 1..n : commands[i] \in ToSet(commands)
    BY <1>1, MemberAt
  <1>5. commands' = t
    OBVIOUS
  <1>6. \A i, j \in 1..n : commands[i] = commands[j] /\ commands[i][1] = "Submit" => i = j
    BY DEF SubmitOnce, n
  <1> HIDE DEF t, n
  <1>7. ASSUME NEW i \in 1..(n + 1), NEW j \in 1..(n + 1), t[i] = t[j], t[i][1] = "Submit"
        PROVE  i = j
    <2>1. \A k \in 1..(n + 1) : k \in 1..n \/ k = n + 1
      BY <1>1
    <2>2. CASE i \in 1..n /\ j \in 1..n
      BY <1>2, <1>6, <1>7, <2>2
    <2>3. CASE i = n + 1 /\ j \in 1..n
      BY <1>2, <1>4, <1>7, <2>3
    <2>4. CASE i \in 1..n /\ j = n + 1
      BY <1>2, <1>4, <1>7, <2>4
    <2> QED
      BY <2>1, <2>2, <2>3, <2>4
  <1>8. \A i, j \in 1..Len(commands') :
          commands'[i] = commands'[j] /\ commands'[i][1] = "Submit" => i = j
    BY <1>2, <1>5, <1>7
  <1> QED
    BY <1>3, <1>5, <1>8 DEF SubmitOnce

\* A Submit command that is taken is gone.
LEMMA CommandTaken ==
  ASSUME BooksInv, SubmitOnce, commands # <<>>, commands' = Tail(commands)
  PROVE  /\ SubmitOnce' /\ ToSet(commands') \subseteq ToSet(commands)
         /\ Head(commands) \in ToSet(commands) /\ Head(commands) \in Commands
         /\ Head(commands)[1] = "Submit" => Head(commands) \notin ToSet(commands')
  <1> DEFINE n == Len(commands)
             t == Tail(commands)
             h == Head(commands)
  <1>1. commands \in Seq(Commands) /\ n \in Nat /\ n > 0
    BY DEF BooksInv
  <1>2. /\ t \in Seq(Commands) /\ Len(t) = n - 1 /\ h = commands[1]
        /\ \A i \in 1..(n - 1) : t[i] = commands[i + 1]
    BY <1>1
  <1>3. h \in ToSet(commands) /\ h \in Commands /\ ToSet(commands) = ToSet(t) \cup {h}
    BY <1>1, ToSetTail
  <1>4. \A i, j \in 1..n : commands[i] = commands[j] /\ commands[i][1] = "Submit" => i = j
    BY DEF SubmitOnce, n
  <1>5. commands' = t
    OBVIOUS
  <1> HIDE DEF t, n, h
  <1>6. 1 \in 1..n /\ \A i \in 1..(n - 1) : i + 1 \in 1..n /\ i + 1 # 1 /\ i \in Nat
    BY <1>1
  <1>7. \A i, j \in 1..(n - 1) : i + 1 = j + 1 => i = j
    BY <1>6
  <1>8. \A i, j \in 1..(n - 1) : t[i] = t[j] /\ t[i][1] = "Submit" => i = j
    BY <1>2, <1>4, <1>6, <1>7
  <1>9. h[1] = "Submit" => h \notin ToSet(t)
    <2> SUFFICES ASSUME h[1] = "Submit", h \in ToSet(t) PROVE FALSE
      OBVIOUS
    <2>1. PICK i \in 1..(n - 1) : t[i] = h
      BY <1>2, MemberAt
    <2>2. commands[i + 1] = commands[1]
      BY <1>2, <2>1
    <2> QED
      BY <1>2, <1>4, <1>6, <2>2
  <1>10. \A i, j \in 1..Len(commands') :
           commands'[i] = commands'[j] /\ commands'[i][1] = "Submit" => i = j
    BY <1>2, <1>5, <1>8
  <1> QED
    BY <1>3, <1>5, <1>9, <1>10 DEF SubmitOnce, h

\* The types of one request's stream.
LEMMA StreamTypes ==
  ASSUME DeliveryInv, NEW x \in Ids
  PROVE  /\ received[x] \in Seq(Events) /\ queue[x] \in Seq(Events)
         /\ Stream(x) \in Seq(Events) /\ Stream(x) = received[x] \o queue[x]
         /\ Told(x) \in Nat
  <1>1. received[x] \in Seq(Events) /\ queue[x] \in Seq(Events)
    BY DEF DeliveryInv
  <1>2. Told(x) \in Nat
    BY DEF DeliveryInv, Told
  <1> QED
    BY <1>1, <1>2, ToSetConcat DEF Stream

\* An event put behind the queue is behind the stream.
LEMMA AppendMoves ==
  ASSUME NEW r \in Seq(Events), NEW q \in Seq(Events), NEW e \in Events
  PROVE  r \o Append(q, e) = Append(r \o q, e)
  <1> DEFINE a == Append(q, e)
             c == r \o q
             u == r \o a
             v == Append(c, e)
  <1>1. /\ Len(r) \in Nat /\ Len(q) \in Nat
        /\ a \in Seq(Events) /\ Len(a) = Len(q) + 1 /\ a[Len(q) + 1] = e
        /\ \A i \in 1..Len(q) : a[i] = q[i]
    OBVIOUS
  <1>2. /\ c \in Seq(Events) /\ Len(c) = Len(r) + Len(q)
        /\ \A i \in 1..Len(r) : c[i] = r[i]
        /\ \A i \in 1..Len(q) : c[Len(r) + i] = q[i]
    OBVIOUS
  <1> HIDE DEF a, c
  <1>3. /\ u \in Seq(Events) /\ Len(u) = Len(r) + Len(a)
        /\ \A i \in 1..Len(r) : u[i] = r[i]
        /\ \A i \in 1..Len(a) : u[Len(r) + i] = a[i]
    BY <1>1
  <1>4. /\ v \in Seq(Events) /\ Len(v) = Len(c) + 1 /\ v[Len(c) + 1] = e
        /\ \A i \in 1..Len(c) : v[i] = c[i]
    BY <1>2
  <1> HIDE DEF u, v
  <1>5. ASSUME NEW i \in 1..Len(u) PROVE u[i] = v[i]
    <2>1. CASE i \in 1..Len(r)
      <3>1. i \in 1..Len(c)
        BY <1>1, <1>2, <2>1
      <3> QED
        BY <1>2, <1>3, <1>4, <2>1, <3>1
    <2>2. CASE i > Len(r) /\ i <= Len(r) + Len(q)
      <3> DEFINE k == i - Len(r)
      <3>1. k \in 1..Len(q) /\ k \in 1..Len(a) /\ Len(r) + k = i /\ i \in 1..Len(c)
        BY <1>1, <1>2, <1>3, <2>2
      <3> HIDE DEF k
      <3>2. u[i] = a[k] /\ v[i] = c[i] /\ c[i] = q[k]
        BY <1>2, <1>3, <1>4, <3>1
      <3> QED
        BY <1>1, <3>1, <3>2
    <2>3. CASE i = Len(r) + Len(q) + 1
      <3>1. Len(q) + 1 \in 1..Len(a) /\ Len(r) + (Len(q) + 1) = i
        BY <1>1, <2>3
      <3>2. u[i] = a[Len(q) + 1]
        BY <1>3, <3>1
      <3>3. i = Len(c) + 1
        BY <1>1, <1>2, <2>3
      <3>4. v[i] = e
        BY <1>4, <3>3, Zenon
      <3>5. u[i] = e
        BY <1>1, <3>2, Zenon
      <3> QED
        BY <3>4, <3>5, Zenon
    <2>4. \/ i \in 1..Len(r) \/ (i > Len(r) /\ i <= Len(r) + Len(q))
          \/ i = Len(r) + Len(q) + 1
      <3> DEFINE m == Len(r)
                 n == Len(q)
                 k == Len(u)
      <3>1. m \in Nat /\ n \in Nat /\ k = m + n + 1 /\ i \in 1..k
        BY <1>1, <1>3
      <3> HIDE DEF m, n, k
      <3>2. i \in 1..m \/ (i > m /\ i <= m + n) \/ i = m + n + 1
        BY <3>1
      <3> QED
        BY <3>2 DEF m, n
    <2> QED
      BY <2>1, <2>2, <2>3, <2>4
  <1>6. Len(u) = Len(v)
    BY <1>1, <1>2, <1>3, <1>4
  <1>7. u = v
    BY <1>3, <1>4, <1>5, <1>6
  <1> QED
    BY <1>7 DEF a, c, u, v

\* What a send does to the receiver's stream: it arrives or changes nothing.
LEMMA SendArrives ==
  ASSUME DeliveryInv, NEW x \in Ids, NEW e \in Events, received' = received
  PROVE  /\ TrySend(x, e) \in [Ids -> Seq(Events)]
         /\ queue'[x] = TrySend(x, e)[x] =>
              Stream(x)' = IF Sendable(x) THEN Append(Stream(x), e) ELSE Stream(x)
         /\ \A y \in Ids : y # x => TrySend(x, e)[y] = queue[y]
  <1>1. queue \in [Ids -> Seq(Events)] /\ received[x] \in Seq(Events) /\ queue[x] \in Seq(Events)
    BY DEF DeliveryInv
  <1>2. /\ Append(queue[x], e) \in Seq(Events)
        /\ received[x] \o Append(queue[x], e) = Append(received[x] \o queue[x], e)
    <2>1. Append(queue[x], e) \in Seq(Events)
      BY <1>1
    <2>2. received[x] \o Append(queue[x], e) = Append(received[x] \o queue[x], e)
      BY <1>1, AppendMoves, Zenon
    <2> QED
      BY <2>1, <2>2
  <1>3. TrySend(x, e)[x] = IF Sendable(x) THEN Append(queue[x], e) ELSE queue[x]
    BY <1>1 DEF TrySend
  <1>4. TrySend(x, e) \in [Ids -> Seq(Events)]
    BY <1>1, <1>2 DEF TrySend
  <1>5. \A y \in Ids : y # x => TrySend(x, e)[y] = queue[y]
    BY <1>1 DEF TrySend
  <1> QED
    BY <1>2, <1>3, <1>4, <1>5 DEF Stream

\* A terminal event goes out as its request leaves the maps.
LEMMA TerminalLeaves ==
  ASSUME DeliveryInv, NEW x \in Ids, StreamOK(x), NEW e \in {Finished, Error},
         Stream(x)' = IF Sendable(x) THEN Append(Stream(x), e) ELSE Stream(x),
         Unended(Stream(x)), Told(x)' = Told(x), client' = client,
         x \notin active', ~Queued(x)', client[x] # "new"
  PROVE  StreamOK(x)'
  <1>1. Stream(x) \in Seq(Events) /\ Told(x) \in Nat /\ Shape(Stream(x), Told(x))
    BY StreamTypes DEF StreamOK
  <1>2. Shape(Append(Stream(x), e), Told(x))
    BY <1>1, TerminalEnds
  <1>3. Shape(Stream(x)', Told(x)')
    BY <1>1, <1>2
  <1>4. Shape(Stream(x), Told(x))'
    BY <1>3 DEF Shape
  <1> QED
    BY <1>4 DEF StreamOK

\* What a handler sends, and what an actor that has returned ignores.
LEMMA SentCommand ==
  ASSUME BooksInv, SubmitOnce, NEW c \in Commands, commands' = Sent(c),
         c[1] = "Submit" => c \notin ToSet(commands)
  PROVE  SubmitOnce' /\ ToSet(commands') \subseteq ToSet(commands) \cup {c}
  <1>1. CASE commands' = commands
    BY <1>1 DEF SubmitOnce
  <1>2. CASE commands' = Append(commands, c)
    BY <1>2, CommandSent
  <1> QED
    BY <1>1, <1>2 DEF Sent

\* The commands are told apart.
LEMMA CommandFacts ==
  ASSUME NEW x \in Ids, NEW y \in Ids
  PROVE  /\ Command("Submit", x) \in Commands /\ Command("Cancel", x) \in Commands
         /\ Shutdown \in Commands
         /\ Command("Submit", x)[1] = "Submit" /\ Command("Cancel", x)[1] # "Submit"
         /\ Shutdown[1] # "Submit"
         /\ Command("Submit", x) # Command("Cancel", y) /\ Command("Submit", x) # Shutdown
         /\ Command("Submit", x) = Command("Submit", y) => x = y
  BY DEF Command, Commands, Shutdown

\* A request that is new or still queued is not in the maps.
LEMMA EnteredOnce ==
  ASSUME NEW x \in Ids, StreamOK(x), x \in active
  PROVE  ~Queued(x) /\ client[x] # "new" /\ Unended(Stream(x))
  BY DEF StreamOK

\* The empty stream.
LEMMA EmptyStream ==
  ASSUME NEW told \in Nat
  PROVE  Shape(<<>>, told) /\ Unended(<<>>) /\ Gapless(<<>>, 0)
  BY DEF Shape, Unended, Gapless

\* A cancellation or a shutdown touches no stream.
LEMMA DropKeepsStreams ==
  ASSUME StreamInv, UNCHANGED <<queue, received, produced, pending, client>>,
         active' \subseteq active, SubmitOnce', ToSet(commands') \subseteq ToSet(commands),
         \A id \in Chats : pending[id] = 0,
         \/ disconnected' = disconnected /\ (disconnected = {} \/ pc' = pc)
         \/ disconnected' = {} /\ active' \cap disconnected = {},
         pc' # "output" \/ pc' = pc
  PROVE  StreamInv'
  <1>1. ASSUME NEW x \in Ids PROVE StreamOK(x)'
    <2>1. StreamOK(x)
      BY DEF StreamInv
    <2>2. Stream(x)' = Stream(x) /\ Told(x)' = Told(x)
      BY DEF Stream, Told
    <2>3. Queued(x)' => Queued(x)
      BY DEF Queued, Command
    <2> QED
      BY <2>1, <2>2, <2>3, QuietStream
  <1>2. DeliveryInv'
    BY DEF StreamInv, DeliveryInv
  <1> QED
    BY <1>1, <1>2 DEF StreamInv

\* handle_command: an accepted request starts with an empty stream, a refused one ends
\* its stream with the error.
LEMMA HandleCommandKeepsStreams ==
  ASSUME BooksInv, StreamInv, HandleCommand
  PROVE  StreamInv'
  <1> DEFINE command == Head(commands)
  <1>1. /\ pc = "drain" /\ commands # <<>>
        /\ UNCHANGED <<produced, pending, finished, disconnected, received, client>>
    BY DEF HandleCommand, results, handlers
  <1>2. /\ disconnected = {} /\ \A id \in Chats : pending[id] = 0
        /\ DeliveryInv /\ SubmitOnce /\ \A id \in Ids : StreamOK(id)
    BY <1>1 DEF StreamInv, DeliveryInv
  <1>3. commands' = Tail(commands) =>
          /\ SubmitOnce' /\ ToSet(commands') \subseteq ToSet(commands)
          /\ command \in ToSet(commands) /\ command \in Commands
          /\ command[1] = "Submit" => command \notin ToSet(commands')
    BY <1>1, <1>2, CommandTaken
  <1>4. CASE command[1] = "Submit" /\ HandleSubmit(command[2]) /\ commands' = Tail(commands)
    <2>1. PICK id \in Ids : command = Command("Submit", id) /\ command[2] = id
      BY <1>3, <1>4, CommandFacts DEF Commands, Command, Shutdown
    <2>2. Queued(id) /\ ~Queued(id)'
      BY <1>3, <1>4, <2>1 DEF Queued, Command
    <2>3. /\ StreamOK(id) /\ id \notin active /\ Stream(id) = <<>> /\ client[id] # "new"
          /\ id \in Chats => produced[id] = 0
      BY <1>2, <2>2 DEF StreamOK
    <2>4. Told(id) = 0
      BY <1>2, <2>3 DEF Told
    <2>5. \A x \in Ids : Queued(x)' => Queued(x)
      BY <1>3, <1>4 DEF Queued, Command
    <2>6. Told(id)' = Told(id) /\ \A x \in Ids : Told(x)' = Told(x)
      BY <1>1 DEF Told
    <2>7. ASSUME active' = active \cup {id}, UNCHANGED <<pc, queue>> PROVE StreamInv'
      <3>1. ASSUME NEW x \in Ids, x # id PROVE StreamOK(x)'
        <4>1. StreamOK(x) /\ Stream(x)' = Stream(x)
          BY <1>1, <1>2, <2>7 DEF Stream
        <4>2. x \in active' => x \in active
          BY <2>7, <3>1
        <4> QED
          BY <1>1, <2>5, <2>6, <4>1, <4>2, QuietStream
      <3>2. StreamOK(id)'
        <4>1. Stream(id)' = <<>> /\ Told(id)' = 0
          BY <1>1, <2>3, <2>4, <2>6, <2>7 DEF Stream
        <4>2. /\ Shape(Stream(id), Told(id))' /\ Unended(Stream(id))'
              /\ Gapless(Stream(id), Told(id))'
          <5>1. /\ Shape(Stream(id)', Told(id)') /\ Unended(Stream(id)')
                /\ Gapless(Stream(id)', Told(id)')
            BY <4>1, EmptyStream
          <5> QED
            BY <5>1 DEF Shape, Unended, Gapless
        <4>3. client'[id] # "new"
          BY <1>1, <2>3
        <4> QED
          BY <2>2, <4>2, <4>3 DEF StreamOK
      <3>3. DeliveryInv'
        BY <1>1, <1>2, <2>7 DEF DeliveryInv
      <3> QED
        BY <1>3, <1>4, <3>1, <3>2, <3>3 DEF StreamInv
    <2>8. ASSUME queue' = TrySend(id, Error), UNCHANGED <<pc, books>> PROVE StreamInv'
      <3>1. /\ queue' \in [Ids -> Seq(Events)]
            /\ Stream(id)' = IF Sendable(id) THEN Append(Stream(id), Error) ELSE Stream(id)
            /\ \A x \in Ids : x # id => queue'[x] = queue[x]
        BY <1>1, <1>2, <2>8, SendArrives, EventFacts
      <3>2. StreamOK(id)'
        <4>1. Unended(Stream(id))
          BY <2>3, EmptyStream
        <4>2. id \notin active' /\ client' = client
          BY <1>1, <2>3, <2>8 DEF books
        <4> QED
          BY <1>2, <2>2, <2>3, <2>6, <3>1, <4>1, <4>2, TerminalLeaves
      <3>3. ASSUME NEW x \in Ids, x # id PROVE StreamOK(x)'
        <4>1. StreamOK(x) /\ Stream(x)' = Stream(x) /\ active' = active
          BY <1>1, <1>2, <2>8, <3>1, <3>3 DEF Stream, books
        <4> QED
          BY <1>1, <2>5, <2>6, <4>1, QuietStream
      <3>4. DeliveryInv'
        BY <1>1, <1>2, <2>8, <3>1 DEF DeliveryInv, books
      <3> QED
        BY <1>3, <1>4, <3>2, <3>3, <3>4 DEF StreamInv
    <2>9. HandleSubmit(id)
      BY <1>4, <2>1
    <2> QED
      BY <2>7, <2>8, <2>9 DEF HandleSubmit
  <1>5. CASE command[1] = "Cancel" /\ HandleCancel(command[2]) /\ commands' = Tail(commands)
    <2>1. active' \subseteq active /\ pc' = pc /\ queue' = queue
      BY <1>5 DEF HandleCancel, CancelSchedulerRequests
    <2>2. pc' # "output"
      BY <1>1, <2>1
    <2> QED
      BY <1>1, <1>2, <1>3, <1>5, <2>1, <2>2, DropKeepsStreams
  <1>6. CASE command = Shutdown /\ HandleShutdown /\ commands' = <<>>
    <2>1. active' \subseteq active /\ pc' = "stopped" /\ queue' = queue
      BY <1>6 DEF HandleShutdown, CancelSchedulerRequests
    <2>2. SubmitOnce' /\ ToSet(commands') \subseteq ToSet(commands)
      BY <1>6 DEF SubmitOnce, ToSet
    <2> QED
      BY <1>1, <1>2, <2>1, <2>2, DropKeepsStreams
  <1> QED
    BY <1>4, <1>5, <1>6 DEF HandleCommand

\* A tick produces events and sends none yet: only requests in the maps produce any.
LEMMA TickKeepsStreams ==
  ASSUME BooksInv, StreamInv, Tick
  PROVE  StreamInv'
  <1>1. PICK burst \in [Chats -> 0..MaxBurst] :
          /\ \A id \in Chats : ~Held(id) => burst[id] = 0
          /\ pending' = burst
          /\ produced' = [id \in Chats |-> produced[id] + burst[id]]
    BY DEF Tick
  <1>2. /\ pc = "drain" /\ pc' = "output"
        /\ UNCHANGED <<commands, active, by_external, disconnected, queue, received, client>>
    BY DEF Tick, handlers
  <1>3. /\ DeliveryInv /\ SubmitOnce /\ \A id \in Ids : StreamOK(id)
        /\ \A id \in Chats : pending[id] = 0
    BY <1>2 DEF StreamInv, DeliveryInv
  <1>4. \A id \in Chats : burst[id] \in Nat /\ produced[id] \in Nat /\ id \in Ids
    BY <1>1, <1>3, ActorAssumption DEF DeliveryInv, Ids
  <1>5. \A id \in Chats : burst[id] > 0 => id \in active
    BY <1>1, <1>4 DEF BooksInv
  <1>6. \A id \in Chats : produced'[id] = produced[id] + burst[id] /\ pending'[id] = burst[id]
    BY <1>1
  <1>7. DeliveryInv'
    <2>1. produced' \in [Chats -> Nat] /\ pending' \in [Chats -> Nat]
      BY <1>1, <1>4
    <2>2. \A id \in Chats : pending'[id] <= produced'[id]
      BY <1>4, <1>6
    <2> QED
      BY <1>2, <1>3, <1>5, <1>6, <2>1, <2>2 DEF DeliveryInv
  <1>8. ASSUME NEW x \in Ids PROVE StreamOK(x)'
    <2>1. StreamOK(x) /\ Stream(x)' = Stream(x)
      BY <1>2, <1>3 DEF Stream
    <2>2. Told(x)' = Told(x)
      BY <1>3, <1>4, <1>6 DEF Told
    <2>3. x \in Chats /\ (client[x] = "new" \/ Queued(x)) => produced'[x] = produced[x]
      <3>1. client[x] = "new" \/ Queued(x) => x \notin active
        BY <2>1 DEF StreamOK
      <3> QED
        BY <1>4, <1>5, <1>6, <3>1
    <2>4. Queued(x)' => Queued(x)
      BY <1>2 DEF Queued, Command
    <2> QED
      BY <1>2, <2>1, <2>2, <2>3, <2>4, QuietStream
  <1>9. SubmitOnce'
    BY <1>2, <1>3 DEF SubmitOnce
  <1> QED
    BY <1>7, <1>8, <1>9 DEF StreamInv

\* A failed tick ends the stream of every request it takes out of the maps.
LEMMA TickFailsKeepsStreams ==
  ASSUME BooksInv, StreamInv, TickFails
  PROVE  StreamInv'
  <1>1. /\ pc = "drain" /\ FailAll
        /\ UNCHANGED <<commands, pc, produced, pending, finished, disconnected, received, client>>
    BY DEF TickFails, results, handlers
  <1>2. /\ active' = {}
        /\ queue' = [id \in Ids |-> IF id \in active THEN TrySend(id, Error)[id] ELSE queue[id]]
    BY <1>1 DEF FailAll, CancelSchedulerRequests
  <1>3. /\ DeliveryInv /\ SubmitOnce /\ \A id \in Ids : StreamOK(id)
        /\ \A id \in Chats : pending[id] = 0
    BY <1>1 DEF StreamInv, DeliveryInv
  <1>4. \A x \in Ids : Told(x)' = Told(x) /\ (Queued(x)' <=> Queued(x))
    BY <1>1 DEF Told, Queued, Command
  <1>5. \A x \in Ids : x \in active => queue'[x] = TrySend(x, Error)[x]
    BY <1>2
  <1>6. \A x \in Ids : x \notin active => queue'[x] = queue[x]
    BY <1>2
  <1>7. ASSUME NEW x \in Ids PROVE StreamOK(x)' /\ queue'[x] \in Seq(Events)
    <2>0. StreamOK(x)
      BY <1>3
    <2>1. CASE x \in active
      <3>1. /\ TrySend(x, Error)[x] \in Seq(Events)
            /\ Stream(x)' = IF Sendable(x) THEN Append(Stream(x), Error) ELSE Stream(x)
        BY <1>1, <1>3, <1>5, <2>1, SendArrives, EventFacts
      <3>2. ~Queued(x) /\ client[x] # "new" /\ Unended(Stream(x))
        BY <2>0, <2>1, EnteredOnce
      <3>3. StreamOK(x)'
        BY <1>1, <1>2, <1>3, <1>4, <2>0, <3>1, <3>2, TerminalLeaves
      <3> QED
        BY <1>5, <2>1, <3>1, <3>3
    <2>2. CASE x \notin active
      <3>1. Stream(x)' = Stream(x)
        BY <1>1, <1>6, <2>2 DEF Stream
      <3>2. StreamOK(x)'
        BY <1>1, <1>2, <1>4, <2>0, <3>1, QuietStream
      <3> QED
        BY <1>3, <1>6, <2>2, <3>2 DEF DeliveryInv
    <2> QED
      BY <2>1, <2>2
  <1>8. queue' \in [Ids -> Seq(Events)]
    BY <1>2, <1>7
  <1>9. DeliveryInv' /\ SubmitOnce'
    BY <1>1, <1>3, <1>8 DEF DeliveryInv, SubmitOnce
  <1> QED
    BY <1>7, <1>9 DEF StreamInv

\* A larger count of events admits the same stream.
LEMMA ShapeGrows ==
  ASSUME NEW s, NEW told \in Nat, Shape(s, told)
  PROVE  Shape(s, told + 1)
  <1>1. \A k \in 1..told : k \in 1..(told + 1)
    OBVIOUS
  <1> QED
    BY <1>1 DEF Shape

\* An output event follows the ones before it, or its request is marked disconnected.
LEMMA SendOutputKeepsStreams ==
  ASSUME BooksInv, StreamInv, NEW id \in Chats, SendOutput(id)
  PROVE  StreamInv'
  <1>1. /\ pc = "output" /\ pending[id] > 0
        /\ pending' = [pending EXCEPT ![id] = @ - 1]
        /\ UNCHANGED <<commands, pc, active, produced, received, client>>
    BY DEF SendOutput, books, handlers
  <1>2. DeliveryInv /\ SubmitOnce /\ \A x \in Ids : StreamOK(x)
    BY DEF StreamInv
  <1>3. /\ id \in Ids /\ id \in active /\ pending[id] \in Nat /\ produced[id] \in Nat
        /\ pending[id] <= produced[id]
    BY <1>1, <1>2 DEF DeliveryInv, Ids
  <1>4. /\ queue' = TrySend(id, Output(produced[id] - pending[id] + 1))
        /\ disconnected' = FailedSend(id)
    BY <1>3 DEF SendOutput
  <1> DEFINE told == Told(id)
             e == Output(told + 1)
  <1>5. told \in Nat /\ told = produced[id] - pending[id] /\ e \in Events
    BY <1>3, EventFacts DEF Told
  <1>6. Told(id)' = told + 1 /\ \A x \in Ids : x # id => Told(x)' = Told(x)
    <2>1. /\ pending \in [Chats -> Nat] /\ pending'[id] = pending[id] - 1
          /\ \A x \in Chats : x # id => pending'[x] = pending[x]
      BY <1>1, <1>2 DEF DeliveryInv
    <2> QED
      BY <1>1, <1>3, <1>5, <2>1 DEF Told
  <1>7. /\ queue' \in [Ids -> Seq(Events)]
        /\ Stream(id)' = IF Sendable(id) THEN Append(Stream(id), e) ELSE Stream(id)
        /\ \A x \in Ids : x # id => queue'[x] = queue[x]
    BY <1>1, <1>2, <1>3, <1>4, <1>5, SendArrives
  <1>8. \A x \in Ids : Queued(x)' <=> Queued(x)
    BY <1>1 DEF Queued, Command
  <1>9. StreamOK(id)'
    <2>1. StreamOK(id) /\ ~Queued(id) /\ client[id] # "new" /\ Unended(Stream(id))
      BY <1>2, <1>3, EnteredOnce
    <2>2. /\ Stream(id) \in Seq(Events) /\ Shape(Stream(id), told)
          /\ Open(id) /\ id \notin disconnected => Gapless(Stream(id), told)
      BY <1>2, <1>3, <2>1, StreamTypes DEF StreamOK
    <2> DEFINE t == Append(Stream(id), e)
    <2>3. /\ Shape(t, told + 1) /\ Unended(t)
          /\ Gapless(Stream(id), told) => Gapless(t, told + 1)
      BY <1>5, <2>1, <2>2, OutputExtends
    <2>4. Shape(Stream(id), told + 1)
      BY <1>5, <2>2, ShapeGrows
    <2> HIDE DEF t
    <2>5. CASE Sendable(id)
      <3>1. Stream(id)' = t /\ disconnected' = disconnected /\ Open(id)
        BY <1>4, <1>7, <2>5 DEF FailedSend, Sendable, t
      <3>2. /\ Shape(Stream(id)', Told(id)') /\ Unended(Stream(id)')
            /\ id \notin disconnected => Gapless(Stream(id)', Told(id)')
        BY <1>6, <2>2, <2>3, <3>1
      <3>3. /\ Shape(Stream(id), Told(id))' /\ Unended(Stream(id))'
            /\ id \notin disconnected' => Gapless(Stream(id), Told(id))'
        BY <3>1, <3>2 DEF Shape, Unended, Gapless
      <3> QED
        BY <1>1, <1>3, <1>8, <2>1, <3>3 DEF StreamOK
    <2>6. CASE ~Sendable(id)
      <3>1. Stream(id)' = Stream(id) /\ id \in disconnected'
        BY <1>4, <1>7, <2>6 DEF FailedSend
      <3>2. Shape(Stream(id)', Told(id)') /\ Unended(Stream(id)')
        BY <1>6, <2>1, <2>4, <3>1
      <3>3. Shape(Stream(id), Told(id))' /\ Unended(Stream(id))'
        BY <3>2 DEF Shape, Unended
      <3> QED
        BY <1>1, <1>3, <1>8, <2>1, <3>1, <3>3 DEF StreamOK
    <2> QED
      BY <2>5, <2>6
  <1>10. ASSUME NEW x \in Ids, x # id PROVE StreamOK(x)'
    <2>1. StreamOK(x) /\ Stream(x)' = Stream(x) /\ Told(x)' = Told(x)
      BY <1>1, <1>2, <1>6, <1>7, <1>10 DEF Stream
    <2>2. x \notin disconnected' => x \notin disconnected
      BY <1>4 DEF FailedSend
    <2> QED
      BY <1>1, <1>8, <2>1, <2>2, QuietStream
  <1>11. DeliveryInv'
    <2>1. /\ pending' \in [Chats -> Nat]
          /\ \A x \in Chats : pending'[x] \in Nat /\ pending'[x] <= pending[x]
      BY <1>1, <1>2, <1>3 DEF DeliveryInv
    <2>2. \A x \in Chats : pending'[x] <= produced'[x] /\ (pending'[x] > 0 => x \in active')
      BY <1>1, <1>2, <2>1 DEF DeliveryInv
    <2>3. disconnected' \subseteq Ids
      BY <1>2, <1>3, <1>4 DEF FailedSend, DeliveryInv
    <2> QED
      BY <1>1, <1>2, <1>7, <2>1, <2>2, <2>3 DEF DeliveryInv
  <1>12. SubmitOnce'
    BY <1>1, <1>2 DEF SubmitOnce
  <1> QED
    BY <1>9, <1>10, <1>11, <1>12 DEF StreamInv

\* A result ends the stream of its request, which the maps still held.
LEMMA SendFinishedKeepsStreams ==
  ASSUME BooksInv, StreamInv, NEW id \in Ids, NEW event \in {Finished, Error},
         SendFinished(id, event)
  PROVE  StreamInv'
  <1>1. /\ pc = "finish" /\ <<id, event>> \in finished /\ active' = active \ {id}
        /\ queue' = IF id \in active THEN TrySend(id, event) ELSE queue
        /\ UNCHANGED <<commands, pc, produced, pending, disconnected, received, client>>
    BY DEF SendFinished, RemainingActive, handlers
  <1>2. DeliveryInv /\ SubmitOnce /\ \A x \in Ids : StreamOK(x)
    BY DEF StreamInv
  <1>3. id \in active /\ event \in Events
    <2>1. Done(id)
      BY <1>1 DEF Done
    <2> QED
      BY <2>1, EventFacts DEF BooksInv
  <1>4. /\ queue' \in [Ids -> Seq(Events)]
        /\ Stream(id)' = IF Sendable(id) THEN Append(Stream(id), event) ELSE Stream(id)
        /\ \A x \in Ids : x # id => queue'[x] = queue[x]
    BY <1>1, <1>2, <1>3, SendArrives
  <1>5. \A x \in Ids : Told(x)' = Told(x) /\ (Queued(x)' <=> Queued(x))
    BY <1>1 DEF Told, Queued, Command
  <1>6. StreamOK(id)'
    <2>1. StreamOK(id) /\ ~Queued(id) /\ client[id] # "new" /\ Unended(Stream(id))
      BY <1>2, <1>3, EnteredOnce
    <2> QED
      BY <1>1, <1>2, <1>4, <1>5, <2>1, TerminalLeaves
  <1>7. ASSUME NEW x \in Ids, x # id PROVE StreamOK(x)'
    <2>1. StreamOK(x) /\ Stream(x)' = Stream(x)
      BY <1>1, <1>2, <1>4, <1>7 DEF Stream
    <2> QED
      BY <1>1, <1>5, <2>1, QuietStream
  <1>8. DeliveryInv'
    BY <1>1, <1>2, <1>4 DEF DeliveryInv
  <1>9. SubmitOnce'
    BY <1>1, <1>2 DEF SubmitOnce
  <1> QED
    BY <1>6, <1>7, <1>8, <1>9 DEF StreamInv

\* A submission starts with an empty stream.
LEMMA SubmitKeepsStreams ==
  ASSUME BooksInv, StreamInv, NEW id \in Ids, Submit(id)
  PROVE  StreamInv'
  <1> DEFINE c == Command("Submit", id)
  <1>1. /\ client[id] = "new" /\ commands' = Sent(c)
        /\ client' = [client EXCEPT ![id] = IF pc = "stopped" THEN "refused" ELSE "waiting"]
        /\ UNCHANGED <<pc, active, produced, pending, disconnected, queue, received>>
    BY DEF Submit, books, results
  <1>2. DeliveryInv /\ SubmitOnce /\ \A x \in Ids : StreamOK(x)
    BY DEF StreamInv
  <1>3. /\ client'[id] \in {"refused", "waiting"}
        /\ \A x \in Ids : x # id => client'[x] = client[x]
        /\ client' \in [Ids -> {"new", "refused", "waiting", "answered", "closed", "left"}]
    BY <1>1, <1>2 DEF DeliveryInv
  <1>4. /\ StreamOK(id) /\ ~Queued(id) /\ id \notin active /\ Stream(id) = <<>>
        /\ id \in Chats => produced[id] = 0
    BY <1>1, <1>2 DEF StreamOK
  <1>5. SubmitOnce' /\ ToSet(commands') \subseteq ToSet(commands) \cup {c}
    <2>1. c \in Commands /\ c \notin ToSet(commands)
      BY <1>4, CommandFacts DEF Queued
    <2> QED
      BY <1>1, <1>2, <2>1, SentCommand
  <1>6. \A x \in Ids : Stream(x)' = Stream(x) /\ Told(x)' = Told(x)
    BY <1>1 DEF Stream, Told
  <1>7. StreamOK(id)'
    BY <1>1, <1>3, <1>4, <1>6 DEF StreamOK
  <1>8. ASSUME NEW x \in Ids, x # id PROVE StreamOK(x)'
    <2>1. Command("Submit", x) # c
      BY <1>8, CommandFacts
    <2>2. Queued(x)' => Queued(x)
      <3>1. Queued(x)' <=> Command("Submit", x) \in ToSet(commands')
        BY DEF Queued, Command
      <3> QED
        BY <1>5, <2>1, <3>1 DEF Queued
    <2> QED
      BY <1>1, <1>2, <1>3, <1>6, <1>8, <2>2, QuietStream
  <1>9. DeliveryInv'
    BY <1>1, <1>2, <1>3 DEF DeliveryInv
  <1> QED
    BY <1>5, <1>7, <1>8, <1>9 DEF StreamInv

\* The parts of a stream, by position.
LEMMA StreamParts ==
  ASSUME NEW r \in Seq(Events), NEW q \in Seq(Events), NEW s, s = r \o q
  PROVE  /\ Len(r) \in Nat /\ Len(q) \in Nat /\ Len(s) = Len(r) + Len(q)
         /\ \A i \in 1..Len(r) : s[i] = r[i]
         /\ q # <<>> => s[Len(r) + 1] = Head(q)
         /\ s = <<>> => r = <<>>
  <1> DEFINE c == r \o q
  <1>1. /\ Len(r) \in Nat /\ Len(q) \in Nat /\ Len(c) = Len(r) + Len(q)
        /\ \A i \in 1..Len(r) : c[i] = r[i]
        /\ \A i \in 1..Len(q) : c[Len(r) + i] = q[i]
    OBVIOUS
  <1>2. c = s
    OBVIOUS
  <1> HIDE DEF c
  <1>3. q # <<>> => Len(q) # 0 /\ Head(q) = q[1]
    OBVIOUS
  <1>4. Len(q) # 0 => 1 \in 1..Len(q)
    BY <1>1
  <1>5. q # <<>> => c[Len(r) + 1] = Head(q)
    BY <1>1, <1>3, <1>4
  <1>6. c = <<>> => Len(c) = 0
    OBVIOUS
  <1>7. c = <<>> => Len(r) = 0
    <2> DEFINE m == Len(r)
               n == Len(q)
               k == Len(c)
    <2>1. m \in Nat /\ n \in Nat /\ k = m + n
      BY <1>1
    <2> HIDE DEF m, n, k
    <2>2. k = 0 => m = 0
      BY <2>1
    <2> QED
      BY <1>6, <2>2 DEF m, k
  <1>8. Len(r) = 0 => r = <<>>
    OBVIOUS
  <1> QED
    BY <1>1, <1>2, <1>5, <1>7, <1>8

\* A cancellation in the channel is no submission.
LEMMA CancelSent ==
  ASSUME BooksInv, SubmitOnce, NEW id \in Ids, commands' = Sent(Command("Cancel", id))
  PROVE  SubmitOnce' /\ \A x \in Ids : Queued(x)' => Queued(x)
  <1> DEFINE c == Command("Cancel", id)
  <1>1. c \in Commands /\ c[1] # "Submit"
    BY CommandFacts
  <1>2. SubmitOnce' /\ ToSet(commands') \subseteq ToSet(commands) \cup {c}
    BY <1>1, SentCommand
  <1>3. ASSUME NEW x \in Ids, Queued(x)' PROVE Queued(x)
    <2>1. Command("Submit", x) \in ToSet(commands') /\ Command("Submit", x) # c
      BY <1>3, CommandFacts DEF Queued, Command
    <2> QED
      BY <1>2, <2>1 DEF Queued
  <1> QED
    BY <1>2, <1>3

\* Reading an event moves it within the stream; a terminal one was the last.
LEMMA ReceiveKeepsStreams ==
  ASSUME BooksInv, StreamInv, NEW id \in Ids, Receive(id)
  PROVE  StreamInv'
  <1> DEFINE r == received[id]
             q == queue[id]
             event == Head(q)
  <1>1. /\ client[id] = "waiting" /\ q # <<>>
        /\ received' = [received EXCEPT ![id] = Append(@, event)]
        /\ client' = IF Terminal(event) THEN [client EXCEPT ![id] = "answered"] ELSE client
        /\ queue' = [queue EXCEPT ![id] = IF Terminal(event) THEN <<>> ELSE Tail(@)]
        /\ commands' = commands \/ commands' = Sent(Command("Cancel", id))
        /\ UNCHANGED <<pc, active, produced, pending, disconnected>>
    BY DEF Receive, Open, books, results
  <1>2. DeliveryInv /\ SubmitOnce /\ \A x \in Ids : StreamOK(x)
    BY DEF StreamInv
  <1>3. /\ r \in Seq(Events) /\ q \in Seq(Events)
        /\ Stream(id) \in Seq(Events) /\ Stream(id) = r \o q
    BY <1>2, StreamTypes
  <1>4. /\ Append(r, event) \o Tail(q) = r \o q
        /\ Append(r, event) \in Seq(Events) /\ Tail(q) \in Seq(Events)
        /\ event \in Events /\ Len(q) \in Nat /\ Len(q) > 0
        /\ Len(q) = 1 => Tail(q) = <<>>
    BY <1>1, <1>3, ReceiveMoves
  <1>5. Terminal(event) => Tail(q) = <<>>
    <2> DEFINE s == Stream(id)
               k == Len(r) + 1
    <2>1. /\ Len(s) = Len(r) + Len(q) /\ Len(r) \in Nat /\ s[k] = event
      <3> HIDE DEF r, q
      <3> QED
        BY <1>1, <1>3, StreamParts DEF event
    <2>2. \A i \in 1..(Len(s) - 1) : ~Terminal(s[i])
      BY <1>2 DEF StreamOK, Shape
    <2> HIDE DEF s, k
    <2>3. ASSUME Terminal(event) PROVE Len(q) = 1
      <3>1. k \notin 1..(Len(s) - 1)
        BY <2>1, <2>2, <2>3
      <3> DEFINE m == Len(r)
                 n == Len(q)
      <3>2. m \in Nat /\ n \in Nat /\ n > 0 /\ Len(s) = m + n /\ k = m + 1
        BY <1>4, <2>1 DEF k
      <3> HIDE DEF m, n
      <3>3. n = 1
        BY <3>1, <3>2
      <3> QED
        BY <3>3 DEF n
    <2> QED
      BY <1>4, <2>3
  <1>6. /\ queue'[id] = Tail(q) /\ received'[id] = Append(r, event)
        /\ \A x \in Ids : x # id => queue'[x] = queue[x] /\ received'[x] = received[x]
        /\ queue' \in [Ids -> Seq(Events)] /\ received' \in [Ids -> Seq(Events)]
    <2>1. queue' = [queue EXCEPT ![id] = Tail(q)]
      BY <1>1, <1>5
    <2> QED
      BY <1>1, <1>2, <1>4, <2>1 DEF DeliveryInv
  <1>7. \A x \in Ids : Stream(x)' = Stream(x) /\ Told(x)' = Told(x)
    <2>1. ASSUME NEW x \in Ids PROVE Stream(x)' = Stream(x)
      <3>1. CASE x = id
        BY <1>3, <1>4, <1>6, <3>1 DEF Stream
      <3>2. CASE x # id
        BY <1>6, <3>2 DEF Stream
      <3> QED
        BY <3>1, <3>2
    <2>2. \A x \in Ids : Told(x)' = Told(x)
      BY <1>1 DEF Told
    <2> QED
      BY <2>1, <2>2
  <1>8. /\ client'[id] = client[id] \/ client'[id] = "answered"
        /\ \A x \in Ids : x # id => client'[x] = client[x]
        /\ client' \in [Ids -> {"new", "refused", "waiting", "answered", "closed", "left"}]
    BY <1>1, <1>2 DEF DeliveryInv
  <1>9. SubmitOnce' /\ \A x \in Ids : Queued(x)' => Queued(x)
    BY <1>1, <1>2, CancelSent DEF SubmitOnce, Queued, Command
  <1>10. ASSUME NEW x \in Ids PROVE StreamOK(x)'
    <2>1. \/ client'[x] = client[x]
          \/ client[x] = "waiting" /\ client'[x] \in {"answered", "closed"}
      BY <1>1, <1>8
    <2> QED
      BY <1>1, <1>2, <1>7, <1>9, <2>1, QuietStream
  <1>11. DeliveryInv'
    BY <1>1, <1>2, <1>6, <1>8 DEF DeliveryInv
  <1> QED
    BY <1>9, <1>10, <1>11 DEF StreamInv

\* A handler that leaves drops what it has not read.
LEMMA LeaveKeepsStreams ==
  ASSUME BooksInv, StreamInv, NEW id \in Ids, Abandon(id) \/ AbandonUnpolled(id)
  PROVE  StreamInv'
  <1>1. /\ client[id] = "waiting" /\ client' = [client EXCEPT ![id] = "left"]
        /\ queue' = [queue EXCEPT ![id] = <<>>]
        /\ commands' = commands \/ commands' = Sent(Command("Cancel", id))
        /\ UNCHANGED <<pc, active, produced, pending, disconnected, received>>
    BY DEF Abandon, AbandonUnpolled, Open, books, results
  <1>2. DeliveryInv /\ SubmitOnce /\ \A x \in Ids : StreamOK(x)
    BY DEF StreamInv
  <1>3. SubmitOnce' /\ \A x \in Ids : Queued(x)' => Queued(x)
    BY <1>1, <1>2, CancelSent DEF SubmitOnce, Queued, Command
  <1>4. \A x \in Ids : Told(x)' = Told(x)
    BY <1>1 DEF Told
  <1>5. /\ queue'[id] = <<>> /\ client'[id] = "left"
        /\ \A x \in Ids : x # id => queue'[x] = queue[x] /\ client'[x] = client[x]
        /\ queue' \in [Ids -> Seq(Events)]
        /\ client' \in [Ids -> {"new", "refused", "waiting", "answered", "closed", "left"}]
    <2>1. <<>> \in Seq(Events)
      OBVIOUS
    <2> QED
      BY <1>1, <1>2, <2>1 DEF DeliveryInv
  <1>6. ASSUME NEW x \in Ids, x # id PROVE StreamOK(x)'
    <2>1. StreamOK(x) /\ Stream(x)' = Stream(x) /\ client'[x] = client[x]
      BY <1>1, <1>2, <1>5, <1>6 DEF Stream
    <2> QED
      BY <1>1, <1>3, <1>4, <2>1, QuietStream
  <1>7. StreamOK(id)'
    <2> DEFINE r == received[id]
               q == queue[id]
               s == Stream(id)
    <2>1. r \in Seq(Events) /\ q \in Seq(Events) /\ s = r \o q
      BY <1>2, StreamTypes
    <2>2. Stream(id)' = r
      <3>1. Stream(id)' = r \o <<>>
        BY <1>1, <1>5 DEF Stream
      <3> QED
        BY <2>1, <3>1
    <2>3. StreamOK(id) /\ Shape(s, Told(id))
      BY <1>2 DEF StreamOK
    <2>4. Shape(r, Told(id))
      BY <2>1, <2>3, PrefixShape
    <2>5. s = <<>> => r = <<>>
      BY <2>1, StreamParts
    <2>6. Unended(s) => Unended(r)
      <3> HIDE DEF r, q, s
      <3>1. /\ Len(s) = Len(r) + Len(q) /\ Len(r) \in Nat /\ Len(q) \in Nat
            /\ \A i \in 1..Len(r) : s[i] = r[i]
        BY <2>1, StreamParts
      <3> QED
        BY <3>1 DEF Unended
    <2> HIDE DEF r, q
    <2>7. Shape(Stream(id)', Told(id)') /\ (Unended(s) => Unended(Stream(id)'))
      BY <1>4, <2>2, <2>4, <2>6
    <2>8. Shape(Stream(id), Told(id))' /\ (Unended(s) => Unended(Stream(id))')
      BY <2>7 DEF Shape, Unended
    <2> QED
      BY <1>1, <1>3, <1>5, <2>2, <2>3, <2>5, <2>8 DEF StreamOK, Open
  <1>8. DeliveryInv'
    BY <1>1, <1>2, <1>5 DEF DeliveryInv
  <1> QED
    BY <1>3, <1>6, <1>7, <1>8 DEF StreamInv

\* No other step touches a stream.
LEMMA IdleKeepsStreams ==
  ASSUME StreamInv, UNCHANGED <<queue, received, produced, pending, active, disconnected>>,
         SubmitOnce', \A x \in Ids : Queued(x)' => Queued(x),
         pc' = pc \/ (pc' = "finish" /\ \A x \in Chats : pending[x] = 0),
         \/ client' = client
         \/ \E id \in Ids : client[id] = "waiting" /\ client' = [client EXCEPT ![id] = "closed"]
  PROVE  StreamInv'
  <1>1. DeliveryInv /\ \A x \in Ids : StreamOK(x)
    BY DEF StreamInv
  <1>2. \A x \in Ids : \/ client'[x] = client[x]
                       \/ client[x] = "waiting" /\ client'[x] \in {"answered", "closed"}
    BY <1>1 DEF DeliveryInv
  <1>3. \A x \in Ids : Stream(x)' = Stream(x) /\ Told(x)' = Told(x)
    BY DEF Stream, Told
  <1>4. \A x \in Ids : StreamOK(x)'
    BY <1>1, <1>2, <1>3, QuietStream
  <1>5. client' \in [Ids -> {"new", "refused", "waiting", "answered", "closed", "left"}]
    BY <1>1 DEF DeliveryInv
  <1>6. DeliveryInv'
    BY <1>1, <1>5 DEF DeliveryInv
  <1> QED
    BY <1>4, <1>6 DEF StreamInv

\* Every step of a handler keeps the streams.
LEMMA HandlerKeepsStreams ==
  ASSUME BooksInv, StreamInv, NEW id \in Ids, Handler(id)
  PROVE  StreamInv'
  <1>1. CASE Submit(id)
    BY <1>1, SubmitKeepsStreams
  <1>2. CASE Receive(id)
    BY <1>2, ReceiveKeepsStreams
  <1>3. CASE ReceiveClosed(id)
    <2>1. /\ client[id] = "waiting" /\ client' = [client EXCEPT ![id] = "closed"]
          /\ commands' = Sent(Command("Cancel", id))
          /\ UNCHANGED <<pc, active, produced, pending, disconnected, queue, received>>
      BY <1>3 DEF ReceiveClosed, Open, books, results
    <2>2. SubmitOnce' /\ \A x \in Ids : Queued(x)' => Queued(x)
      BY <2>1, CancelSent DEF StreamInv
    <2> QED
      BY <2>1, <2>2, IdleKeepsStreams
  <1>4. CASE Abandon(id) \/ AbandonUnpolled(id)
    BY <1>4, LeaveKeepsStreams
  <1> QED
    BY <1>1, <1>2, <1>3, <1>4 DEF Handler

\* Every step keeps the streams.
LEMMA NextKeepsStreams ==
  ASSUME BooksInv, StreamInv, [Next]_vars
  PROVE  StreamInv'
  <1>0. DeliveryInv /\ SubmitOnce
    BY DEF StreamInv
  <1>1. CASE HandleCommand
    BY <1>1, HandleCommandKeepsStreams
  <1>2. CASE Tick
    BY <1>2, TickKeepsStreams
  <1>3. CASE TickFails
    BY <1>3, TickFailsKeepsStreams
  <1>4. CASE OutputsSent
    <2>1. /\ pc' = "finish" /\ \A x \in Chats : pending[x] = 0
          /\ UNCHANGED <<commands, active, produced, pending, disconnected, queue, received, client>>
      BY <1>4 DEF OutputsSent, books, results, handlers
    <2>2. SubmitOnce' /\ \A x \in Ids : Queued(x)' => Queued(x)
      BY <1>0, <2>1 DEF SubmitOnce, Queued, Command
    <2> QED
      BY <2>1, <2>2, IdleKeepsStreams
  <1>5. CASE CancelDisconnected
    <2>1. /\ pc = "finish" /\ pc' = "drain" /\ disconnected' = {}
          /\ active' \subseteq active /\ active' \cap disconnected = {}
          /\ UNCHANGED <<commands, produced, pending, queue, received, client>>
      BY <1>5 DEF CancelDisconnected, CancelSchedulerRequests, handlers
    <2>2. \A x \in Chats : pending[x] = 0
      BY <1>0, <2>1 DEF DeliveryInv
    <2>3. SubmitOnce' /\ ToSet(commands') \subseteq ToSet(commands)
      BY <1>0, <2>1 DEF SubmitOnce
    <2>4. pc' # "output"
      BY <2>1
    <2> QED
      BY <2>1, <2>2, <2>3, <2>4, DropKeepsStreams
  <1>6. ASSUME NEW id \in Chats, SendOutput(id) PROVE StreamInv'
    BY <1>6, SendOutputKeepsStreams
  <1>7. ASSUME NEW id \in Ids, NEW event \in {Finished, Error}, SendFinished(id, event)
        PROVE  StreamInv'
    BY <1>7, SendFinishedKeepsStreams
  <1>8. CASE RequestShutdown
    <2>1. /\ commands' = Append(commands, Shutdown)
          /\ UNCHANGED <<pc, active, produced, pending, disconnected, queue, received, client>>
      BY <1>8 DEF RequestShutdown, books, results, handlers
    <2>2. Shutdown \in Commands /\ Shutdown[1] # "Submit"
      BY DEF Shutdown, Commands
    <2>3. SubmitOnce' /\ ToSet(commands') = ToSet(commands) \cup {Shutdown}
      BY <1>0, <2>1, <2>2, CommandSent
    <2>4. ASSUME NEW x \in Ids, Queued(x)' PROVE Queued(x)
      <3>1. Command("Submit", x) \in ToSet(commands') /\ Command("Submit", x) # Shutdown
        BY <2>4, CommandFacts DEF Queued, Command
      <3> QED
        BY <2>3, <3>1 DEF Queued
    <2> QED
      BY <2>1, <2>3, <2>4, IdleKeepsStreams
  <1>9. ASSUME NEW id \in Ids, Handler(id) PROVE StreamInv'
    BY <1>9, HandlerKeepsStreams
  <1>10. CASE UNCHANGED vars
    <2>1. UNCHANGED <<commands, pc, active, produced, pending, disconnected, queue, received, client>>
      BY <1>10 DEF vars, books, results, handlers
    <2>2. SubmitOnce' /\ \A x \in Ids : Queued(x)' => Queued(x)
      BY <1>0, <2>1 DEF SubmitOnce, Queued, Command
    <2> QED
      BY <2>1, <2>2, IdleKeepsStreams
  <1> QED
    BY <1>1, <1>2, <1>3, <1>4, <1>5, <1>6, <1>7, <1>8, <1>9, <1>10 DEF Next, Actor

\* Before anything is submitted every stream is empty.
LEMMA InitStreams ==
  ASSUME Init
  PROVE  StreamInv
  <1>1. /\ \A id \in Ids : Stream(id) = <<>> /\ Told(id) = 0 /\ ~Queued(id)
        /\ active = {} /\ commands = <<>>
    <2>1. \A id \in Ids : received[id] = <<>> /\ queue[id] = <<>>
      BY DEF Init
    <2>2. \A id \in Ids : Stream(id) = <<>>
      BY <2>1 DEF Stream
    <2>3. \A id \in Ids : Told(id) = 0
      BY DEF Init, Told
    <2> QED
      BY <2>2, <2>3 DEF Init, Queued, ToSet
  <1>2. \A id \in Ids : StreamOK(id)
    <2>1. \A id \in Ids : id \in Chats => produced[id] = 0
      BY DEF Init
    <2> QED
      BY <1>1, <2>1, EmptyStream DEF StreamOK
  <1>3. DeliveryInv
    <2> DEFINE e == <<>>
    <2>1. e \in Seq(Events) /\ 0 \in Nat
      OBVIOUS
    <2>2. queue = [id \in Ids |-> e] /\ received = [id \in Ids |-> e]
      BY DEF Init
    <2> HIDE DEF e
    <2>3. queue \in [Ids -> Seq(Events)] /\ received \in [Ids -> Seq(Events)]
      BY <2>1, <2>2
    <2> QED
      BY <2>3 DEF Init, DeliveryInv
  <1>4. SubmitOnce
    BY <1>1 DEF SubmitOnce
  <1> QED
    BY <1>2, <1>3, <1>4 DEF StreamInv

\* The invariant of the streams holds throughout.
LEMMA StreamsInvariant == Spec => []StreamInv
  <1>1. Init => BooksInv /\ StreamInv
    BY InitBooks, InitStreams
  <1>2. BooksInv /\ StreamInv /\ [Next]_vars => (BooksInv /\ StreamInv)'
    BY NextKeepsBooks, NextKeepsStreams
  <1> QED
    BY <1>1, <1>2, PTL DEF Spec

\* For any number of clients and any capacities, whatever sends fail and whenever handlers
\* leave: what a handler sees of a request is in order and without repetition, and nothing
\* follows a terminal event.
THEOREM StreamsStayWellFormed == Spec => []StreamWellFormed
  <1>1. ASSUME StreamInv PROVE StreamWellFormed
    <2> SUFFICES ASSUME NEW id \in Ids
                 PROVE  /\ \A i \in 1..(Len(Stream(id)) - 1) : ~Terminal(Stream(id)[i])
                        /\ \A i, j \in DOMAIN Outputs(id) :
                             i < j => Outputs(id)[i][2] < Outputs(id)[j][2]
      BY DEF StreamWellFormed
    <2> DEFINE s == Stream(id)
               o == Outputs(id)
    <2>1. s \in Seq(Events) /\ Shape(s, Told(id))
      BY <1>1, StreamTypes DEF StreamInv, StreamOK
    <2>2. /\ o = Keep(s, {event \in ToSet(s) : event[1] = "Output"})
      BY DEF Outputs
    <2> HIDE DEF s, o
    <2>3. /\ o \in Seq(Events)
          /\ \E h : Places(h, o, s, Len(s))
          /\ ToSet(o) = ToSet(s) \cap {event \in ToSet(s) : event[1] = "Output"}
      BY <2>1, <2>2, KeepPlaces
    <2>4. PICK h : Places(h, o, s, Len(s))
      BY <2>3
    <2>5. ASSUME NEW i \in DOMAIN o, NEW j \in DOMAIN o, i < j
          PROVE  o[i][2] < o[j][2]
      <3>1. i \in 1..Len(o) /\ j \in 1..Len(o) /\ o[j] \in Events
        BY <2>3
      <3>2. /\ h[i] \in 1..Len(s) /\ h[j] \in 1..Len(s) /\ h[i] < h[j]
            /\ o[i] = s[h[i]] /\ o[j] = s[h[j]]
        BY <2>4, <2>5, <3>1 DEF Places
      <3>3. o[j][1] = "Output"
        BY <2>3, <3>1, MemberAt
      <3>4. ~Terminal(s[h[j]])
        BY <3>1, <3>2, <3>3, EventFacts
      <3> QED
        BY <2>1, <3>2, <3>4 DEF Shape
    <2>6. \A i \in 1..(Len(s) - 1) : ~Terminal(s[i])
      BY <2>1 DEF Shape
    <2> QED
      BY <2>5, <2>6 DEF s, o
  <1> QED
    BY <1>1, StreamsInvariant, PTL

\* Between ticks, a request that lives on, and whose handler still reads, has missed nothing.
LEMMA NoGapBetweenTicks ==
  ASSUME StreamInv, NEW id \in Chats, pc = "drain", id \in active, Open(id)
  PROVE  ~Gap(id)
<1> DEFINE s == Stream(id)
<1>1. id \in Ids /\ StreamOK(id) /\ disconnected = {} /\ pending[id] = 0 /\ produced[id] \in Nat
  BY DEF StreamInv, DeliveryInv, Ids
<1>2. s \in Seq(Events) /\ Gapless(s, produced[id])
  <2>1. Told(id) = produced[id] BY <1>1 DEF Told
  <2> QED BY <1>1, <2>1, StreamTypes DEF StreamInv, StreamOK
<1> DEFINE S == {event \in ToSet(s) : event[1] = "Output"}
<1>3. Outputs(id) = Keep(s, S) BY DEF Outputs
<1> HIDE DEF s
<1>4. Len(s) = produced[id] /\ \A i \in 1..Len(s) : s[i] = Output(i) BY <1>2 DEF Gapless
<1>5. \A i \in 1..Len(s) : s[i] \in S
  <2>1. \A i \in 1..Len(s) : s[i] \in ToSet(s) /\ i \in Nat BY <1>1, <1>2, <1>4, MemberAt
  <2> QED BY <1>4, <2>1, EventFacts
<1> HIDE DEF S
<1>6. Keep(s, S) = s BY <1>2, <1>5, KeepAll
<1>7. s = [n \in 1..produced[id] |-> Output(n)] BY <1>2, <1>4
<1>8. produced[id] - pending[id] = produced[id] BY <1>1
<1> QED BY <1>3, <1>6, <1>7, <1>8 DEF Gap

\* Only a tick generates output, for requests that the actor holds.
LEMMA OutputComesFromTick ==
  ASSUME BooksInv, StreamInv, [Next]_vars, NEW id \in Chats, produced'[id] # produced[id]
  PROVE  pc = "drain" /\ id \in active
<1>1. Tick
  <2>1. CASE \E i \in Ids : Handler(i)
    BY <2>1 DEF Handler, Submit, Receive, ReceiveClosed, Abandon, AbandonUnpolled, results
  <2>2. CASE RequestShutdown BY <2>2 DEF RequestShutdown, results
  <2>3. CASE Actor
    BY <2>3 DEF Actor, HandleCommand, TickFails, OutputsSent, CancelDisconnected, SendOutput,
                SendFinished, results
  <2>4. CASE UNCHANGED vars BY <2>4 DEF vars, results
  <2> QED BY <2>1, <2>2, <2>3, <2>4 DEF Next
<1>2. PICK burst \in [Chats -> 0..MaxBurst] :
        /\ \A c \in Chats : ~Held(c) => burst[c] = 0
        /\ produced' = [c \in Chats |-> produced[c] + burst[c]]
  BY <1>1 DEF Tick
<1>3. produced[id] \in Nat BY DEF StreamInv, DeliveryInv
<1>4. Held(id)
  <2> SUFFICES ASSUME ~Held(id) PROVE FALSE OBVIOUS
  <2>1. produced'[id] = produced[id] + 0 BY <1>2
  <2> QED BY <1>3, <2>1
<1>5. id \in Ids BY DEF Ids
<1> QED BY <1>1, <1>4, <1>5 DEF Tick, BooksInv

\* For any number of clients and any capacities: once a handler that still reads has missed
\* an output event, because its queue was full, the engine generates nothing more for its
\* request (the loop over tick.output and the cancellation behind it).
THEOREM GapsEndTheOutput == Spec => GapEndsTheOutput
<1>1. BooksInv /\ StreamInv /\ [Next]_vars =>
        [\A id \in Chats : Open(id) /\ Gap(id) => produced'[id] = produced[id]]_vars
  <2> SUFFICES ASSUME BooksInv, StreamInv, [Next]_vars, NEW id \in Chats, Open(id), Gap(id),
                      produced'[id] # produced[id]
               PROVE  FALSE
    OBVIOUS
  <2> QED BY OutputComesFromTick, NoGapBetweenTicks
<1>2. Init => BooksInv BY InitBooks
<1>3. BooksInv /\ [Next]_vars => BooksInv' BY NextKeepsBooks
<1> QED BY <1>1, <1>2, <1>3, StreamsInvariant, PTL DEF Spec, GapEndsTheOutput
================================================================================
