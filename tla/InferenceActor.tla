----------------------------- MODULE InferenceActor -----------------------------
(***************************************************************************)
(* The thread that owns the loaded model (crates/eider-api/src/actor.rs)   *)
(* and the HTTP handlers that talk to it (crates/eider-api/src/server.rs). *)
(*                                                                         *)
(* Handlers send commands over an unbounded channel and wait on a bounded  *)
(* event queue (chats) or a one-shot answer (decisions).  The actor drains *)
(* the commands, ticks the engine, and hands out what the tick produced    *)
(* with sends that never block.  Handlers read, leave or time out between  *)
(* any two of those sends.                                                 *)
(*                                                                         *)
(* The engine is used through EngineService only: here it keeps, for each  *)
(* accepted request, the ticks until it is done.  A decision may also      *)
(* never be done (see DecisionsFinish of Qwen36Scheduler).  One identity   *)
(* stands for a request's external id and for its engine id.               *)
(***************************************************************************)
EXTENDS Queues

CONSTANTS
  Chats,           \* chat requests, each submitted at most once
  Decisions,       \* decision requests, each submitted at most once
  EventCapacity,   \* InferenceActorConfig::event_capacity
  MaxTicks,        \* bound: ticks a request takes that finishes
  MaxBurst,        \* bound: output events of one request in one tick
  TickErrors       \* whether the engine's tick may fail

ASSUME ActorAssumption ==
  /\ Chats \cap Decisions = {}
  /\ {EventCapacity, MaxTicks, MaxBurst} \subseteq Nat \ {0}
  /\ TickErrors \in BOOLEAN

Ids == Chats \cup Decisions

VARIABLES
  commands,       \* the command channel
  pc,             \* where the actor loop stands
  active,         \* keys of active and active_decisions: who holds a sender
  by_external,    \* keys of scheduler_by_external
  engine,         \* ticks each request still needs; 0 for one the engine lacks
  produced,       \* output events the engine has emitted for each chat
  pending,        \* of those, the ones this tick's loop has not sent yet
  finished,       \* the running tick's finished and failed requests
  disconnected,   \* requests whose send failed in this tick
  queue,          \* each request's event queue
  received,       \* what its handler has taken from it
  client          \* where its handler stands

books == <<active, by_external, engine>>
results == <<produced, pending, finished, disconnected>>
handlers == <<received, client>>
vars == <<commands, pc, books, results, queue, handlers>>

Never == -1

Output(n) == <<"Output", n>>
Finished == <<"Finished", 0>>
Error == <<"Error", 0>>
Terminal(event) == event \in {Finished, Error}

Command(kind, id) == <<kind, id>>
Shutdown == <<"Shutdown", "all">>

Init ==
  /\ commands = <<>>
  /\ pc = "drain"
  /\ active = {} /\ by_external = {}
  /\ engine = [id \in Ids |-> 0]
  /\ produced = [id \in Chats |-> 0] /\ pending = [id \in Chats |-> 0]
  /\ finished = {} /\ disconnected = {}
  /\ queue = [id \in Ids |-> <<>>]
  /\ received = [id \in Ids |-> <<>>]
  /\ client = [id \in Ids |-> "new"]

Held(id) == engine[id] # 0

\* A handler's receiver exists while it waits; the sender half is in a queued
\* Submit command or in the actor's maps.
Open(id) == client[id] = "waiting"
SenderAlive(id) == id \in active \/ Command("Submit", id) \in ToSet(commands)

\* A one-shot answer and a bounded queue: neither send blocks.
Capacity(id) == IF id \in Decisions THEN 1 ELSE EventCapacity
Sendable(id) == Open(id) /\ Len(queue[id]) < Capacity(id)

TrySend(id, event) ==
  [queue EXCEPT ![id] = IF Sendable(id) THEN Append(@, event) ELSE @]

--------------------------------------------------------------------------------
(***************************************************************************)
(* The handlers.                                                           *)
(***************************************************************************)

\* Commands to an actor that has returned are refused or ignored.
Sent(command) == IF pc = "stopped" THEN commands ELSE Append(commands, command)

Submit(id) ==
  /\ client[id] = "new"
  /\ client' = [client EXCEPT ![id] = IF pc = "stopped" THEN "refused" ELSE "waiting"]
  /\ commands' = Sent(Command("Submit", id))
  /\ UNCHANGED <<pc, books, results, queue, received>>

\* A terminal event ends the handler; a decision that failed returns with its
\* CancellationGuard still armed.
Receive(id) ==
  /\ Open(id) /\ queue[id] # <<>>
  /\ LET event == Head(queue[id])
     IN  /\ received' = [received EXCEPT ![id] = Append(@, event)]
         /\ client' = IF Terminal(event) THEN [client EXCEPT ![id] = "answered"] ELSE client
         /\ queue' = [queue EXCEPT ![id] = IF Terminal(event) THEN <<>> ELSE Tail(@)]
         /\ commands' = IF event = Error /\ id \in Decisions
                        THEN Sent(Command("Cancel", id)) ELSE commands
  /\ UNCHANGED <<pc, books, results>>

\* The queue is empty and its sender is gone.
ReceiveClosed(id) ==
  /\ Open(id) /\ queue[id] = <<>> /\ ~SenderAlive(id)
  /\ client' = [client EXCEPT ![id] = "closed"]
  /\ commands' = Sent(Command("Cancel", id))
  /\ UNCHANGED <<pc, books, results, queue, received>>

\* The connection goes away, or a decision times out: the guard sends a Cancel as
\* the receiver is dropped.
Abandon(id) ==
  /\ Open(id)
  /\ client' = [client EXCEPT ![id] = "left"]
  /\ queue' = [queue EXCEPT ![id] = <<>>]
  /\ commands' = Sent(Command("Cancel", id))
  /\ UNCHANGED <<pc, books, results, received>>

\* A streaming body that was never polled has no guard yet: only its receiver goes.
AbandonUnpolled(id) ==
  /\ id \in Chats /\ Open(id) /\ received[id] = <<>>
  /\ client' = [client EXCEPT ![id] = "left"]
  /\ queue' = [queue EXCEPT ![id] = <<>>]
  /\ UNCHANGED <<commands, pc, books, results, received>>

RequestShutdown ==
  /\ Shutdown \notin ToSet(commands)
  /\ pc # "stopped"
  /\ commands' = Append(commands, Shutdown)
  /\ UNCHANGED <<pc, books, results, queue, handlers>>

--------------------------------------------------------------------------------
(***************************************************************************)
(* handle_command.                                                         *)
(***************************************************************************)

\* Mutant: the actor forgets the requests and the engine keeps them.
CancelsBooksOnly(S) ==
  /\ active' = active \ S
  /\ by_external' = by_external \ S
  /\ UNCHANGED engine

\* cancel_scheduler_request for each of S.
CancelSchedulerRequests(S) ==
  /\ active' = active \ S
  /\ by_external' = by_external \ S
  /\ engine' = [id \in Ids |-> IF id \in S THEN 0 ELSE engine[id]]

HandleSubmit(id) ==
  \/ /\ \E ticks \in 1..MaxTicks \cup {t \in {Never} : id \in Decisions} :
          engine' = [engine EXCEPT ![id] = ticks]
     /\ active' = active \cup {id}
     /\ by_external' = by_external \cup {id}
     /\ UNCHANGED <<pc, queue>>
  \/ /\ queue' = TrySend(id, Error)
     /\ UNCHANGED <<pc, books>>

HandleCancel(id) ==
  /\ CancelSchedulerRequests({id} \cap by_external)
  /\ UNCHANGED <<pc, queue>>

HandleShutdown ==
  /\ CancelSchedulerRequests(active)
  /\ pc' = "stopped"
  /\ UNCHANGED queue

HandleCommand ==
  /\ pc = "drain" /\ commands # <<>>
  /\ LET command == Head(commands)
     IN  \/ command[1] = "Submit" /\ HandleSubmit(command[2]) /\ commands' = Tail(commands)
         \/ command[1] = "Cancel" /\ HandleCancel(command[2]) /\ commands' = Tail(commands)
         \/ command = Shutdown /\ HandleShutdown /\ commands' = <<>>
  /\ UNCHANGED <<results, handlers>>

--------------------------------------------------------------------------------
(***************************************************************************)
(* The tick and the delivery of its results.                               *)
(***************************************************************************)

TicksLeft(id) == IF engine[id] \in {0, Never} THEN engine[id] ELSE engine[id] - 1

\* The engine emits a burst for each chat and releases what is done; a decision is
\* done with an answer or with a failure of its own.
Tick ==
  /\ pc = "drain" /\ commands = <<>> /\ active # {}
  /\ LET done == {id \in Ids : Held(id) /\ TicksLeft(id) = 0}
     IN  /\ \E burst \in [Chats -> 0..MaxBurst] :
              /\ \A id \in Chats : ~Held(id) => burst[id] = 0
              /\ pending' = burst
              /\ produced' = [id \in Chats |-> produced[id] + burst[id]]
         /\ \E failed \in SUBSET (done \cap Decisions) :
              finished' = {<<id, IF id \in failed THEN Error ELSE Finished>> : id \in done}
  /\ engine' = [id \in Ids |-> TicksLeft(id)]
  /\ pc' = "output"
  /\ UNCHANGED <<commands, active, by_external, disconnected, queue, handlers>>

\* Mutant: the failed tick is reported and its chats stay active.
FailDecisionsOnly ==
  /\ queue' = [id \in Ids |-> IF id \in active THEN TrySend(id, Error)[id] ELSE queue[id]]
  /\ CancelSchedulerRequests(active \cap Decisions)

\* The tick fails: an Error to everyone, then fail_all.
FailAll ==
  /\ queue' = [id \in Ids |-> IF id \in active THEN TrySend(id, Error)[id] ELSE queue[id]]
  /\ CancelSchedulerRequests(active)

TickFails ==
  /\ TickErrors
  /\ pc = "drain" /\ commands = <<>> /\ active # {}
  /\ FailAll
  /\ UNCHANGED <<commands, pc, results, handlers>>

\* Mutant: an output event that does not fit is dropped without a record.
ForgetsDroppedOutput(id) == disconnected

FailedSend(id) ==
  IF Sendable(id) THEN disconnected ELSE disconnected \cup {id}

\* One turn of the loop over tick.output.
SendOutput(id) ==
  /\ pc = "output" /\ pending[id] > 0
  /\ pending' = [pending EXCEPT ![id] = @ - 1]
  /\ IF id \in active
     THEN /\ queue' = TrySend(id, Output(produced[id] - pending[id] + 1))
          /\ disconnected' = FailedSend(id)
     ELSE UNCHANGED <<queue, disconnected>>
  /\ UNCHANGED <<commands, pc, books, produced, finished, handlers>>

OutputsSent ==
  /\ pc = "output" /\ \A id \in Chats : pending[id] = 0
  /\ pc' = "finish"
  /\ UNCHANGED <<commands, books, results, queue, handlers>>

\* Mutant: the entry of a request that missed its Finished event is kept.
KeepsUndelivered(id) ==
  IF Sendable(id) THEN active \ {id} ELSE active

RemainingActive(id) == active \ {id}

\* Mutant: the external id of a finished request stays mapped.
KeepsExternal(id) == by_external

RemainingExternal(id) == by_external \ {id}

\* One turn of the loops over tick.finished, decisions_finished and decisions_failed.
SendFinished(id, event) ==
  /\ pc = "finish" /\ <<id, event>> \in finished
  /\ finished' = finished \ {<<id, event>>}
  /\ active' = RemainingActive(id)
  /\ by_external' = RemainingExternal(id)
  /\ queue' = IF id \in active THEN TrySend(id, event) ELSE queue
  /\ UNCHANGED <<commands, pc, engine, produced, pending, disconnected, handlers>>

\* Requests with a failed send and decisions nobody waits for are cancelled, and
\* the loop starts again.
CancelDisconnected ==
  /\ pc = "finish" /\ finished = {}
  /\ CancelSchedulerRequests(disconnected \cup {id \in active \cap Decisions : ~Open(id)})
  /\ disconnected' = {}
  /\ pc' = "drain"
  /\ UNCHANGED <<commands, produced, pending, finished, queue, handlers>>

--------------------------------------------------------------------------------
Actor ==
  \/ HandleCommand \/ Tick \/ TickFails \/ OutputsSent \/ CancelDisconnected
  \/ \E id \in Chats : SendOutput(id)
  \/ \E id \in Ids, event \in {Finished, Error} : SendFinished(id, event)

Handler(id) ==
  \/ Submit(id) \/ Receive(id) \/ ReceiveClosed(id)
  \/ Abandon(id) \/ AbandonUnpolled(id)

Next == Actor \/ RequestShutdown \/ \E id \in Ids : Handler(id)

(***************************************************************************)
(* The actor thread runs, a handler is polled when its receiver is ready,  *)
(* and a decision handler's timer fires.  No chat handler has to leave and *)
(* nobody has to shut the server down.                                     *)
(***************************************************************************)
Spec ==
  /\ Init /\ [][Next]_vars
  /\ WF_vars(Actor)
  /\ \A id \in Ids : WF_vars(Receive(id) \/ ReceiveClosed(id))
  /\ \A id \in Decisions : WF_vars(Abandon(id))

--------------------------------------------------------------------------------
(***************************************************************************)
(* Properties.                                                             *)
(***************************************************************************)

Events == {"Output", "Finished", "Error"} \X Nat

\* Every variable of the actor and of the handlers stays in its type, and no event
\* queue outgrows its capacity.
TypeOK ==
  /\ ToSet(commands) \subseteq ({"Submit", "Cancel"} \X Ids) \cup {Shutdown}
  /\ pc \in {"drain", "output", "finish", "stopped"}
  /\ active \subseteq Ids /\ by_external \subseteq Ids /\ disconnected \subseteq Ids
  /\ engine \in [Ids -> Nat \cup {Never}]
  /\ produced \in [Chats -> Nat] /\ pending \in [Chats -> Nat]
  /\ finished \subseteq Ids \X {Finished, Error}
  /\ queue \in [Ids -> Seq(Events)] /\ received \in [Ids -> Seq(Events)]
  /\ \A id \in Ids : Len(queue[id]) <= Capacity(id)
  /\ client \in [Ids -> {"new", "refused", "waiting", "answered", "closed", "left"}]

\* The engine never runs a request that the actor could no longer cancel, both id
\* maps always name the same requests, and between ticks the actor keeps a sender
\* exactly for what the engine runs: finished, failed, cancelled and disconnected
\* requests have left all three, also when the actor has returned.
BooksAgree ==
  /\ {id \in Ids : Held(id)} \subseteq active
  /\ active = by_external
  /\ pc \in {"drain", "stopped"} => active = {id \in Ids : Held(id)}
  /\ pc = "stopped" => active = {}

Stream(id) == received[id] \o queue[id]
Outputs(id) == Keep(Stream(id), {event \in ToSet(Stream(id)) : event[1] = "Output"})

\* What a handler sees is in order and without repetition, and a terminal event is
\* the last one, whatever sends failed in between.
StreamWellFormed ==
  \A id \in Ids :
    /\ \A i \in 1..(Len(Stream(id)) - 1) : ~Terminal(Stream(id)[i])
    /\ \A i, j \in DOMAIN Outputs(id) : i < j => Outputs(id)[i][2] < Outputs(id)[j][2]

\* Some output event the actor has come to is missing from the handler's stream.
Gap(id) == Outputs(id) # [n \in 1..(produced[id] - pending[id]) |-> Output(n)]

\* An event that did not fit the queue costs the request its life at the end of the
\* tick: once a handler that still reads has missed an event, the engine generates
\* nothing more for it, so a gap never goes beyond the events of one tick.
GapEndsTheOutput ==
  [][\A id \in Chats : Open(id) /\ Gap(id) => produced'[id] = produced[id]]_vars

\* A handler that was told Finished has received every output event of its request.
FinishedIsComplete ==
  \A id \in Chats :
    Finished \in ToSet(received[id]) => Outputs(id) = [n \in 1..produced[id] |-> Output(n)]

\* Every handler gets to an end: an answer, an error, a closed queue or its timer,
\* also when the queue was full at the finish or the actor shut down.
HandlersEnd == \A id \in Ids : Open(id) ~> ~Open(id)

\* What nobody waits for is taken out of the engine, even a decision that would
\* never finish by itself.
AbandonedIsReleased == \A id \in Ids : client[id] = "left" ~> ~Held(id)
================================================================================
