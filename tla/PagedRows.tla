----------------------------- MODULE PagedRows ------------------------------
(***************************************************************************)
(* The asynchronous reader of paged embedding rows                         *)
(* (crates/eider-cuda/src/paged_rows.rs): two reusable batches, a          *)
(* coordinator thread behind a one-place request channel, a pool of direct *)
(* I/O workers behind one-place job channels, and a GPU that gathers from  *)
(* the batch's host-visible pages whenever its stream gets there.          *)
(*                                                                         *)
(* The owner is a forward pass of crates/infer/src/qwen38_flash_next:      *)
(* begin_rows before layer 0, gather at the first consumer.  A layer in    *)
(* between may fail, and the pass is then abandoned.                       *)
(***************************************************************************)
EXTENDS Naturals, Sequences, FiniteSets, SequencesExt

CONSTANTS
  Requests,   \* the row lists a pass may ask for
  MaxRows,    \* the rows a batch has room for
  Workers,    \* number of direct I/O workers
  NoSlot,     \* no batch
  Torn        \* a page that is being written, or whose read failed

Batches == {0, 1}

\* begin_rows rejects an empty list and one longer than a batch.
ReaderAssumption ==
  /\ MaxRows \in Nat /\ Workers \in Nat \ {0} /\ NoSlot \notin Batches
  /\ Requests \subseteq Seq(Nat) /\ \A rows \in Requests : Len(rows) \in 1..MaxRows

ASSUME ReaderOK == ReaderAssumption

VARIABLES
  pc,           \* the forward pass: "idle", "layers", "ready", "drain" or the drop of the reader
  want,         \* the rows the current pass asked for
  free, busy,   \* PagedRowReader: batches as stacks, the top is last
  ready,        \* the batch read and not gathered yet
  pending,      \* a request is with the coordinator
  lost,         \* history: batches dropped with an error of the stream
  request,      \* sync_channel(1): at most one request, [rows, slot]
  response,     \* unbounded channel of answers, [slot, ok]
  open,         \* the request sender has not been dropped
  coordinator,  \* the coordinator thread: phase, request, jobs dispatched and collected, read_error
  jobs,         \* per worker: the job it reads, and one in its channel
  completions,  \* unbounded channel of job results
  pages,        \* per batch, the row each page slot holds
  offsets,      \* per batch, the page slot of each requested row
  row_count,    \* per batch
  stream        \* queued operations of the inference stream

pass == <<pc, want>>
reader == <<free, busy, ready, pending, lost>>
channels == <<request, response, open>>
pool == <<coordinator, jobs, completions>>
memory == <<pages, offsets, row_count>>
readerVars == <<pass, reader, channels, pool, memory, stream>>

Worker == 1..Workers
Resting == [phase |-> "recv", rows |-> <<>>, slot |-> NoSlot, dispatched |-> 0,
            collected |-> 0, failed |-> FALSE]

ReaderInit ==
  /\ pc = "idle" /\ want = <<>>
  /\ free = <<0, 1>> /\ busy = <<>> /\ ready = NoSlot /\ pending = FALSE /\ lost = {}
  /\ request = <<>> /\ response = <<>> /\ open = TRUE
  /\ coordinator = Resting
  /\ jobs = [w \in Worker |-> <<>>] /\ completions = <<>>
  /\ pages = [b \in Batches |-> [p \in 1..MaxRows |-> Torn]]
  /\ offsets = [b \in Batches |-> [i \in 1..MaxRows |-> 1]]
  /\ row_count = [b \in Batches |-> 0]
  /\ stream = <<>>

(***************************************************************************)
(* The inference stream (external).  Waiting for a batch's reuse event     *)
(* passes when no record of it is queued.                                  *)
(***************************************************************************)
Gather(b) == [op |-> "gather", slot |-> b, rows |-> row_count[b], want |-> want]
Reusable(b) == [op |-> "record", slot |-> b]
EventDone(b) == \A i \in DOMAIN stream : stream[i] # Reusable(b)

StreamStep ==
  /\ stream # <<>>
  /\ stream' = Tail(stream)
  /\ UNCHANGED <<pass, reader, channels, pool, memory>>

(***************************************************************************)
(* begin_rows: a free batch, or the last busy one once its event is done.  *)
(* A pass whose read is refused because the previous batch was not         *)
(* gathered changes nothing and ends at once.                              *)
(***************************************************************************)
Gathered == ~pending /\ ready = NoSlot
Available == free # <<>> \/ busy # <<>>

BeginRows ==
  /\ pc = "idle" /\ open
  /\ Gathered /\ Available
  /\ \E rows \in Requests :
       LET slot == IF free # <<>> THEN Last(free) ELSE Last(busy) IN
       /\ IF free # <<>> THEN free' = Front(free) /\ UNCHANGED busy
          ELSE EventDone(slot) /\ busy' = Front(busy) /\ UNCHANGED free
       /\ request' = <<[rows |-> rows, slot |-> slot]>>
       /\ want' = rows
  /\ pending' = TRUE
  /\ pc' = "layers"
  /\ UNCHANGED <<ready, lost, response, open, pool, memory, stream>>

\* The wait for the event fails and the batch, already off the stack, is dropped.
\* An error of the stream is an error of the device: nothing queued on it runs.
ReuseFails ==
  /\ pc = "idle" /\ open
  /\ Gathered /\ free = <<>> /\ Available
  /\ lost' = lost \cup {Last(busy)}
  /\ busy' = Front(busy)
  /\ stream' = <<>>
  /\ UNCHANGED <<pass, free, ready, pending, channels, pool, memory>>

\* A layer fails between begin_rows and the gather.  The pass is rolled back,
\* the read it started is not.
PassFails ==
  /\ pc = "layers"
  /\ pc' = "idle" /\ want' = <<>>
  /\ UNCHANGED <<reader, channels, pool, memory, stream>>

(***************************************************************************)
(* wait_ready, called by the gather.                                       *)
(***************************************************************************)
\* Mutant: a read that failed is asked for again, for ever.
WaitReadyRetries ==
  /\ pc = "layers" /\ response # <<>>
  /\ LET answer == Head(response) IN
     IF answer.ok
     THEN ready' = answer.slot /\ pc' = "ready" /\ pending' = FALSE /\ UNCHANGED request
     ELSE request' = <<[rows |-> want, slot |-> answer.slot]>> /\ UNCHANGED <<ready, pc, pending>>
  /\ response' = Tail(response)
  /\ UNCHANGED <<want, free, busy, lost, open, pool, memory, stream>>

WaitReady ==
  /\ pc = "layers" /\ response # <<>>
  /\ LET answer == Head(response) IN
     /\ IF answer.ok THEN ready' = answer.slot /\ pc' = "ready" /\ UNCHANGED <<free, want>>
        ELSE /\ free' = Append(free, answer.slot) /\ pc' = "idle" /\ want' = <<>>
             /\ UNCHANGED ready
  /\ response' = Tail(response)
  /\ pending' = FALSE
  /\ UNCHANGED <<busy, lost, request, open, pool, memory, stream>>

EndGather ==
  /\ ready' = NoSlot
  /\ want' = <<>>
  /\ UNCHANGED <<pending, channels, pool, memory>>

GatherRows ==
  /\ pc = "ready"
  /\ stream' = stream \o <<Gather(ready), Reusable(ready)>>
  /\ busy' = Append(busy, ready)
  /\ pc' = "idle"
  /\ EndGather
  /\ UNCHANGED <<free, lost>>

\* Mutant: the batch of a gather that was not launched is lost.
LaunchLosesBatch ==
  /\ pc = "ready"
  /\ pc' = "idle"
  /\ EndGather
  /\ UNCHANGED <<free, busy, lost, stream>>

\* The gather kernel is not launched.
LaunchFails ==
  /\ pc = "ready"
  /\ free' = Append(free, ready)
  /\ pc' = "idle"
  /\ EndGather
  /\ UNCHANGED <<busy, lost, stream>>

\* The kernel is launched but the event is not recorded: the stream is drained
\* before the batch is free again.
RecordFails ==
  /\ pc = "ready"
  /\ stream' = Append(stream, Gather(ready))
  /\ pc' = "drain"
  /\ UNCHANGED <<want, reader, channels, pool, memory>>

Drained ==
  /\ pc = "drain" /\ stream = <<>>
  /\ free' = Append(free, ready)
  /\ pc' = "idle"
  /\ EndGather
  /\ UNCHANGED <<busy, lost, stream>>

DrainFails ==
  /\ pc = "drain"
  /\ lost' = lost \cup {ready}
  /\ stream' = <<>>
  /\ pc' = "idle"
  /\ EndGather
  /\ UNCHANGED <<free, busy>>

(***************************************************************************)
(* The coordinator thread: PagedRowSource::read_rows gives every distinct  *)
(* row a page slot, in the order of first use, and DirectRowReaderPool     *)
(* hands the reads to the workers in turn.                                 *)
(***************************************************************************)
Unique(rows) ==
  LET reads[i \in 0..Len(rows)] ==
        IF i = 0 THEN <<>>
        ELSE IF rows[i] \in ToSet(reads[i - 1]) THEN reads[i - 1] ELSE Append(reads[i - 1], rows[i])
  IN  reads[Len(rows)]
SlotOf(rows, i) == CHOOSE k \in DOMAIN Unique(rows) : Unique(rows)[k] = rows[i]

ReceiveRequest ==
  /\ coordinator.phase = "recv" /\ request # <<>>
  /\ LET r == Head(request) IN
     /\ coordinator' = [Resting EXCEPT !.phase = "dispatch", !.rows = r.rows, !.slot = r.slot]
     /\ offsets' = [offsets EXCEPT ![r.slot] =
          [i \in 1..MaxRows |-> IF i \in DOMAIN r.rows THEN SlotOf(r.rows, i) ELSE @[i]]]
  /\ request' = <<>>
  /\ UNCHANGED <<pass, reader, response, open, jobs, completions, pages, row_count, stream>>

Reads == Unique(coordinator.rows)

\* A job is one being read plus one in the worker's sync_channel(1); from here
\* on the worker may write the page at any time.
Dispatch ==
  /\ coordinator.phase = "dispatch"
  /\ coordinator.dispatched < Len(Reads)
  /\ LET k == coordinator.dispatched + 1
         w == (coordinator.dispatched % Workers) + 1 IN
     /\ Len(jobs[w]) < 2
     /\ jobs' = [jobs EXCEPT ![w] = Append(@, [slot |-> coordinator.slot, page |-> k, row |-> Reads[k]])]
     /\ pages' = [pages EXCEPT ![coordinator.slot][k] = Torn]
  /\ coordinator' = [coordinator EXCEPT !.dispatched = @ + 1]
  /\ UNCHANGED <<pass, reader, channels, completions, offsets, row_count, stream>>

WorkerReads(w) ==
  /\ jobs[w] # <<>>
  /\ LET job == Head(jobs[w]) IN
     \E ok \in BOOLEAN :
       /\ pages' = [pages EXCEPT ![job.slot][job.page] = IF ok THEN job.row ELSE Torn]
       /\ completions' = Append(completions, ok)
  /\ jobs' = [jobs EXCEPT ![w] = Tail(@)]
  /\ UNCHANGED <<pass, reader, channels, coordinator, offsets, row_count, stream>>

AllDispatched == coordinator.phase = "dispatch" /\ coordinator.dispatched = Len(Reads)

\* Mutant: the first failed read ends the collection.
StopsAtFailure == coordinator.collected = coordinator.dispatched \/ coordinator.failed

\* Every dispatched job is collected, also after one has failed.
AllCollected == coordinator.collected = coordinator.dispatched

Collect ==
  /\ AllDispatched /\ ~AllCollected
  /\ completions # <<>>
  /\ coordinator' = [coordinator EXCEPT !.collected = @ + 1,
                                        !.failed = @ \/ ~Head(completions)]
  /\ completions' = Tail(completions)
  /\ UNCHANGED <<pass, reader, channels, jobs, memory, stream>>

Respond ==
  /\ AllDispatched /\ AllCollected
  /\ row_count' = IF coordinator.failed THEN row_count
                  ELSE [row_count EXCEPT ![coordinator.slot] = Len(coordinator.rows)]
  /\ response' = Append(response, [slot |-> coordinator.slot, ok |-> ~coordinator.failed])
  /\ coordinator' = Resting
  /\ UNCHANGED <<pass, reader, request, open, jobs, completions, pages, offsets, stream>>

(***************************************************************************)
(* Drop of the reader: the request channel is closed, the coordinator ends *)
(* when it is empty and takes the pool with it, then the events of the     *)
(* busy batches are waited for.  `Reopen' is a new reader (a model load).  *)
(***************************************************************************)
DropReader ==
  /\ pc = "idle" /\ open
  /\ open' = FALSE
  /\ pc' = "join"
  /\ UNCHANGED <<want, reader, request, response, pool, memory, stream>>

CoordinatorExits ==
  /\ coordinator.phase = "recv" /\ request = <<>> /\ ~open
  /\ coordinator' = [coordinator EXCEPT !.phase = "exit"]
  /\ UNCHANGED <<pass, reader, channels, jobs, completions, memory, stream>>

\* Mutant: the pages are released while the GPU may still gather from them.
JoinedEarly ==
  /\ pc = "join" /\ coordinator.phase = "exit"
  /\ pc' = "dropped"
  /\ UNCHANGED <<want, reader, channels, pool, memory, stream>>

Joined ==
  /\ pc = "join" /\ coordinator.phase = "exit"
  /\ \A i \in DOMAIN busy : EventDone(busy[i])
  /\ pc' = "dropped"
  /\ UNCHANGED <<want, reader, channels, pool, memory, stream>>

Reopen ==
  /\ pc = "dropped"
  /\ pc' = "idle" /\ want' = <<>>
  /\ free' = <<0, 1>> /\ busy' = <<>> /\ ready' = NoSlot /\ pending' = FALSE /\ lost' = {}
  /\ request' = <<>> /\ response' = <<>> /\ open' = TRUE
  /\ coordinator' = Resting
  /\ jobs' = [w \in Worker |-> <<>>] /\ completions' = <<>>
  /\ pages' = [b \in Batches |-> [p \in 1..MaxRows |-> Torn]]
  /\ offsets' = [b \in Batches |-> [i \in 1..MaxRows |-> 1]]
  /\ row_count' = [b \in Batches |-> 0]
  /\ UNCHANGED stream

-----------------------------------------------------------------------------
Coordinate == ReceiveRequest \/ Dispatch \/ Collect \/ Respond \/ CoordinatorExits
Consume == WaitReady \/ GatherRows \/ LaunchFails \/ RecordFails \/ Drained \/ DrainFails \/ Joined

ReaderNext ==
  \/ BeginRows \/ ReuseFails \/ PassFails \/ Consume \/ DropReader \/ Reopen
  \/ Coordinate
  \/ \E w \in Worker : WorkerReads(w)
  \/ StreamStep

(***************************************************************************)
(* Threads run, reads end and the device executes its stream; nothing      *)
(* makes a pass or a drop begin.                                           *)
(***************************************************************************)
ReaderFairness ==
  /\ WF_readerVars(Coordinate)
  /\ WF_readerVars(Consume)
  /\ \A w \in Worker : WF_readerVars(WorkerReads(w))
  /\ WF_readerVars(StreamStep)

ReaderSpec == ReaderInit /\ [][ReaderNext]_readerVars /\ ReaderFairness

-----------------------------------------------------------------------------
\* From the moment a gather reaches the head of the stream until it is done,
\* the batch holds, for every row of the pass that launched it, that row: no
\* reader thread writes the pages or the offsets under it, no failed or late
\* read is gathered, and no pass gets the rows an abandoned pass asked for.
GatherSeesItsRows ==
  stream # <<>> /\ Head(stream).op = "gather" =>
    LET g == Head(stream) IN
    /\ g.rows = Len(g.want)
    /\ \A i \in 1..g.rows : pages[g.slot][offsets[g.slot][i]] = g.want[i]

\* The batch that is read, in a channel, or with the coordinator.
Held == {ready} \ {NoSlot}
Requested == {request[i].slot : i \in DOMAIN request}
Working == {coordinator.slot} \ {NoSlot}
Answered == {response[i].slot : i \in DOMAIN response}

\* Both batches are always accounted for: each is free, busy, ready or with the
\* coordinator, and in one of these places only, unless it was dropped with an
\* error of the stream.  begin_rows thus answers "no reusable batch is available"
\* only after two of those, and no batch has two owners.
BatchesAccounted ==
  LET places == <<ToSet(free), ToSet(busy), Held, Requested, Working, Answered, lost>>
  IN  /\ \A b \in Batches : Cardinality({i \in DOMAIN places : b \in places[i]}) = 1
      /\ Len(free) + Len(busy) <= Cardinality(Batches)

\* When the reader is dropped its pages are released with no gather left that
\* could read them and no worker that could write them.
DroppedIsQuiet ==
  pc = "dropped" =>
    /\ \A i \in DOMAIN stream : stream[i].op # "gather"
    /\ \A w \in Worker : jobs[w] = <<>>

\* Every pass ends: the bounded channels between the pass, the coordinator and
\* the workers never leave all of them waiting for each other, also when reads
\* fail, and a drop always joins.
PassEnds == pc # "idle" ~> pc \in {"idle", "dropped"}
=============================================================================
