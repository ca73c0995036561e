------------------------- MODULE BatchServiceProofs -------------------------
(***************************************************************************)
(* BatchService, for every set of request shapes, every capacity and every *)
(* set of faults: the sequence cache holds exactly the sequences of the    *)
(* pool and the entries a failed device call lost, and between ticks every *)
(* retained request waits or has a sequence with the rows of its text.     *)
(***************************************************************************)
EXTENDS BatchService, QueueTheorems, TLAPS

Request == [prompt : Nat \ {0}, max_new : Nat, position : Int, generated : Nat,
            ready : BOOLEAN, ended : BOOLEAN]

\* Who has a sequence, who waits for one, and whose cache entry is lost: in every
\* state, that of a failed tick included.
Ownership ==
  /\ next_id \in Nat \ {0}
  /\ waiting \in Seq(Nat) /\ IsInjective(waiting)
  /\ Retained \subseteq 1..(next_id - 1)
  /\ lost \subseteq 1..(next_id - 1)
  /\ Admitted \subseteq Retained
  /\ ToSet(waiting) \subseteq Retained
  /\ ToSet(waiting) \cap Admitted = {}
  /\ ToSet(waiting) \cap lost = {}
  /\ cache = Admitted \cup lost
  /\ Admitted \cap lost = {}

\* What is known of one request: the prompt's logits are ready exactly when all of
\* the prompt is in the sequence and no token has been sampled.
Progress(r) ==
  /\ r \in Request
  /\ r.position <= r.prompt
  /\ r.generated > 0 => r.position = r.prompt
  /\ r.ready <=> (r.position = r.prompt /\ r.generated = 0)

Untouched(r) == r.position = 0 /\ r.generated = 0 /\ ~r.ended

\* What a request has, given the pool, the queue and the requests this tick ends.
Held(id, r, rows, queue, ending) ==
  /\ Progress(r)
  /\ id \in DOMAIN rows => rows[id] = Rows(r) /\ (r.ended => id \in ending)
  /\ id \notin DOMAIN rows => id \in ToSet(queue) /\ Untouched(r)

\* The text of every request and what the phase of the tick may rely on.  A failed
\* tick keeps none of it: a row may have no token, an end may not be noted, and the
\* head of the queue may be in no place at all.
Text ==
  /\ \A id \in Retained : Held(id, requests[id], pool, waiting, terminal)
  /\ budget \in Int
  /\ terminal \subseteq Admitted
  /\ pc \in {"idle", "admit"} => terminal = {}
  /\ pc \in {"decode", "prefill"} => todo \subseteq Admitted
  /\ pc = "decode" => \A id \in todo : requests[id].position = requests[id].prompt
  /\ pc = "prefill" => \A id \in todo : requests[id].position < requests[id].prompt

BatchInv == Ownership /\ (pc # "failed" => Text)

-----------------------------------------------------------------------------
\* A step that moves no request between the maps, the queue and the cache.
LEMMA OwnershipStays ==
  ASSUME Ownership, Retained' = Retained, Admitted' = Admitted,
         UNCHANGED <<waiting, store, next_id>>
  PROVE  Ownership'
  BY DEF Ownership, store

\* The phases look at the requests in the order of their identities, and the current
\* one is one of those left.
LEMMA CurrentIsLeft ==
  ASSUME Ownership, Text, pc \in {"decode", "prefill"}, todo # {}
  PROVE  /\ Current \in todo /\ Current \in Admitted /\ Current \in Retained
         /\ Cardinality(todo) \in Nat /\ Cardinality(todo) > 0
  <1>1. todo \subseteq Admitted /\ Admitted \subseteq Retained
        /\ Retained \subseteq 1..(next_id - 1) /\ next_id \in Nat
    BY DEF Ownership, Text
  <1>2. todo \in SUBSET Nat
    BY <1>1
  <1>3. \E id \in todo : \A other \in todo : id <= other
    BY <1>2, LeastNat
  <1>4. Current \in todo
    BY <1>3, Zenon DEF Current
  <1>5. IsFiniteSet(1..(next_id - 1))
    <2>1. 1 \in Int /\ next_id - 1 \in Int
      BY <1>1
    <2> QED
      BY <2>1, FS_Interval
  <1>6. todo \subseteq 1..(next_id - 1)
    BY <1>1, Zenon
  <1>7. IsFiniteSet(todo)
    BY <1>5, <1>6, FS_Subset
  <1>8. Cardinality(todo) \in Nat /\ Cardinality(todo) # 0
    BY <1>7, FS_CardinalityType, FS_EmptySet
  <1>9. Cardinality(todo) > 0
    BY <1>8
  <1> QED
    BY <1>1, <1>4, <1>8, <1>9

\* What is retained beside one changed request keeps what it has.
LEMMA OneRequestChanges ==
  ASSUME Ownership, Text, NEW id \in Admitted, NEW r, NEW rows, NEW ending,
         requests' = [requests EXCEPT ![id] = r],
         Admitted' = Admitted, pool'[id] = rows, \A x \in Admitted \ {id} : pool'[x] = pool[x],
         waiting' = waiting, terminal' = ending,
         terminal \subseteq ending,
         Progress(r), rows = Rows(r), r.ended => id \in ending
  PROVE  /\ Retained' = Retained /\ Admitted' = Admitted
         /\ \A x \in Retained \ {id} : requests'[x] = requests[x]
         /\ requests'[id] = r
         /\ \A x \in Retained' : Held(x, requests'[x], pool', waiting', terminal')
  <1>1. Retained' = Retained /\ Admitted' = Admitted
    BY DEF Retained
  <1>2. id \in Retained
    BY DEF Ownership
  <1>3. \A x \in Retained \ {id} : requests'[x] = requests[x]
    BY DEF Retained
  <1>5. requests'[id] = r
    BY <1>2 DEF Retained
  <1>6. Held(id, requests'[id], pool', waiting', terminal')
    <2>1. id \in DOMAIN pool'
      BY <1>1 DEF Admitted
    <2> QED
      BY <1>5, <2>1, Zenon DEF Held
  <1>7. ASSUME NEW x \in Retained \ {id}
        PROVE  Held(x, requests'[x], pool', waiting', terminal')
    <2>1. Held(x, requests[x], pool, waiting, terminal)
      BY DEF Text
    <2>2. requests'[x] = requests[x]
      BY <1>3
    <2>3. x \in DOMAIN pool' <=> x \in DOMAIN pool
      BY <1>1 DEF Admitted
    <2>4. x \in DOMAIN pool => pool'[x] = pool[x]
      BY DEF Admitted
    <2> QED
      BY <2>1, <2>2, <2>3, <2>4 DEF Held
  <1> QED
    BY <1>1, <1>3, <1>5, <1>6, <1>7

-----------------------------------------------------------------------------
\* The service begins with nothing.
LEMMA InitHolds == Init => BatchInv
  <1> SUFFICES ASSUME Init PROVE BatchInv
    OBVIOUS
  <1>1. DOMAIN requests = {} /\ DOMAIN pool = {}
    BY DEF Init, Empty
  <1>2. waiting \in Seq(Nat) /\ IsInjective(waiting) /\ ToSet(waiting) = {}
    BY DEF Init, IsInjective, ToSet
  <1> QED
    BY <1>1, <1>2 DEF Init, BatchInv, Ownership, Text, Retained, Admitted

\* A new request is last in the queue, with none of its prompt in a sequence.
LEMMA AddHolds ==
  ASSUME ServiceAssumption, BatchInv, NEW shape \in Shapes, AddRequest(shape)
  PROVE  BatchInv'
  <1> DEFINE r == [prompt |-> shape.prompt, max_new |-> shape.max_new,
                   position |-> 0, generated |-> 0, ready |-> FALSE, ended |-> FALSE]
  <1>1. /\ requests' = With(requests, next_id, r)
        /\ waiting' = Append(waiting, next_id) /\ next_id' = next_id + 1
        /\ pool' = pool /\ cache' = cache /\ lost' = lost
        /\ pc = "idle" /\ pc' = "idle" /\ terminal' = terminal /\ budget' = budget
    BY DEF AddRequest, store, tick
  <1>2. Ownership /\ Text
    BY <1>1 DEF BatchInv
  <1>3. Progress(r) /\ Untouched(r)
    <2>1. shape.prompt \in Nat \ {0} /\ shape.max_new \in Nat
      BY DEF ServiceAssumption
    <2> QED
      BY <2>1 DEF Progress, Untouched, Request
  <1> HIDE DEF r
  <1>4. next_id \in Nat /\ next_id \notin 1..(next_id - 1)
        /\ 1..(next_id - 1) \subseteq 1..(next_id' - 1)
    BY <1>1, <1>2 DEF Ownership
  <1>5. next_id \in 1..(next_id' - 1)
    BY <1>1, <1>2, <1>4 DEF Ownership
  <1>6. /\ waiting' \in Seq(Nat) /\ ToSet(waiting') = ToSet(waiting) \cup {next_id}
        /\ IsInjective(waiting')
    <2>1. waiting \in Seq(Nat) /\ IsInjective(waiting) /\ next_id \notin ToSet(waiting)
      BY <1>2, <1>4 DEF Ownership
    <2> QED
      BY <1>1, <1>4, <2>1, ToSetAppend
  <1>7. /\ Retained' = Retained \cup {next_id} /\ Admitted' = Admitted
        /\ requests'[next_id] = r
        /\ \A id \in Retained \ {next_id} : requests'[id] = requests[id]
    BY <1>1 DEF With, Retained, Admitted
  <1>8. next_id \notin Retained /\ next_id \notin Admitted /\ next_id \notin lost
    BY <1>2, <1>4 DEF Ownership
  <1>9. next_id' \in Nat \ {0}
    BY <1>1, <1>4
  <1>10. Ownership'
    BY <1>1, <1>2, <1>4, <1>5, <1>6, <1>7, <1>8, <1>9 DEF Ownership
  <1>11. ASSUME NEW id \in Retained'
         PROVE  Held(id, requests'[id], pool', waiting', terminal')
    <2>1. CASE id = next_id
      BY <1>1, <1>3, <1>6, <1>7, <1>8, <2>1 DEF Held, Admitted
    <2>2. CASE id # next_id
      <3>1. id \in Retained /\ requests'[id] = requests[id]
        BY <1>7, <2>2
      <3>2. Held(id, requests[id], pool, waiting, terminal)
        BY <1>2, <3>1 DEF Text
      <3> QED
        BY <1>1, <1>6, <3>1, <3>2 DEF Held
    <2> QED
      BY <2>1, <2>2
  <1>12. Text'
    BY <1>1, <1>2, <1>7, <1>11 DEF Text
  <1> QED
    BY <1>10, <1>12 DEF BatchInv

\* Cancelled requests leave every map and the queue; a cache entry that is not
\* released is lost.
LEMMA CancelOwnership ==
  ASSUME Ownership, NEW ids, CancelRequests(ids), next_id' = next_id
  PROVE  /\ Ownership'
         /\ Retained' = Retained \ ids /\ Admitted' = Admitted \ ids
         /\ ToSet(waiting') = ToSet(waiting) \ ids
         /\ \A id \in Retained' : requests'[id] = requests[id]
         /\ \A id \in Admitted' : pool'[id] = pool[id]
  <1>1. /\ Retained' = Retained \ ids /\ Admitted' = Admitted \ ids
        /\ \A id \in Retained' : requests'[id] = requests[id]
        /\ \A id \in Admitted' : pool'[id] = pool[id]
    BY DEF CancelRequests, Removing, Retained, Admitted
  <1>2. /\ waiting' \in Seq(Nat) /\ ToSet(waiting') = ToSet(waiting) \ ids
        /\ IsInjective(waiting')
    BY WithoutFacts DEF CancelRequests, Ownership
  <1>3. PICK kept \in SUBSET (ids \cap Admitted) :
          cache' = cache \ ((ids \cap Admitted) \ kept) /\ lost' = lost \cup kept
    BY DEF CancelRequests
  <1>4. Admitted \subseteq 1..(next_id - 1) /\ lost' \subseteq 1..(next_id - 1)
    BY <1>3 DEF Ownership
  <1>5. cache' = Admitted' \cup lost' /\ Admitted' \cap lost' = {}
    BY <1>1, <1>3 DEF Ownership
  <1>6. ToSet(waiting') \cap lost' = {}
    BY <1>2, <1>3 DEF Ownership
  <1>7. Ownership'
    BY <1>1, <1>2, <1>4, <1>5, <1>6 DEF Ownership
  <1> QED
    BY <1>1, <1>2, <1>7

\* A cancellation between ticks leaves the other requests what they have.
LEMMA CancelHolds ==
  ASSUME BatchInv, NEW id \in Retained, Cancel(id)
  PROVE  BatchInv'
  <1>1. /\ CancelRequests({id}) /\ next_id' = next_id
        /\ pc = "idle" /\ pc' = "idle" /\ terminal' = terminal /\ budget' = budget
    BY DEF Cancel, tick
  <1>2. Ownership /\ Text
    BY <1>1 DEF BatchInv
  <1>3. /\ Ownership'
        /\ Retained' = Retained \ {id} /\ Admitted' = Admitted \ {id}
        /\ ToSet(waiting') = ToSet(waiting) \ {id}
        /\ \A x \in Retained' : requests'[x] = requests[x]
        /\ \A x \in Admitted' : pool'[x] = pool[x]
    BY <1>1, <1>2, CancelOwnership
  <1>4. ASSUME NEW x \in Retained'
        PROVE  Held(x, requests'[x], pool', waiting', terminal')
    <2>1. Held(x, requests[x], pool, waiting, terminal) /\ x # id
      BY <1>2, <1>3 DEF Text
    <2> QED
      BY <1>1, <1>3, <2>1 DEF Held, Admitted
  <1>5. Text'
    BY <1>1, <1>2, <1>3, <1>4 DEF Text
  <1> QED
    BY <1>3, <1>5 DEF BatchInv

\* After a failed tick nothing is retained, and no sequence is left in the pool.
LEMMA FailAllHolds ==
  ASSUME BatchInv, FailAll
  PROVE  BatchInv'
  <1>1. /\ CancelRequests(Retained) /\ next_id' = next_id
        /\ pc' = "idle" /\ terminal' = {} /\ budget' = 0
    BY DEF FailAll
  <1>2. Ownership
    BY DEF BatchInv
  <1>3. /\ Ownership'
        /\ Retained' = Retained \ Retained /\ Admitted' = Admitted \ Retained
    <2> DEFINE ids == Retained
    <2>1. CancelRequests(ids)
      BY <1>1
    <2> HIDE DEF ids
    <2>2. Ownership' /\ Retained' = Retained \ ids /\ Admitted' = Admitted \ ids
      BY <1>1, <1>2, <2>1, CancelOwnership
    <2> QED
      BY <2>2 DEF ids
  <1>4. Retained' = {}
    BY <1>3
  <1>5. Text'
    BY <1>1, <1>4 DEF Text
  <1> QED
    BY <1>3, <1>5 DEF BatchInv

-----------------------------------------------------------------------------
\* A tick begins.
LEMMA StartHolds ==
  ASSUME BatchInv, StartTick
  PROVE  BatchInv'
  <1>1. UNCHANGED <<requests, waiting, pool, store, next_id, budget, terminal>>
        /\ pc = "idle" /\ pc' = "admit"
    BY DEF StartTick
  <1>2. Ownership /\ Text
    BY <1>1 DEF BatchInv
  <1>3. Retained' = Retained /\ Admitted' = Admitted
    BY <1>1 DEF Retained, Admitted
  <1>4. Ownership'
    BY <1>1, <1>2, <1>3, OwnershipStays
  <1>5. Text'
    BY <1>1, <1>2, <1>3 DEF Text
  <1> QED
    BY <1>4, <1>5 DEF BatchInv

\* The head of the queue gets an empty sequence and a cache entry.
LEMMA AdmitHolds ==
  ASSUME BatchInv, Admit
  PROVE  BatchInv'
  <1> DEFINE id == Head(waiting)
  <1>1. /\ pc = "admit" /\ pc' = "admit" /\ waiting # <<>>
        /\ pool' = With(pool, id, 0) /\ cache' = cache \cup {id}
        /\ waiting' = Tail(waiting) /\ requests' = requests /\ lost' = lost
        /\ next_id' = next_id /\ terminal' = terminal /\ budget' = budget
    BY DEF Admit, MayAdmit, tick
  <1>2. Ownership /\ Text
    BY <1>1 DEF BatchInv
  <1>3. /\ id \in ToSet(waiting) /\ waiting' \in Seq(Nat) /\ IsInjective(waiting')
        /\ ToSet(waiting) = ToSet(waiting') \cup {id} /\ id \notin ToSet(waiting')
    BY <1>1, <1>2, ToSetTail DEF Ownership
  <1> HIDE DEF id
  <1>4. /\ Retained' = Retained /\ Admitted' = Admitted \cup {id}
        /\ pool'[id] = 0 /\ \A x \in Admitted \ {id} : pool'[x] = pool[x]
    BY <1>1 DEF With, Retained, Admitted
  <1>5. id \in Retained /\ id \notin Admitted /\ id \notin lost
    BY <1>2, <1>3 DEF Ownership
  <1>6. Ownership'
    BY <1>1, <1>2, <1>3, <1>4, <1>5 DEF Ownership
  <1>7. ASSUME NEW x \in Retained'
        PROVE  Held(x, requests'[x], pool', waiting', terminal')
    <2>1. Held(x, requests[x], pool, waiting, terminal)
      BY <1>2, <1>4 DEF Text
    <2>2. CASE x = id
      <3>1. Progress(requests[x]) /\ Untouched(requests[x])
        BY <1>5, <2>1, <2>2 DEF Held, Admitted
      <3>2. Rows(requests[x]) = 0
        BY <3>1 DEF Rows, Untouched
      <3> QED
        BY <1>1, <1>4, <2>2, <3>1, <3>2 DEF Held, Admitted, Untouched
    <2>3. CASE x # id
      BY <1>1, <1>3, <1>4, <2>1, <2>3 DEF Held, Admitted
    <2> QED
      BY <2>2, <2>3
  <1>8. Text'
    BY <1>1, <1>2, <1>4, <1>7 DEF Text
  <1> QED
    BY <1>6, <1>8 DEF BatchInv

\* The head of the queue is in no place, and its cache entry, if there is one, is lost.
LEMMA AdmitFailsHolds ==
  ASSUME BatchInv, AdmitFails
  PROVE  BatchInv'
  <1> DEFINE id == Head(waiting)
  <1>1. /\ pc' = "failed" /\ waiting # <<>> /\ waiting' = Tail(waiting)
        /\ requests' = requests /\ pool' = pool /\ next_id' = next_id
        /\ \/ cache' = cache /\ lost' = lost
           \/ cache' = cache \cup {id} /\ lost' = lost \cup {id}
    BY DEF AdmitFails, MayAdmit, Fail, store
  <1>2. Ownership
    BY DEF BatchInv
  <1>3. /\ id \in ToSet(waiting) /\ waiting' \in Seq(Nat) /\ IsInjective(waiting')
        /\ ToSet(waiting) = ToSet(waiting') \cup {id} /\ id \notin ToSet(waiting')
    BY <1>1, <1>2, ToSetTail DEF Ownership
  <1> HIDE DEF id
  <1>4. Retained' = Retained /\ Admitted' = Admitted
    BY <1>1 DEF Retained, Admitted
  <1>5. id \in Retained /\ id \in 1..(next_id - 1) /\ id \notin Admitted
    BY <1>2, <1>3 DEF Ownership
  <1>6. Ownership'
    BY <1>1, <1>2, <1>3, <1>4, <1>5 DEF Ownership
  <1> QED
    BY <1>1, <1>6 DEF BatchInv

\* The decode phase takes requests whose prompt is in their sequence.
LEMMA AdmitDoneHolds ==
  ASSUME BatchInv, AdmitDone
  PROVE  BatchInv'
  <1>1. /\ UNCHANGED <<requests, waiting, pool, store, next_id, budget, terminal>>
        /\ pc = "admit" /\ pc' = "decode"
        /\ todo' = FirstIds(Decodable, DecodeCapacity)
    BY DEF AdmitDone
  <1>2. Ownership /\ Text
    BY <1>1 DEF BatchInv
  <1>3. Retained' = Retained /\ Admitted' = Admitted
    BY <1>1 DEF Retained, Admitted
  <1>4. Ownership'
    BY <1>1, <1>2, <1>3, OwnershipStays
  <1>5. todo' \subseteq Admitted
        /\ \A id \in todo' : requests[id].position = requests[id].prompt
    BY <1>1 DEF FirstIds, Decodable
  <1>6. Text'
    BY <1>1, <1>2, <1>3, <1>5 DEF Text
  <1> QED
    BY <1>4, <1>6 DEF BatchInv

-----------------------------------------------------------------------------
\* Sampling a token: the row of the token before it, if there is one, is in the
\* sequence, so the rows are again those of the text.
LEMMA SampledKeeps ==
  ASSUME NEW r, NEW rows, NEW last \in BOOLEAN,
         Progress(r), r.position = r.prompt, rows = Rows(r)
  PROVE  /\ Progress(Sampled(r, last))
         /\ (IF r.ready THEN rows ELSE rows + 1) = Rows(Sampled(r, last))
         /\ Sampled(r, last).position = r.position /\ Sampled(r, last).prompt = r.prompt
  <1> DEFINE after == Sampled(r, last)
  <1>1. /\ r \in Request /\ r.prompt \in Nat /\ r.generated \in Nat
        /\ r.ready <=> r.generated = 0
    BY DEF Progress, Request
  <1>2. /\ after \in Request
        /\ after.position = r.position /\ after.prompt = r.prompt
        /\ after.generated = r.generated + 1 /\ after.ready = FALSE
    <2> DEFINE e == last \/ r.generated + 1 = r.max_new
               g == r.generated + 1
               none == FALSE
    <2>1. e \in BOOLEAN /\ g \in Nat /\ none \in BOOLEAN
      BY <1>1
    <2>2. after = [r EXCEPT !.ready = none, !.generated = g, !.ended = e]
      BY DEF Sampled
    <2> HIDE DEF e, g, none, after
    <2>3. /\ after \in Request
          /\ after.position = r.position /\ after.prompt = r.prompt
          /\ after.generated = g /\ after.ready = none
      BY <1>1, <2>1, <2>2 DEF Request
    <2> QED
      BY <2>3 DEF g, none
  <1> HIDE DEF after
  <1>3. Progress(after)
    BY <1>1, <1>2 DEF Progress
  <1>4. Rows(after) = r.prompt + r.generated
    BY <1>1, <1>2 DEF Rows
  <1>5. Rows(r) = IF r.ready THEN r.prompt ELSE r.prompt + r.generated - 1
    BY <1>1 DEF Rows
  <1>6. (IF r.ready THEN rows ELSE rows + 1) = Rows(after)
    BY <1>1, <1>4, <1>5
  <1> QED
    BY <1>2, <1>3, <1>6 DEF after

\* One request of the decode phase gets its token.
LEMMA GenerateHolds ==
  ASSUME BatchInv, NEW last \in BOOLEAN, GenerateOne(last)
  PROVE  BatchInv'
  <1> DEFINE id == Current
             r == requests[id]
             after == Sampled(r, last)
             rows == IF r.ready THEN pool[id] ELSE pool[id] + 1
             ending == IF after.ended THEN terminal \cup {id} ELSE terminal
  <1>1. /\ pc = "decode" /\ pc' = "decode" /\ todo # {}
        /\ requests' = [requests EXCEPT ![id] = after]
        /\ terminal' = ending /\ pool' = Forward(r) /\ todo' = todo \ {id}
        /\ waiting' = waiting /\ UNCHANGED store /\ next_id' = next_id /\ budget' = budget
    BY DEF GenerateOne
  <1>2. Ownership /\ Text
    BY <1>1 DEF BatchInv
  <1>3. id \in todo /\ id \in Admitted /\ id \in Retained
    BY <1>1, <1>2, CurrentIsLeft
  <1>4. Held(id, r, pool, waiting, terminal) /\ r.position = r.prompt
    BY <1>1, <1>2, <1>3 DEF Text
  <1>5. Progress(r) /\ pool[id] = Rows(r)
    BY <1>3, <1>4 DEF Held, Admitted
  <1>6. Admitted' = Admitted /\ pool'[id] = rows /\ \A x \in Admitted \ {id} : pool'[x] = pool[x]
    BY <1>1, <1>3 DEF Forward, Admitted
  <1>7. Progress(after) /\ rows = Rows(after) /\ after.position = r.position
        /\ after.prompt = r.prompt
    BY <1>4, <1>5, SampledKeeps
  <1>8. terminal \subseteq ending /\ (after.ended => id \in ending) /\ ending \subseteq Admitted
    BY <1>2, <1>3 DEF Text
  <1> HIDE DEF id, r, after, rows, ending
  <1>9. /\ Retained' = Retained /\ Admitted' = Admitted
        /\ \A x \in Retained \ {id} : requests'[x] = requests[x]
        /\ requests'[id] = after
        /\ \A x \in Retained' : Held(x, requests'[x], pool', waiting', terminal')
    BY <1>1, <1>2, <1>3, <1>6, <1>7, <1>8, OneRequestChanges
  <1>10. Ownership'
    BY <1>1, <1>2, <1>9, OwnershipStays
  <1>11. \A x \in todo' : x \in Admitted' /\ requests'[x].position = requests'[x].prompt
    BY <1>1, <1>2, <1>9 DEF Text, Ownership
  <1>12. Text'
    BY <1>1, <1>2, <1>8, <1>9, <1>11 DEF Text
  <1> QED
    BY <1>10, <1>12 DEF BatchInv

\* A failed decode changes at most the current request and its rows.
LEMMA GenerateFailsHolds ==
  ASSUME BatchInv, GenerateFails
  PROVE  BatchInv'
  <1>1. pc' = "failed" /\ UNCHANGED <<waiting, store, next_id>>
    BY DEF GenerateFails, Fail
  <1>2. Retained' = Retained /\ Admitted' = Admitted
    BY DEF GenerateFails, Forward, Retained, Admitted
  <1>3. Ownership'
    BY <1>1, <1>2, OwnershipStays DEF BatchInv
  <1> QED
    BY <1>1, <1>3 DEF BatchInv

\* The prefill phase takes requests with prompt left.
LEMMA DecodeDoneHolds ==
  ASSUME ServiceAssumption, BatchInv, DecodeDone
  PROVE  BatchInv'
  <1>1. /\ UNCHANGED <<requests, waiting, pool, store, next_id, terminal>>
        /\ pc = "decode" /\ pc' = "prefill"
        /\ todo' = FirstIds(Prefillable, PrefillSequenceCapacity)
        /\ budget' = PrefillTokenCapacity
    BY DEF DecodeDone
  <1>2. Ownership /\ Text
    BY <1>1 DEF BatchInv
  <1>3. Retained' = Retained /\ Admitted' = Admitted
    BY <1>1 DEF Retained, Admitted
  <1>4. Ownership'
    BY <1>1, <1>2, <1>3, OwnershipStays
  <1>5. todo' \subseteq Admitted
        /\ \A id \in todo' : requests[id].position < requests[id].prompt
    BY <1>1 DEF FirstIds, Prefillable
  <1>6. budget' \in Int
    BY <1>1 DEF ServiceAssumption
  <1>7. Text'
    BY <1>1, <1>2, <1>3, <1>5, <1>6 DEF Text
  <1> QED
    BY <1>4, <1>7 DEF BatchInv

\* A share of the budget never reaches past the prompt.
LEMMA ChunkFits ==
  ASSUME NEW left_over \in Int, NEW n \in Nat, n > 0, NEW b \in Int
  PROVE  LET share == (b + n - 1) \div n
             chunk == IF left_over < share THEN left_over ELSE share
         IN  chunk \in Int /\ chunk <= left_over
  <1>1. (b + n - 1) \div n \in Int
    OBVIOUS
  <1> QED
    BY <1>1

\* One request of the prefill phase gets its share.
LEMMA PrefillHolds ==
  ASSUME BatchInv, PrefillOne
  PROVE  BatchInv'
  <1> DEFINE id == Current
             r == requests[id]
             c == Chunk
             after == [r EXCEPT !.position = r.position + c,
                                !.ready = (r.position + c = r.prompt)]
  <1>1. /\ pc = "prefill" /\ pc' = "prefill" /\ todo # {}
        /\ pool' = [pool EXCEPT ![id] = pool[id] + c]
        /\ budget' = budget - c /\ todo' = todo \ {id} /\ terminal' = terminal
        /\ waiting' = waiting /\ UNCHANGED store /\ next_id' = next_id
    BY DEF PrefillOne
  <1>2. Ownership /\ Text
    BY <1>1 DEF BatchInv
  <1>3. id \in todo /\ id \in Admitted /\ id \in Retained
        /\ Cardinality(todo) \in Nat /\ Cardinality(todo) > 0
    BY <1>1, <1>2, CurrentIsLeft
  <1>4. requests' = [requests EXCEPT ![id] = after]
    BY <1>3 DEF PrefillOne, Retained
  <1>5. Held(id, r, pool, waiting, terminal) /\ r.position < r.prompt
    BY <1>1, <1>2, <1>3 DEF Text
  <1>6. /\ Progress(r) /\ pool[id] = Rows(r) /\ (r.ended => id \in terminal)
        /\ r \in Request /\ r.position \in Int /\ r.prompt \in Nat /\ r.generated = 0
    BY <1>3, <1>5 DEF Held, Admitted, Progress, Request
  <1>7. c \in Int /\ c <= r.prompt - r.position
    <2>1. budget \in Int /\ r.prompt - r.position \in Int
      BY <1>2, <1>6 DEF Text
    <2> QED
      BY <1>3, <2>1, ChunkFits DEF Chunk
  <1> HIDE DEF c
  <1>8. /\ after \in Request /\ after.position = r.position + c /\ after.prompt = r.prompt
        /\ after.generated = 0 /\ after.ended = r.ended
        /\ after.ready = (r.position + c = r.prompt)
    <2> DEFINE p == r.position + c
               e == (p = r.prompt)
    <2>1. e \in BOOLEAN /\ p \in Int /\ after = [r EXCEPT !.position = p, !.ready = e]
      BY <1>6, <1>7
    <2> HIDE DEF e, p, after
    <2>2. /\ after \in Request /\ after.position = p /\ after.prompt = r.prompt
          /\ after.generated = 0 /\ after.ended = r.ended /\ after.ready = e
      BY <1>6, <2>1 DEF Request
    <2> QED
      BY <2>2 DEF e, p
  <1> HIDE DEF after
  <1>9. Progress(after)
    <2>1. after.position <= after.prompt
      BY <1>6, <1>7, <1>8
    <2>2. after.ready <=> (after.position = after.prompt)
      BY <1>8
    <2> QED
      BY <1>8, <2>1, <2>2 DEF Progress
  <1>10. pool[id] + c = Rows(after)
    BY <1>6, <1>8 DEF Rows
  <1>11. (after.ended => id \in terminal) /\ terminal \subseteq terminal
    BY <1>6, <1>8
  <1> DEFINE rows == pool[id] + c
  <1>12. /\ Admitted' = Admitted /\ pool'[id] = rows
         /\ \A x \in Admitted \ {id} : pool'[x] = pool[x]
         /\ rows = Rows(after)
    BY <1>1, <1>3, <1>10 DEF Admitted
  <1> HIDE DEF rows, id, r
  <1>13. /\ Retained' = Retained /\ Admitted' = Admitted
         /\ \A x \in Retained \ {id} : requests'[x] = requests[x]
         /\ requests'[id] = after
         /\ \A x \in Retained' : Held(x, requests'[x], pool', waiting', terminal')
    BY <1>1, <1>2, <1>3, <1>4, <1>9, <1>11, <1>12, OneRequestChanges
  <1>14. Ownership'
    BY <1>1, <1>2, <1>13, OwnershipStays
  <1>15. \A x \in todo' : x \in Admitted' /\ requests'[x].position < requests'[x].prompt
    BY <1>1, <1>2, <1>13 DEF Text, Ownership
  <1>16. budget' \in Int
    BY <1>1, <1>2, <1>7 DEF Text
  <1>17. Text'
    BY <1>1, <1>2, <1>13, <1>15, <1>16 DEF Text
  <1> QED
    BY <1>14, <1>17 DEF BatchInv

\* A failed prefill appends nothing.
LEMMA PrefillFailsHolds ==
  ASSUME BatchInv, PrefillFails
  PROVE  BatchInv'
  <1>1. pc' = "failed" /\ UNCHANGED <<requests, pool, waiting, store, next_id>>
    BY DEF PrefillFails, Fail
  <1>2. Retained' = Retained /\ Admitted' = Admitted
    BY <1>1 DEF Retained, Admitted
  <1>3. Ownership'
    BY <1>1, <1>2, OwnershipStays DEF BatchInv
  <1> QED
    BY <1>1, <1>3 DEF BatchInv

\* Requests for no tokens end with those that sampled their last one.
LEMMA PrefillDoneHolds ==
  ASSUME BatchInv, PrefillDone
  PROVE  BatchInv'
  <1>1. /\ UNCHANGED <<requests, waiting, pool, store, next_id, budget>>
        /\ pc = "prefill" /\ pc' = "finish"
        /\ terminal \subseteq terminal'
        /\ terminal' \subseteq terminal \cup Admitted
    BY DEF PrefillDone
  <1>2. Ownership /\ Text
    BY <1>1 DEF BatchInv
  <1>3. Retained' = Retained /\ Admitted' = Admitted
    BY <1>1 DEF Retained, Admitted
  <1>4. Ownership'
    BY <1>1, <1>2, <1>3, OwnershipStays
  <1>5. ASSUME NEW id \in Retained'
        PROVE  Held(id, requests'[id], pool', waiting', terminal')
    <2>1. Held(id, requests[id], pool, waiting, terminal)
      BY <1>2, <1>3 DEF Text
    <2> QED
      BY <1>1, <2>1 DEF Held
  <1>6. Text'
    BY <1>1, <1>2, <1>3, <1>5 DEF Text
  <1> QED
    BY <1>4, <1>6 DEF BatchInv

-----------------------------------------------------------------------------
\* A request leaves the maps; its cache entry is released or lost.
LEMMA FinishOwnership ==
  ASSUME Ownership, NEW id \in Admitted, Finish(id), next_id' = next_id,
         \/ cache' = cache \ {id} /\ lost' = lost
         \/ cache' = cache /\ lost' = lost \cup {id}
  PROVE  /\ Ownership'
         /\ Retained' = Retained \ {id} /\ Admitted' = Admitted \ {id}
         /\ \A x \in Retained' : requests'[x] = requests[x]
         /\ \A x \in Admitted' : pool'[x] = pool[x]
  <1>1. /\ Retained' = Retained \ {id} /\ Admitted' = Admitted \ {id}
        /\ \A x \in Retained' : requests'[x] = requests[x]
        /\ \A x \in Admitted' : pool'[x] = pool[x]
        /\ waiting' = waiting
    BY DEF Finish, Removing, Retained, Admitted
  <1>2. id \notin ToSet(waiting) /\ id \in 1..(next_id - 1) /\ id \notin lost
    BY DEF Ownership
  <1>3. Ownership'
    BY <1>1, <1>2 DEF Ownership
  <1> QED
    BY <1>1, <1>3

\* An ended request is finished.
LEMMA FinishHolds ==
  ASSUME BatchInv, FinishOne
  PROVE  BatchInv'
  <1>1. PICK id \in terminal :
          Finish(id) /\ cache' = cache \ {id} /\ terminal' = terminal \ {id}
    BY DEF FinishOne
  <1>2. /\ lost' = lost /\ next_id' = next_id /\ pc = "finish" /\ pc' = "finish"
        /\ budget' = budget /\ waiting' = waiting
    BY <1>1 DEF FinishOne, Finish
  <1>3. Ownership /\ Text
    BY <1>2 DEF BatchInv
  <1>4. id \in Admitted
    BY <1>3 DEF Text
  <1>5. /\ Ownership'
        /\ Retained' = Retained \ {id} /\ Admitted' = Admitted \ {id}
        /\ \A x \in Retained' : requests'[x] = requests[x]
        /\ \A x \in Admitted' : pool'[x] = pool[x]
    BY <1>1, <1>2, <1>3, <1>4, FinishOwnership
  <1>6. ASSUME NEW x \in Retained'
        PROVE  Held(x, requests'[x], pool', waiting', terminal')
    <2>1. Held(x, requests[x], pool, waiting, terminal) /\ x # id
      BY <1>3, <1>5 DEF Text
    <2> QED
      BY <1>1, <1>2, <1>5, <2>1 DEF Held, Admitted
  <1>7. Text'
    BY <1>1, <1>2, <1>3, <1>5, <1>6 DEF Text
  <1> QED
    BY <1>5, <1>7 DEF BatchInv

\* The codec fails and nothing changes, or the cache entry is lost.
LEMMA FinishFailsHolds ==
  ASSUME BatchInv, FinishFails
  PROVE  BatchInv'
  <1>1. pc = "finish" /\ pc' = "failed" /\ next_id' = next_id /\ cache' = cache
    BY DEF FinishFails, Fail
  <1>2. Ownership /\ Text
    BY <1>1 DEF BatchInv
  <1>3. CASE UNCHANGED <<requests, waiting, pool, lost>>
    <2>1. Retained' = Retained /\ Admitted' = Admitted
      BY <1>3 DEF Retained, Admitted
    <2> QED
      BY <1>1, <1>2, <1>3, <2>1, OwnershipStays DEF BatchInv, store
  <1>4. CASE \E id \in terminal : Finish(id) /\ lost' = lost \cup {id}
    <2>1. PICK id \in terminal : Finish(id) /\ lost' = lost \cup {id}
      BY <1>4
    <2>2. id \in Admitted
      BY <1>2 DEF Text
    <2>3. Ownership'
      BY <1>1, <1>2, <2>1, <2>2, FinishOwnership
    <2> QED
      BY <1>1, <2>3 DEF BatchInv
  <1> QED
    BY <1>3, <1>4 DEF FinishFails

\* The tick ends with no request left to finish.
LEMMA FinishDoneHolds ==
  ASSUME BatchInv, FinishDone
  PROVE  BatchInv'
  <1>1. /\ UNCHANGED <<requests, waiting, pool, store, next_id, terminal>>
        /\ pc = "finish" /\ pc' = "idle" /\ terminal = {} /\ budget' = 0
    BY DEF FinishDone
  <1>2. Ownership /\ Text
    BY <1>1 DEF BatchInv
  <1>3. Retained' = Retained /\ Admitted' = Admitted
    BY <1>1 DEF Retained, Admitted
  <1>4. Ownership'
    BY <1>1, <1>2, <1>3, OwnershipStays
  <1>5. Text'
    BY <1>1, <1>2, <1>3 DEF Text
  <1> QED
    BY <1>4, <1>5 DEF BatchInv

-----------------------------------------------------------------------------
\* Every step of the service keeps the invariant.
LEMMA NextHolds ==
  ASSUME ServiceAssumption, BatchInv, [Next]_vars
  PROVE  BatchInv'
  <1>1. CASE UNCHANGED vars
    <2>1. UNCHANGED <<requests, waiting, pool, store, next_id, pc, todo, budget, terminal>>
      BY <1>1 DEF vars, tick
    <2>2. Retained' = Retained /\ Admitted' = Admitted
      BY <2>1 DEF Retained, Admitted
    <2>3. Ownership'
      BY <2>1, <2>2, OwnershipStays DEF BatchInv
    <2>4. pc # "failed" => Text'
      BY <2>1, <2>2 DEF BatchInv, Text
    <2> QED
      BY <2>1, <2>3, <2>4 DEF BatchInv
  <1>2. CASE \E shape \in Shapes : AddRequest(shape)
    BY <1>2, AddHolds
  <1>3. CASE \E id \in Retained : Cancel(id)
    BY <1>3, CancelHolds
  <1>4. CASE \E last \in BOOLEAN : GenerateOne(last)
    BY <1>4, GenerateHolds
  <1>5. CASE StartTick \/ Admit \/ AdmitFails \/ AdmitDone
    BY <1>5, StartHolds, AdmitHolds, AdmitFailsHolds, AdmitDoneHolds
  <1>6. CASE GenerateFails \/ DecodeDone \/ PrefillOne \/ PrefillFails \/ PrefillDone
    BY <1>6, GenerateFailsHolds, DecodeDoneHolds, PrefillHolds, PrefillFailsHolds, PrefillDoneHolds
  <1>7. CASE FinishOne \/ FinishFails \/ FinishDone \/ FailAll
    BY <1>7, FinishHolds, FinishFailsHolds, FinishDoneHolds, FailAllHolds
  <1> QED
    BY <1>1, <1>2, <1>3, <1>4, <1>5, <1>6, <1>7 DEF Next, Tick

\* The invariant, for every behaviour.
THEOREM BatchInvariant == Spec => []BatchInv
  <1>1. Init => BatchInv
    BY InitHolds
  <1>2. BatchInv /\ [Next]_vars => BatchInv'
    BY NextHolds, ServiceOK
  <1> QED
    BY <1>1, <1>2, PTL DEF Spec

\* An entry of the sequence cache belongs to a sequence of the pool or was lost with a
\* failed device call (BitNetSequence::admit, finish_request), and never both.
THEOREM CacheStaysOwned == Spec => []CacheEntriesOwned
  <1>1. BatchInv => CacheEntriesOwned
    BY DEF BatchInv, Ownership, CacheEntriesOwned
  <1> QED
    BY <1>1, BatchInvariant, PTL

\* Between ticks a retained request has not ended, and it waits for a sequence or has
\* one with exactly the rows of its text (generate_one and prefill), whatever calls
\* failed before.
THEOREM TextIsHeld == Spec => []SequenceHoldsItsText
  <1>1. BatchInv => SequenceHoldsItsText
    <2> SUFFICES ASSUME BatchInv, pc = "idle", NEW id \in Retained
                 PROVE  /\ ~requests[id].ended
                        /\ id \in Admitted => pool[id] = Rows(requests[id])
                        /\ id \notin Admitted => id \in ToSet(waiting)
      BY DEF SequenceHoldsItsText
    <2>1. Held(id, requests[id], pool, waiting, terminal) /\ terminal = {}
      BY DEF BatchInv, Text
    <2> QED
      BY <2>1 DEF Held, Untouched, Admitted
  <1> QED
    BY <1>1, BatchInvariant, PTL
=============================================================================
