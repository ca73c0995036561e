------------------------- MODULE ResourceOwnership --------------------------
(***************************************************************************)
(* What crates/eider-cuda/src/deferred.rs promises of the resources lent   *)
(* to deferred device work: each is the host's or the device's, work is    *)
(* created only for resources the device has, and one returns to the host  *)
(* only when no work can touch it again.                                   *)
(***************************************************************************)
CONSTANT Resource

VARIABLES
  owner,   \* "host" or "device", per resource
  running  \* the resources some queued device work refers to

Init ==
  /\ owner = [r \in Resource |-> "host"]
  /\ running = {}

\* The host lends a resource to a recording.
Lend(r) ==
  /\ owner[r] = "host"
  /\ owner' = [owner EXCEPT ![r] = "device"]
  /\ UNCHANGED running

\* Work on a lent resource is queued, or the last of it ends.
Work(r) ==
  /\ owner[r] = "device"
  /\ running' \in {running \cup {r}, running \ {r}}
  /\ UNCHANGED owner

\* The host has the resource again, and no work refers to it any more.
Return(r) ==
  /\ owner[r] = "device"
  /\ r \notin running
  /\ owner' = [owner EXCEPT ![r] = "host"]
  /\ UNCHANGED running

Next == \E r \in Resource : Lend(r) \/ Work(r) \/ Return(r)

Spec == Init /\ [][Next]_<<owner, running>>
=============================================================================
