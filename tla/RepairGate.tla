----------------------------- MODULE RepairGate -----------------------------
(***************************************************************************)
(* The per-bucket metadata health kept by repair.Manager.  It is held in   *)
(* memory only: a daemon that restarts knows every bucket as healthy.      *)
(* Write paths ask CheckWrite once, when a request is admitted; failed     *)
(* metadata uploads and the periodic sync change the status.               *)
(***************************************************************************)
CONSTANT Bucket

VARIABLE status     \* status[b]: what the manager answers for bucket b

Healthy   == "healthy"
Repairing == "repairing"
Degraded  == "degraded"

Status == {Healthy, Repairing, Degraded}

GateTypeOK == status \in [Bucket -> Status]

\* A fresh manager holds no entry, and an absent entry reads as healthy.
NewManager == [b \in Bucket |-> Healthy]

GateInit == status = NewManager

\* A write is admitted only into a healthy bucket.
CheckWrite(b) == status[b] = Healthy

\* Overwrites whatever was there, degraded included.
MarkRepairing(b) == status' = [status EXCEPT ![b] = Repairing]

\* A repair that failed; until another one succeeds.
MarkDegraded(b) == status' = [status EXCEPT ![b] = Degraded]

\* The entry is removed, whoever made it.
MarkHealthy(b) == status' = [status EXCEPT ![b] = Healthy]

=============================================================================
