---------------------------- MODULE WorkloadLease ----------------------------
(***************************************************************************)
(* FirestoreWorkloadLeaseStore (services/workload_lease.py): one document   *)
(* per Managed Workload, changed only inside Firestore transactions.        *)
(*                                                                         *)
(* A Firestore transaction is optimistic: the update callback runs on what  *)
(* the transaction read, and when the document changed before the commit    *)
(* the callback runs AGAIN on the new document.  renew and release compute  *)
(* nothing outside their callback that a second run does not recompute, so  *)
(* one atomic step models them.  acquire keeps its `acquired` flag outside  *)
(* the callback and never clears it, so its first read and its commit are   *)
(* two steps here.                                                          *)
(***************************************************************************)
EXTENDS Naturals

CONSTANTS Workloads,    \* Managed Workloads; _key maps each to its document
          TTL           \* ttl of a lease, in clock units

ASSUME TTLAssumption == TTL \in Nat \ {0}

VARIABLES clock,        \* wall-clock time
          lease,        \* lease[w]: the stored document of workload w
          issued        \* number of tokens handed out: uuid4().hex is fresh

leaseVars == <<lease, issued>>

NoToken == 0

\* No document.
NoLease == [token |-> NoToken, expires |-> 0]

Lease == [token : Nat, expires : Nat]

LeaseTypeOK ==
  /\ clock \in Nat
  /\ lease \in [Workloads -> Lease]
  /\ issued \in Nat

LeaseInit ==
  /\ clock = 0
  /\ lease = [w \in Workloads |-> NoLease]
  /\ issued = 0

\* The callback of acquire leaves the document alone: existing.expires_at > now.
Occupied(w, now) == lease[w].token # NoToken /\ lease[w].expires > now

\* The callback of acquire writes a lease with a fresh token.
Grant(w, now) ==
  /\ issued' = issued + 1
  /\ lease' = [lease EXCEPT ![w] = [token |-> issued + 1, expires |-> now + TTL]]

\* renew succeeds; otherwise it raises ValueError and writes nothing.
CanRenew(w, token) ==
  /\ lease[w].token # NoToken
  /\ lease[w].token = token
  /\ lease[w].expires > clock

Renew(w) ==
  /\ lease' = [lease EXCEPT ![w].expires = clock + TTL]
  /\ UNCHANGED issued

\* Mutant: release deletes whatever lease it finds.
ReleaseAny(w, token) ==
  /\ lease' = [lease EXCEPT ![w] = NoLease]
  /\ UNCHANGED issued

\* release deletes the document if it still carries the token; it raises
\* ValueError if another lease is stored and does nothing if there is none.
Release(w, token) ==
  /\ lease' = IF lease[w].token = token
              THEN [lease EXCEPT ![w] = NoLease]
              ELSE lease
  /\ UNCHANGED issued
=============================================================================
