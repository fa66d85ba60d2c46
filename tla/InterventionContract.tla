------------------------ MODULE InterventionContract ------------------------
(***************************************************************************)
(* What the Executor promises a Responder, without its processes, queue,   *)
(* leases and faults: an Incident's action is applied only after its       *)
(* Approval and its claim, changes the Deployment at most once, and its    *)
(* Intervention settles at most once.                                      *)
(***************************************************************************)
CONSTANTS Incidents, Terminal

VARIABLES approved,  \* the Incidents with an Approval
          state,     \* state[i]: of i's Intervention
          applied    \* applied[i]: resourceVersions i's action has produced

contractVars == <<approved, state, applied>>

ContractInit ==
  /\ approved = {}
  /\ state = [i \in Incidents |-> "none"]
  /\ applied = [i \in Incidents |-> {}]

ContractApprove(i) ==
  /\ i \notin approved
  /\ approved' = approved \cup {i}
  /\ UNCHANGED <<state, applied>>

ContractClaim(i) ==
  /\ i \in approved
  /\ state[i] = "none"
  /\ state' = [state EXCEPT ![i] = "running"]
  /\ UNCHANGED <<approved, applied>>

\* Not only while running: see SafeHaltStopsWrites in InterventionClaims.
ContractApply(i) ==
  /\ i \in approved
  /\ state[i] # "none"
  /\ applied[i] = {}
  /\ \E v \in applied'[i] : applied' = [applied EXCEPT ![i] = {v}]
  /\ UNCHANGED <<approved, state>>

ContractSettle(i) ==
  /\ state[i] = "running"
  /\ \E s \in Terminal : state' = [state EXCEPT ![i] = s]
  /\ UNCHANGED <<approved, applied>>

ContractNext ==
  \E i \in Incidents : \/ ContractApprove(i)
                       \/ ContractClaim(i)
                       \/ ContractApply(i)
                       \/ ContractSettle(i)

ContractSpec == ContractInit /\ [][ContractNext]_contractVars
=============================================================================
