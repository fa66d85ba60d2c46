----------------------------- MODULE Enrollment -----------------------------
(***************************************************************************)
(* Enrollment of a Managed Application: what of its profile and of the     *)
(* cluster has to be in place for KubeCouncil to act on it, as             *)
(* KubernetesEnrollmentProvider reads it (runtime/live_providers.py) and   *)
(* EnrollmentChecker judges it (services/enrollment.py).  The facts are    *)
(* pairs; a state of the cluster is the set of those that hold.            *)
(***************************************************************************)
CONSTANTS
  Namespaces,
  Workloads,    \* the workloads the profile declares
  Executable    \* the ones that are not protected dependencies

ASSUME EnrollmentAssumption == Executable \subseteq Workloads

\* The checks, in the order of check.
Prerequisites ==
  {<<"profile", "valid">>}
  \cup ({"namespace", "enrolled", "investigator", "executor"} \X Namespaces)
  \cup ({"deployment"} \X Workloads)
  \cup ({"managed"} \X Executable)
  \cup {<<"admission", "binding">>}

\* inspect: what is not found has no labels.
Snapshot(cluster) ==
  {f \in cluster : /\ f[1] = "enrolled" => <<"namespace", f[2]>> \in cluster
                   /\ f[1] = "managed" => <<"deployment", f[2]>> \in cluster}

\* check(...).ready.
Ready(cluster) == Prerequisites \subseteq Snapshot(cluster)

\* require_enrolled_target does not raise.
EnrolledTarget(cluster, w, executable) ==
  /\ Ready(cluster)
  /\ w \in Workloads
  /\ executable => w \in Executable
=============================================================================
