-------------------------- MODULE MCAlertIngestion --------------------------
(* Instances of AlertIngestion for TLC. *)
EXTENDS AlertIngestion, TLC

CONSTANTS c1, c2, n1, n2, m1, w1, w2, w3, p1, ns

\* m1 is opened by hand.  n1, from a workload that depends on m1's, comes at
\* the very end of m1's window and opens a provider incident.  n2 closes that
\* one, too late for m1 and at the very end of n1's window.
\* Only m1's workload is executable.  The label of the namespace comes and goes.
MCVolatile == {<<"enrolled", ns>>}

MCDependencies == {<<w1, w3>>}
MCWorkload == (m1 :> w3) @@ (n1 :> w1) @@ (n2 :> w2)
MCState == (m1 :> "open") @@ (n1 :> "open") @@ (n2 :> "closed")
MCProvider == (m1 :> NoProvider) @@ (n1 :> p1) @@ (n2 :> p1)
MCTime == (m1 :> 0) @@ (n1 :> 2) @@ (n2 :> 4)
=============================================================================
