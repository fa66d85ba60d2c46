--------------------------- MODULE BootstrapProofs ---------------------------
(***************************************************************************)
(* Proofs about the GKE bootstrap, for every profile and any number of     *)
(* operators.  What a call has seen is true for as long as nothing came    *)
(* between (Found, Checked), every kind has a method that looks at it      *)
(* (AllSeen), and nothing a command needs comes after it (NeedsComeFirst). *)
(***************************************************************************)
EXTENDS Bootstrap, TLAPS, WellFoundedInduction

\* A set of natural numbers that is not empty has a least member.
LEMMA LeastOf ==
  ASSUME NEW S \in SUBSET Nat, S # {}
  PROVE  \E n \in S : \A m \in S : n <= m
<1>1. PICK n \in S : \A m \in S : ~ (<<m, n>> \in OpToRel(<, Nat))
  BY WFMin, NatLessThanWellFounded
<1>2. \A m \in S : ~ (m < n)
  BY <1>1 DEF OpToRel
<1> QED
  BY <1>2

\* The places of the fifteen kinds.
LEMMA KindsInOrder ==
  /\ \A k \in Range(Kinds) : Place(k) \in 1..15
  /\ Range(Kinds) \subseteq {"api", "cluster", "registry", "firestore", "topic", "subscription",
                          "gsa", "role", "namespace", "ksa", "workload-identity",
                          "github-pool", "github-provider", "github-binding", "image"}
  /\ Place("api") = 1 /\ Place("cluster") = 2 /\ Place("registry") = 3
  /\ Place("firestore") = 4 /\ Place("topic") = 5 /\ Place("subscription") = 6
  /\ Place("gsa") = 7 /\ Place("role") = 8 /\ Place("namespace") = 9
  /\ Place("ksa") = 10 /\ Place("workload-identity") = 11 /\ Place("github-pool") = 12
  /\ Place("github-provider") = 13 /\ Place("github-binding") = 14 /\ Place("image") = 15
<1>1. DOMAIN Kinds = 1..15
  BY DEF Kinds
<1>2. \A i \in 1..15 : i = 1 \/ i = 2 \/ i = 3 \/ i = 4 \/ i = 5 \/ i = 6 \/ i = 7 \/ i = 8
        \/ i = 9 \/ i = 10 \/ i = 11 \/ i = 12 \/ i = 13 \/ i = 14 \/ i = 15
  OBVIOUS
<1>3. \A i, j \in 1..15 : Kinds[i] = Kinds[j] => i = j
  BY <1>2 DEF Kinds
<1>4. \A i \in 1..15 : Place(Kinds[i]) = i
  BY <1>1, <1>3 DEF Place
<1>5. \A k \in Range(Kinds) : Place(k) \in 1..15
  BY <1>1, <1>4 DEF Range
<1>6. \A k \in Range(Kinds) : \E i \in 1..15 : k = Kinds[i]
  BY <1>1 DEF Range
<1>7. \A i \in 1..15 :
        Kinds[i] \in {"api", "cluster", "registry", "firestore", "topic", "subscription",
                     "gsa", "role", "namespace", "ksa", "workload-identity",
                     "github-pool", "github-provider", "github-binding", "image"}
  BY <1>2 DEF Kinds
<1>8. Range(Kinds) \subseteq
        {"api", "cluster", "registry", "firestore", "topic", "subscription",
         "gsa", "role", "namespace", "ksa", "workload-identity",
         "github-pool", "github-provider", "github-binding", "image"}
  BY <1>6, <1>7
<1> QED
  BY <1>4, <1>5, <1>8 DEF Kinds

\* What follows from the order of the methods is their number.
LEMMA MethodsInOrder ==
  /\ DOMAIN Methods = 1..11
  /\ \A i, j \in 1..11 : Methods[i] = Methods[j] => i = j
  /\ Methods[2] = "cluster" /\ Methods[7] = "resource_iam"
  /\ Range(Methods) = {"apis", "cluster", "registry", "firestore", "pubsub", "identities",
                       "resource_iam", "kubernetes_identities", "workload_identity",
                       "github", "images"}
<1>1. DOMAIN Methods = 1..11
  BY DEF Methods
<1>2. \A i \in 1..11 : i = 1 \/ i = 2 \/ i = 3 \/ i = 4 \/ i = 5 \/ i = 6 \/ i = 7 \/ i = 8
        \/ i = 9 \/ i = 10 \/ i = 11
  OBVIOUS
<1>3. \A i, j \in 1..11 : Methods[i] = Methods[j] => i = j
  BY <1>2 DEF Methods
<1>4. Range(Methods) = {Methods[i] : i \in 1..11}
  BY <1>1 DEF Range
<1>5. /\ Methods[1] = "apis" /\ Methods[2] = "cluster" /\ Methods[3] = "registry"
      /\ Methods[4] = "firestore" /\ Methods[5] = "pubsub" /\ Methods[6] = "identities"
      /\ Methods[7] = "resource_iam" /\ Methods[8] = "kubernetes_identities"
      /\ Methods[9] = "workload_identity" /\ Methods[10] = "github" /\ Methods[11] = "images"
  BY DEF Methods
<1>6. Range(Methods) = {Methods[1], Methods[2], Methods[3], Methods[4], Methods[5], Methods[6],
                        Methods[7], Methods[8], Methods[9], Methods[10], Methods[11]}
  <2>1. ASSUME NEW m \in Range(Methods)
        PROVE  m \in {Methods[1], Methods[2], Methods[3], Methods[4], Methods[5], Methods[6],
                        Methods[7], Methods[8], Methods[9], Methods[10], Methods[11]}
    <3>1. PICK i \in 1..11 : m = Methods[i]
      BY <1>4
    <3> QED
      BY <1>2, <3>1
  <2>2. 1 \in 1..11 /\ 2 \in 1..11 /\ 3 \in 1..11 /\ 4 \in 1..11 /\ 5 \in 1..11 /\ 6 \in 1..11
        /\ 7 \in 1..11 /\ 8 \in 1..11 /\ 9 \in 1..11 /\ 10 \in 1..11 /\ 11 \in 1..11
    OBVIOUS
  <2> QED
    BY <1>4, <2>1, <2>2
<1> QED
  BY <1>1, <1>3, <1>5, <1>6

-----------------------------------------------------------------------------
\* The steps at which a call inspects or has inspected.
Inspections == {"plan"} \cup Range(Methods)

\* A call at this step has the method numbered j behind it.
Past(j, step) ==
  step = "plan" \/ \E i \in DOMAIN Methods : Methods[i] = step /\ j < i

\* Between a method and the one that follows it only those are left out that
\* have nothing to inspect.
LEMMA FollowingOmitsNothing ==
  ASSUME NEW m \in {"account"} \cup Range(Methods)
  PROVE  /\ Following(m) \in Inspections
         /\ \A j \in DOMAIN Methods : Past(j, Following(m)) =>
              \/ Past(j, m)
              \/ Methods[j] = m
              \/ Methods[j] # "resource_iam" /\ Inspects[Methods[j]] \cap Profile = {}
<1> DEFINE later == {i \in DOMAIN Methods :
                       /\ \A j \in DOMAIN Methods : Methods[j] = m => j < i
                       /\ \/ Methods[i] = "resource_iam"
                          \/ Inspects[Methods[i]] \cap Profile # {}}
           omitted(j) == Methods[j] # "resource_iam" /\ Inspects[Methods[j]] \cap Profile = {}
           first == CHOOSE i \in later : \A j \in later : i <= j
<1>1. Following(m) = IF later = {} THEN "plan" ELSE Methods[first]
  BY DEF Following
<1>2. \A j \in DOMAIN Methods : j \in later \/ Past(j, m) \/ Methods[j] = m \/ omitted(j)
  <2> SUFFICES ASSUME NEW j \in DOMAIN Methods, ~ Past(j, m), Methods[j] # m, ~ omitted(j)
               PROVE  \A k \in DOMAIN Methods : Methods[k] = m => k < j
    OBVIOUS
  <2> SUFFICES ASSUME NEW k \in DOMAIN Methods, Methods[k] = m
               PROVE  k < j
    OBVIOUS
  <2>1. k # j /\ ~ (j < k)
    BY DEF Past
  <2>2. j \in Nat /\ k \in Nat
    BY MethodsInOrder
  <2> QED
    BY <2>1, <2>2
<1>3. CASE later = {}
  BY <1>1, <1>2, <1>3 DEF Inspections
<1>4. CASE later # {}
  <2>1. later \subseteq 1..11
    BY MethodsInOrder
  <2>2. later \in SUBSET Nat
    BY <2>1
  <2>3. \E i \in later : \A j \in later : i <= j
    <3> HIDE DEF later
    <3> QED
      BY <1>4, <2>2, LeastOf
  <2>4. first \in later /\ \A j \in later : first <= j
    <3> HIDE DEF later
    <3> QED
      BY <2>3
  <2>5. Following(m) = Methods[first] /\ first \in 1..11
    BY <1>1, <1>4, <2>1, <2>4
  <2>6. Methods[first] \in Range(Methods)
    BY <2>5, MethodsInOrder DEF Range
  <2>7. ASSUME NEW j \in DOMAIN Methods, Past(j, Methods[first])
        PROVE  j < first
    <3>1. Methods[first] # "plan"
      BY <2>6, MethodsInOrder
    <3>2. PICK i \in 1..11 : Methods[i] = Methods[first] /\ j < i
      BY <2>7, <3>1, MethodsInOrder DEF Past
    <3>3. i = first
      BY <2>5, <3>2, MethodsInOrder
    <3> QED
      BY <3>2, <3>3
  <2>8. \A j \in DOMAIN Methods : Past(j, Methods[first]) => j \notin later
    <3> SUFFICES ASSUME NEW j \in DOMAIN Methods, Past(j, Methods[first]), j \in later
                 PROVE  FALSE
      OBVIOUS
    <3>1. j < first /\ first <= j
      BY <2>4, <2>7
    <3>2. j \in 1..11
      BY MethodsInOrder
    <3>3. first \in 1..11
      BY <2>5
    <3> HIDE DEF first, later
    <3> QED
      BY <3>1, <3>2, <3>3
  <2> QED
    BY <1>2, <2>5, <2>6, <2>8 DEF Inspections
<1> QED
  BY <1>3, <1>4

-----------------------------------------------------------------------------
(* The type invariant *)

\* A call of which only the seen observations, the step and the result of the
\* checks have changed, or the commands that are left, is one still.
LEMMA JobParts ==
  ASSUME NEW j \in Jobs
  PROVE  /\ j.mode \in {"plan", "apply", "verify"} /\ j.passed \in BOOLEAN
         /\ j.seen \in [Profile -> Statuses] /\ j.todo \subseteq Command
         /\ \A step \in AtRest \cup {"account", "plan", "run"} \cup Range(Methods) :
              /\ \A passed \in BOOLEAN : [j EXCEPT !.step = step, !.passed = passed] \in Jobs
              /\ \A passed \in BOOLEAN, seen \in [Profile -> Statuses] :
                   [j EXCEPT !.step = step, !.seen = seen, !.passed = passed] \in Jobs
         /\ \A todo \in SUBSET Command : [j EXCEPT !.todo = todo] \in Jobs
BY DEF Jobs

LEMMA FreshIsJob ==
  ASSUME NEW mode \in {"plan", "apply", "verify"},
         NEW step \in AtRest \cup {"account", "plan", "run"}
  PROVE  /\ Fresh(mode, step) \in Jobs
         /\ Fresh(mode, step).mode = mode /\ Fresh(mode, step).step = step
         /\ \A todo \in SUBSET Command :
              /\ [Fresh(mode, step) EXCEPT !.todo = todo] \in Jobs
              /\ [Fresh(mode, step) EXCEPT !.todo = todo].step = step
              /\ [Fresh(mode, step) EXCEPT !.todo = todo].todo = todo
BY DEF Fresh, Jobs, Statuses

\* What an inspector reports is a status.
LEMMA ReportsAreStatuses ==
  ASSUME BootstrapTypeOK
  PROVE  /\ Listings \in [Profile -> Statuses]
         /\ Descriptions \in [Profile -> Statuses]
<1>1. \A k \in Profile : world[k] \in {"absent", "ready", "other"}
  BY DEF BootstrapTypeOK
<1>2. \A k \in Profile : Listed(k, world[k]) \in Statuses
  BY DEF Listed, Statuses
<1>3. \A k \in Profile : Described(k, world[k]) \in Statuses
  BY <1>1 DEF Described, Statuses
<1> QED
  BY <1>2, <1>3 DEF Listings, Descriptions

\* The plan of any observations, and its commands.
LEMMA PlansOfCommands ==
  ASSUME NEW seen
  PROVE  /\ PlanOf(seen) \in Plans
         /\ Commands(PlanOf(seen)) \subseteq Command
<1>1. PlanOf(seen) \in Plans
  BY DEF PlanOf, Plans
<1>2. \A k \in Profile : CommandsFor(k) \subseteq Command
  BY DEF CommandsFor, Command
<1>3. PlanOf(seen).missing \subseteq Profile
  BY DEF PlanOf
<1> QED
  BY <1>1, <1>2, <1>3 DEF Commands

\* The next command of a set is one of it, and none of it comes before.
LEMMA NextIsFirst ==
  ASSUME NEW todo \in SUBSET Command, todo # {}
  PROVE  /\ NextOf(todo) \in todo
         /\ \A d \in todo : Rank(NextOf(todo)) <= Rank(d)
<1> DEFINE ranks == {Rank(c) : c \in todo}
<1>1. \A c \in todo : Place(c.on) \in Nat
  <2>1. \A c \in todo : c.on \in Range(Kinds)
    BY BootstrapAssumption DEF Command
  <2>2. \A k \in Range(Kinds) : Place(k) \in Nat
    BY KindsInOrder
  <2> QED
    BY <2>1, <2>2
<1>2. ranks \in SUBSET Nat
  BY <1>1 DEF Rank
<1>3. ranks # {}
  OBVIOUS
<1>4. PICK r \in ranks : \A q \in ranks : r <= q
  <2> HIDE DEF ranks
  <2> QED
    BY <1>2, <1>3, LeastOf
<1>5. PICK c \in todo : r = Rank(c)
  OBVIOUS
<1>6. \A d \in todo : Rank(c) <= Rank(d)
  BY <1>4, <1>5
<1> QED
  BY <1>6 DEF NextOf


-----------------------------------------------------------------------------
(* What the steps of a call have in common *)

\* The kinds that an inspector finds or does not find; it describes the others.
Listing == {"api", "gsa", "role", "workload-identity", "github-pool", "github-binding"}

Report(k) == IF k \in Listing THEN Listings[k] ELSE Descriptions[k]

\* Call o, which was at m, has inspected what m inspects: it has seen this and
\* passed or not.  When nothing came between, it has seen the environment as it
\* is, and the checks it passed hold.
Inspected(o, m, seen, passed) ==
  /\ job' = [job EXCEPT ![o] = [job[o] EXCEPT !.step = Following(m),
                                              !.seen = seen, !.passed = passed]]
  /\ calm' = calm \/ calm' = [calm EXCEPT ![o] = FALSE]
  /\ faults' \in 0..MaxFaults
  /\ UNCHANGED <<world, facts, approved, drift>>
  /\ calm'[o] =>
       /\ calm[o]
       /\ \A k \in Profile : seen[k] = IF m # "account" /\ k \in Inspects[m]
                                       THEN Report(k) ELSE job[o].seen[k]
       /\ passed =>
            /\ m = "account" \/ job[o].passed
            /\ m = "account" => "account" \in facts
            /\ m = "resource_iam" => "grants" \in facts
            /\ m = "cluster" => world.cluster = "absent" \/ "cluster" \in facts

LEMMA FaultsCount ==
  ASSUME BootstrapTypeOK, NEW o \in Operators
  PROVE  /\ Fault(o) => /\ calm' = [calm EXCEPT ![o] = FALSE] /\ ~ calm'[o]
                        /\ faults' \in 0..MaxFaults
         /\ UNCHANGED <<calm, faults>> => calm' = calm /\ faults' \in 0..MaxFaults
BY BootstrapAssumption DEF BootstrapTypeOK, Fault

\* One method of the inspector that reads resources.
LEMMA InspectingInspects ==
  ASSUME BootstrapTypeOK, NEW o \in Operators,
         NEW m \in Range(Methods) \ {"resource_iam"}, NEW found \in [Profile -> Statuses],
         \A k \in Inspects[m] \cap Profile : found[k] = Report(k),
         Inspecting(o, m, found)
  PROVE  \E seen \in [Profile -> Statuses], passed \in BOOLEAN : Inspected(o, m, seen, passed)
<1>1. PICK unread \in SUBSET (Inspects[m] \cap Profile) :
        /\ IF unread = {} THEN UNCHANGED <<calm, faults>> ELSE Fault(o)
        /\ job' = [job EXCEPT
             ![o].step = Following(m),
             ![o].seen = [k \in Profile |->
                IF k \notin Inspects[m] THEN @[k]
                ELSE IF k \in unread THEN "missing" ELSE found[k]],
             ![o].passed = @ /\ Passes(m, unread)]
  BY DEF Inspecting
<1> DEFINE seen == [k \in Profile |->
                      IF k \notin Inspects[m] THEN job[o].seen[k]
                      ELSE IF k \in unread THEN "missing" ELSE found[k]]
           passed == job[o].passed /\ Passes(m, unread)
<1>2. /\ job \in [Operators -> Jobs] /\ job[o] \in Jobs
      /\ job[o].seen \in [Profile -> Statuses] /\ job[o].passed \in BOOLEAN
  BY JobParts DEF BootstrapTypeOK
<1>3. seen \in [Profile -> Statuses]
  BY <1>2 DEF Statuses
<1>4. passed \in BOOLEAN
  OBVIOUS
<1>5. job' = [job EXCEPT ![o] = [job[o] EXCEPT !.step = Following(m),
                                               !.seen = seen, !.passed = passed]]
  BY <1>1, <1>2 DEF Jobs
<1>6. UNCHANGED <<world, facts, approved, drift>>
  BY DEF Inspecting
<1>7. /\ calm' = calm \/ calm' = [calm EXCEPT ![o] = FALSE]
      /\ faults' \in 0..MaxFaults
      /\ calm'[o] => calm[o] /\ unread = {}
  BY <1>1, FaultsCount
<1>8. m # "account"
  BY MethodsInOrder
<1>9. unread = {} => \A k \in Profile : seen[k] = IF k \in Inspects[m]
                                                  THEN Report(k) ELSE job[o].seen[k]
  OBVIOUS
<1>10. unread = {} /\ passed =>
         /\ job[o].passed
         /\ m = "cluster" => world.cluster = "absent" \/ "cluster" \in facts
  BY DEF Passes
<1>11. Inspected(o, m, seen, passed)
  <2> HIDE DEF seen, passed
  <2> QED
    BY <1>5, <1>6, <1>7, <1>8, <1>9, <1>10 DEF Inspected
<1> QED
  BY <1>3, <1>4, <1>11


\* Every method of the inspector leaves the job in this way.
LEMMA InspectInspects ==
  ASSUME BootstrapTypeOK, NEW o \in Operators, Inspect(o)
  PROVE  /\ job[o].step \in {"account"} \cup Range(Methods)
         /\ \E seen \in [Profile -> Statuses], passed \in BOOLEAN :
              Inspected(o, job[o].step, seen, passed)
<1>1. /\ job \in [Operators -> Jobs] /\ job[o] \in Jobs
      /\ job[o].seen \in [Profile -> Statuses] /\ job[o].passed \in BOOLEAN
  BY JobParts DEF BootstrapTypeOK
<1>2. CASE InspectAccount(o)
  <2> DEFINE passed == "account" \in facts
  <2>1. /\ job[o].step = "account"
        /\ UNCHANGED <<world, facts, approved, calm, faults, drift>>
    BY <1>2 DEF InspectAccount
  <2>2. job' = [job EXCEPT ![o] = [job[o] EXCEPT !.step = Following("account"),
                                     !.seen = job[o].seen, !.passed = passed]]
    BY <1>1, <1>2 DEF InspectAccount, Jobs
  <2>3. faults' \in 0..MaxFaults
    BY <2>1 DEF BootstrapTypeOK
  <2>4. Inspected(o, "account", job[o].seen, passed)
    BY <2>1, <2>2, <2>3 DEF Inspected
  <2>5. passed \in BOOLEAN
    OBVIOUS
  <2> HIDE DEF passed
  <2> QED
    BY <1>1, <2>1, <2>4, <2>5
<1>3. CASE InspectResourceIam(o)
  <2>1. PICK read \in BOOLEAN :
          /\ IF read THEN UNCHANGED <<calm, faults>> ELSE Fault(o)
          /\ job' = [job EXCEPT ![o].step = Following("resource_iam"),
                                ![o].passed = @ /\ read /\ "grants" \in facts]
    BY <1>3 DEF InspectResourceIam
  <2> DEFINE passed == job[o].passed /\ read /\ "grants" \in facts
  <2>2. /\ job[o].step = "resource_iam"
        /\ UNCHANGED <<world, facts, approved, drift>>
    BY <1>3 DEF InspectResourceIam
  <2>3. job' = [job EXCEPT ![o] = [job[o] EXCEPT !.step = Following("resource_iam"),
                                     !.seen = job[o].seen, !.passed = passed]]
    BY <1>1, <2>1 DEF Jobs
  <2>4. /\ calm' = calm \/ calm' = [calm EXCEPT ![o] = FALSE]
        /\ faults' \in 0..MaxFaults
        /\ calm'[o] => calm[o] /\ read
    BY <2>1, FaultsCount
  <2>5. Inspects["resource_iam"] = {}
    BY DEF Inspects
  <2>6. Inspected(o, "resource_iam", job[o].seen, passed)
    BY <2>2, <2>3, <2>4, <2>5 DEF Inspected
  <2> QED
    BY <1>1, <2>2, <2>6, MethodsInOrder
<1> DEFINE github == [k \in Profile |->
                        IF k = "github-provider" THEN Descriptions[k] ELSE Listings[k]]
<1>4. github \in [Profile -> Statuses]
  BY ReportsAreStatuses
<1>5. /\ \A k \in Inspects["apis"] : Report(k) = Listings[k]
      /\ \A k \in Inspects["identities"] : Report(k) = Listings[k]
      /\ \A k \in Inspects["workload_identity"] : Report(k) = Listings[k]
      /\ \A k \in Inspects["cluster"] : Report(k) = Descriptions[k]
      /\ \A k \in Inspects["registry"] : Report(k) = Descriptions[k]
      /\ \A k \in Inspects["firestore"] : Report(k) = Descriptions[k]
      /\ \A k \in Inspects["pubsub"] : Report(k) = Descriptions[k]
      /\ \A k \in Inspects["kubernetes_identities"] : Report(k) = Descriptions[k]
      /\ \A k \in Inspects["images"] : Report(k) = Descriptions[k]
      /\ \A k \in Inspects["github"] \cap Profile : Report(k) = github[k]
  BY DEF Report, Listing, Inspects
<1>6. ASSUME NEW m \in Range(Methods) \ {"resource_iam"}, NEW found \in [Profile -> Statuses],
             \A k \in Inspects[m] \cap Profile : found[k] = Report(k),
             Inspecting(o, m, found)
      PROVE  /\ job[o].step \in Range(Methods)
             /\ \E seen \in [Profile -> Statuses], passed \in BOOLEAN :
                  Inspected(o, job[o].step, seen, passed)
  <2>1. job[o].step = m
    BY <1>6 DEF Inspecting
  <2> QED
    BY <1>6, <2>1, InspectingInspects
<1>7. /\ "apis" \in Range(Methods) /\ "cluster" \in Range(Methods)
      /\ "registry" \in Range(Methods) /\ "firestore" \in Range(Methods)
      /\ "pubsub" \in Range(Methods) /\ "identities" \in Range(Methods)
      /\ "kubernetes_identities" \in Range(Methods) /\ "workload_identity" \in Range(Methods)
      /\ "github" \in Range(Methods) /\ "images" \in Range(Methods)
  BY MethodsInOrder
<1> HIDE DEF github
<1>8. CASE InspectApis(o)
  BY <1>5, <1>6, <1>7, <1>8, ReportsAreStatuses DEF InspectApis
<1>9. CASE InspectCluster(o)
  BY <1>5, <1>6, <1>7, <1>9, ReportsAreStatuses DEF InspectCluster
<1>10. CASE InspectRegistry(o)
  BY <1>5, <1>6, <1>7, <1>10, ReportsAreStatuses DEF InspectRegistry
<1>11. CASE InspectFirestore(o)
  BY <1>5, <1>6, <1>7, <1>11, ReportsAreStatuses DEF InspectFirestore
<1>12. CASE InspectPubsub(o)
  BY <1>5, <1>6, <1>7, <1>12, ReportsAreStatuses DEF InspectPubsub
<1>13. CASE InspectIdentities(o)
  BY <1>5, <1>6, <1>7, <1>13, ReportsAreStatuses DEF InspectIdentities
<1>14. CASE InspectKubernetesIdentities(o)
  BY <1>5, <1>6, <1>7, <1>14, ReportsAreStatuses DEF InspectKubernetesIdentities
<1>15. CASE InspectWorkloadIdentity(o)
  BY <1>5, <1>6, <1>7, <1>15, ReportsAreStatuses DEF InspectWorkloadIdentity
<1>16. CASE InspectGithub(o)
  BY <1>4, <1>5, <1>6, <1>7, <1>16 DEF InspectGithub, github
<1>17. CASE InspectImages(o)
  BY <1>5, <1>6, <1>7, <1>17, ReportsAreStatuses DEF InspectImages
<1> QED
  BY <1>2, <1>3, <1>8, <1>9, <1>10, <1>11, <1>12, <1>13, <1>14, <1>15, <1>16, <1>17 DEF Inspect

\* What a command makes of the environment: it changes the one resource it is
\* for, which is there afterwards.
LEMMA ResultsOfCommand ==
  ASSUME BootstrapTypeOK, NEW c \in Command, NEW w \in Results(c)
  PROVE  /\ w \in [Profile -> {"absent", "other", "ready"}]
         /\ \A k \in Profile : w[k] \in Forms(k)
         /\ \A k \in Profile : w[k] = world[k] \/ w[k] # "absent"
         /\ c.does = "create" => \A k \in Profile \ {c.on} : w[k] = world[k]
         /\ c.does = "create" => w[c.on] # "absent"
         /\ c.does = "annotate" => /\ \A k \in Profile \ {"ksa"} : w[k] = world[k]
                                   /\ world.ksa # "absent"
<1>1. c.on \in Profile /\ c.does \in {"create", "annotate"}
  BY DEF Command
<1>2. /\ world \in [Profile -> {"absent", "other", "ready"}]
      /\ \A k \in Profile : world[k] \in Forms(k)
  BY DEF BootstrapTypeOK
<1>3. CASE c.does = "annotate"
  <2>1. w = [world EXCEPT !.ksa = "ready"] /\ world.ksa # "absent"
    BY <1>3 DEF Results
  <2> QED
    BY <1>2, <1>3, <2>1 DEF Forms
<1>4. CASE c.does = "create"
  <2>1. PICK form \in Made(c.on) : w = [world EXCEPT ![c.on] = form]
    BY <1>4 DEF Results
  <2>2. form \in Forms(c.on) \ {"absent"} /\ form \in {"absent", "other", "ready"}
    BY DEF Made, Forms, Differing
  <2> QED
    BY <1>1, <1>2, <1>4, <2>1, <2>2
<1> QED
  BY <1>1, <1>3, <1>4

-----------------------------------------------------------------------------
(* The inductive invariant *)

\* What a call has seen is what there is, unless something came between.
Found(o) ==
  calm[o] => \A j \in DOMAIN Methods : Past(j, job[o].step) =>
               \A k \in Inspects[Methods[j]] \cap Profile : job[o].seen[k] = Report(k)

\* The checks that a call has behind it and that did not fail hold.
Checked(o) ==
  calm[o] /\ job[o].passed /\ job[o].step \in Inspections =>
    /\ "account" \in facts
    /\ Past(7, job[o].step) => "grants" \in facts
    /\ Past(2, job[o].step) /\ "cluster" \in Profile =>
         world.cluster = "absent" \/ "cluster" \in facts

\* VerifiedIsComplete, of one call.
Vouched(o) ==
  calm[o] /\ job[o].step = "verified" =>
    /\ \A k \in Profile : world[k] = "ready"
    /\ {"account", "grants"} \subseteq facts
    /\ ("cluster" \in Profile => "cluster" \in facts)

Create(k) == [on |-> k, does |-> "create"]

\* The commands that are left are of the plan that was reviewed.
Reviewed(o) ==
  job[o].step = "run" =>
    /\ job[o].todo # {}
    /\ approved[o].incompatible = {}
    /\ \A c \in job[o].todo :
         /\ c.on \in approved[o].missing
         /\ c.does = "annotate" => c.on \in {"ksa", "workload-identity"}

\* The kinds of which one that differs is reported as missing.
Reported == {"gsa", "github-pool"}

\* A resource whose command is still to come is not there, or the command may
\* be repeated; every other resource is there.
Workable(o) ==
  calm[o] /\ job[o].step = "run" =>
    \A k \in Profile :
      IF Create(k) \in job[o].todo
      THEN world[k] = "absent" \/ k \in Repeatable \/ (k \in Reported /\ world[k] = "other")
      ELSE world[k] # "absent"

\* OrderSuffices, of one call.
Stopped(o) ==
  calm[o] /\ job[o].step = "failed" =>
    \E k \in Reported \cap Profile : world[k] = "other"

Sound(o) ==
  /\ Found(o) /\ Checked(o) /\ Vouched(o)
  /\ Reviewed(o) /\ Workable(o) /\ Stopped(o)

\* Whoever applies has reviewed a plan with something to do.
Chosen(o) == job[o].mode = "apply" => approved[o].missing # {}

BootstrapInvariant ==
  BootstrapTypeOK /\ \A o \in Operators : Sound(o) /\ Chosen(o)

-----------------------------------------------------------------------------
\* The command a call runs next.
LEMMA CommandAtHand ==
  ASSUME BootstrapTypeOK, NEW o \in Operators, Reviewed(o), job[o].step = "run"
  PROVE  /\ job[o].todo \in SUBSET Command /\ job[o].todo # {}
         /\ NextOf(job[o].todo) \in job[o].todo
         /\ NextOf(job[o].todo) \in Command
<1>1. job[o].todo \in SUBSET Command /\ job[o].todo # {}
  BY JobParts DEF BootstrapTypeOK, Reviewed
<1> QED
  BY <1>1, NextIsFirst

LEMMA TypeStep ==
  ASSUME BootstrapTypeOK, \A o \in Operators : Reviewed(o), [Next]_vars
  PROVE  BootstrapTypeOK'
<1> USE BootstrapAssumption
<1>0. /\ world \in [Profile -> {"absent", "other", "ready"}]
      /\ \A k \in Profile : world[k] \in Forms(k)
      /\ facts \subseteq Facts /\ job \in [Operators -> Jobs]
      /\ approved \in [Operators -> Plans] /\ calm \in [Operators -> BOOLEAN]
      /\ faults \in 0..MaxFaults /\ drift \in 0..MaxDrift
  BY DEF BootstrapTypeOK
<1>1. \A o \in Operators : job[o].mode \in {"plan", "apply", "verify"}
  BY <1>0, JobParts
<1>2. ASSUME NEW o \in Operators, NEW step \in AtRest, Ends(o, step)
      PROVE  job' \in [Operators -> Jobs]
  BY <1>0, <1>1, <1>2, FreshIsJob DEF Ends
<1>3. \A o \in Operators : job'[o] \in Jobs /\ job' = [job EXCEPT ![o] = job'[o]] =>
        job' \in [Operators -> Jobs]
  BY <1>0
<1>4. ASSUME NEW o \in Operators, NEW mode \in {"plan", "apply", "verify"}, Start(o, mode)
      PROVE  BootstrapTypeOK'
  <2>1. job' \in [Operators -> Jobs]
    BY <1>0, <1>4, FreshIsJob DEF Start
  <2> QED
    BY <1>0, <1>4, <2>1 DEF Start, BootstrapTypeOK
<1>5. ASSUME NEW o \in Operators, Inspect(o)
      PROVE  BootstrapTypeOK'
  <2> DEFINE m == job[o].step
  <2>1. m \in {"account"} \cup Range(Methods)
    BY <1>5, InspectInspects
  <2>2. PICK seen \in [Profile -> Statuses], passed \in BOOLEAN : Inspected(o, m, seen, passed)
    BY <1>5, InspectInspects
  <2>3. Following(m) \in AtRest \cup {"account", "plan", "run"} \cup Range(Methods)
    BY <2>1, FollowingOmitsNothing DEF Inspections
  <2>4. [job[o] EXCEPT !.step = Following(m), !.seen = seen, !.passed = passed] \in Jobs
    BY <1>0, <2>3, JobParts
  <2>5. job' \in [Operators -> Jobs]
    BY <1>0, <2>2, <2>4 DEF Inspected
  <2>6. calm' \in [Operators -> BOOLEAN]
    BY <1>0, <2>2 DEF Inspected
  <2>7. faults' \in 0..MaxFaults /\ UNCHANGED <<world, facts, approved, drift>>
    BY <2>2 DEF Inspected
  <2> QED
    BY <1>0, <2>5, <2>6, <2>7 DEF BootstrapTypeOK
<1>6. ASSUME NEW o \in Operators, Plan(o)
      PROVE  BootstrapTypeOK'
  <2>1. job' \in [Operators -> Jobs]
    BY <1>2, <1>6 DEF Plan, AtRest
  <2>2. approved' \in [Operators -> Plans]
    BY <1>0, <1>6, PlansOfCommands DEF Plan
  <2> QED
    BY <1>0, <1>6, <2>1, <2>2 DEF Plan, BootstrapTypeOK
<1>7. ASSUME NEW o \in Operators, Verify(o)
      PROVE  BootstrapTypeOK'
  <2>1. job' \in [Operators -> Jobs]
    BY <1>2, <1>7 DEF Verify, AtRest
  <2> QED
    BY <1>0, <1>7, <2>1 DEF Verify, BootstrapTypeOK
<1>8. ASSUME NEW o \in Operators, NEW labels \in Offers, Apply(o, labels)
      PROVE  BootstrapTypeOK'
  <2> DEFINE plan == PlanOf(job[o].seen)
  <2>1. CASE Applies(o, plan, labels)
    <3>1. job' = [job EXCEPT ![o] = [Fresh("apply", "run") EXCEPT !.todo = Commands(plan)]]
      BY <1>8, <2>1 DEF Apply
    <3>2. job' \in [Operators -> Jobs]
      BY <1>0, <3>1, FreshIsJob, PlansOfCommands
    <3> QED
      BY <1>0, <1>8, <3>2 DEF Apply, BootstrapTypeOK
  <2>2. CASE ~ Applies(o, plan, labels)
    <3>1. job' \in [Operators -> Jobs]
      BY <1>2, <1>8, <2>2 DEF Apply, AtRest
    <3> QED
      BY <1>0, <1>8, <3>1 DEF Apply, BootstrapTypeOK
  <2> QED
    BY <2>1, <2>2
<1>9. ASSUME NEW o \in Operators, Run(o)
      PROVE  BootstrapTypeOK'
  <2> DEFINE c == NextOf(job[o].todo)
  <2>1. c \in Command /\ job[o].todo \in SUBSET Command
    BY <1>9, CommandAtHand DEF Run
  <2>2. CASE Results(c) = {}
    <3>1. job' \in [Operators -> Jobs]
      BY <1>2, <1>9, <2>2 DEF Run, AtRest
    <3> QED
      BY <1>0, <1>9, <2>2, <3>1 DEF Run, BootstrapTypeOK
  <2>3. CASE Results(c) # {}
    <3>1. world' \in Results(c) /\ Disturbs(o)
      BY <1>9, <2>3 DEF Run
    <3>2. Ends(o, "applied") \/ job' = [job EXCEPT ![o].todo = @ \ {c}]
      BY <1>9, <2>3 DEF Run
    <3>3. ASSUME job' = [job EXCEPT ![o].todo = @ \ {c}]
          PROVE  job' \in [Operators -> Jobs]
      <4>1. job[o] \in Jobs /\ job[o].todo \ {c} \in SUBSET Command
        BY <1>0, <2>1
      <4>2. [job[o] EXCEPT !.todo = job[o].todo \ {c}] \in Jobs
        BY <4>1, JobParts
      <4>3. job' = [job EXCEPT ![o] = [job[o] EXCEPT !.todo = job[o].todo \ {c}]]
        BY <3>3
      <4> QED
        BY <1>0, <4>2, <4>3
    <3>4. job' \in [Operators -> Jobs]
      BY <1>2, <3>2, <3>3 DEF AtRest
    <3>5. calm' \in [Operators -> BOOLEAN]
      BY <1>0, <3>1 DEF Disturbs
    <3>6. /\ world' \in [Profile -> {"absent", "other", "ready"}]
          /\ \A k \in Profile : world'[k] \in Forms(k)
      BY <2>1, <3>1, ResultsOfCommand
    <3>7. UNCHANGED <<facts, approved, faults, drift>>
      BY <1>9 DEF Run
    <3>8. \A k \in Profile : Forms(k)' = Forms(k)
      BY DEF Forms
    <3> QED
      BY <1>0, <3>4, <3>5, <3>6, <3>7 DEF BootstrapTypeOK
  <2> QED
    BY <2>2, <2>3
<1>10. ASSUME NEW o \in Operators, Fails(o)
       PROVE  BootstrapTypeOK'
  <2>1. job' \in [Operators -> Jobs]
    BY <1>2, <1>10 DEF Fails, AtRest
  <2>2. /\ world' \in [Profile -> {"absent", "other", "ready"}]
        /\ \A k \in Profile : world'[k] \in Forms(k)
    <3>1. CASE world' = world
      BY <1>0, <3>1
    <3>2. CASE world' # world
      <4>1. job[o].step = "run" /\ world' \in Results(NextOf(job[o].todo))
        BY <1>10, <3>2 DEF Fails
      <4> QED
        BY <4>1, CommandAtHand, ResultsOfCommand
    <3> QED
      BY <3>1, <3>2
  <2>3. faults' \in 0..MaxFaults
    BY <1>0, <1>10 DEF Fails
  <2> QED
    BY <1>0, <1>10, <2>1, <2>2, <2>3 DEF Fails, BootstrapTypeOK
<1>11. ASSUME NEW k \in Profile, Drift(k)
       PROVE  BootstrapTypeOK'
  <2>1. PICK form \in Forms(k) : world' = [world EXCEPT ![k] = form]
    BY <1>11 DEF Drift
  <2>2. form \in {"absent", "other", "ready"}
    BY DEF Forms
  <2>3. drift' \in 0..MaxDrift
    BY <1>0, <1>11 DEF Drift
  <2> QED
    BY <1>0, <1>11, <2>1, <2>2, <2>3 DEF Drift, BootstrapTypeOK
<1>12. ASSUME NEW fact \in Facts, Reconfigure(fact)
       PROVE  BootstrapTypeOK'
  <2>1. drift' \in 0..MaxDrift
    BY <1>0, <1>12 DEF Reconfigure
  <2>2. facts' \subseteq Facts
    BY <1>0, <1>12 DEF Reconfigure
  <2> QED
    BY <1>0, <1>12, <2>1, <2>2 DEF Reconfigure, BootstrapTypeOK
<1>13. CASE UNCHANGED vars
  BY <1>0, <1>13 DEF vars, BootstrapTypeOK
<1> QED
  BY <1>4, <1>5, <1>6, <1>7, <1>8, <1>9, <1>10, <1>11, <1>12, <1>13 DEF Next, Proceed

-----------------------------------------------------------------------------
\* A call to which nothing is done stays as sound as it was: what comes between
\* either leaves the environment alone or is remembered.
LEMMA Aside ==
  ASSUME NEW o \in Operators, Sound(o), job'[o] = job[o], approved'[o] = approved[o],
         calm'[o] => calm[o] /\ world' = world /\ facts' = facts
  PROVE  Sound(o)'
<1>1. calm'[o] => \A k \in Profile : Report(k)' = Report(k)
  BY DEF Report, Listings, Descriptions
<1>2. Found(o)'
  BY <1>1 DEF Sound, Found
<1>3. Checked(o)' /\ Vouched(o)'
  BY DEF Sound, Checked, Vouched
<1>4. Reviewed(o)'
  BY DEF Sound, Reviewed
<1>5. Workable(o)' /\ Stopped(o)'
  BY DEF Sound, Workable, Stopped
<1> QED
  BY <1>2, <1>3, <1>4, <1>5 DEF Sound

\* A call that begins, or ends other than by being verified or failing, promises
\* nothing yet or any more.
LEMMA AtEase ==
  ASSUME NEW o \in Operators,
         job'[o].step \in {"account", "idle", "planned", "refused", "applied"}
  PROVE  Sound(o)'
<1>1. \A j \in DOMAIN Methods : ~ Past(j, job'[o].step)
  <2> SUFFICES ASSUME NEW j \in DOMAIN Methods, NEW i \in DOMAIN Methods,
                      Methods[i] = job'[o].step
               PROVE  FALSE
    BY DEF Past
  <2>1. Methods[i] \in Range(Methods)
    BY DEF Range
  <2> QED
    BY <2>1, MethodsInOrder
<1>2. job'[o].step \notin Inspections
  BY MethodsInOrder DEF Inspections
<1> QED
  BY <1>1, <1>2 DEF Sound, Found, Checked, Vouched, Reviewed, Workable, Stopped

\* The inspection of an environment that nobody disturbs stays true.
LEMMA InspectSound ==
  ASSUME BootstrapTypeOK, NEW o \in Operators, Sound(o), Inspect(o)
  PROVE  Sound(o)'
<1> DEFINE m == job[o].step
<1>1. m \in {"account"} \cup Range(Methods)
  BY InspectInspects
<1>2. PICK seen \in [Profile -> Statuses], passed \in BOOLEAN : Inspected(o, m, seen, passed)
  BY InspectInspects
<1>3. /\ job'[o].step = Following(m) /\ job'[o].seen = seen /\ job'[o].passed = passed
      /\ UNCHANGED <<world, facts, approved>>
  <2>1. o \in DOMAIN job /\ job[o] \in Jobs
    BY DEF BootstrapTypeOK
  <2> QED
    BY <1>2, <2>1 DEF Inspected, Jobs
<1>4. Following(m) \in Inspections
  BY <1>1, FollowingOmitsNothing
<1>5. Following(m) \notin {"verified", "run", "failed"}
  BY <1>4, MethodsInOrder DEF Inspections
<1>6. \A k \in Profile : Report(k)' = Report(k)
  BY <1>3 DEF Report, Listings, Descriptions
<1>7. \A j \in DOMAIN Methods : Past(j, Following(m)) =>
        \/ Past(j, m) \/ Methods[j] = m
        \/ Methods[j] # "resource_iam" /\ Inspects[Methods[j]] \cap Profile = {}
  BY <1>1, FollowingOmitsNothing
<1>8. \A j \in DOMAIN Methods : Methods[j] # "account"
  BY MethodsInOrder DEF Range
<1>9. Found(o)'
  <2> SUFFICES ASSUME calm'[o], NEW j \in DOMAIN Methods, Past(j, Following(m)),
                      NEW k \in Inspects[Methods[j]] \cap Profile
               PROVE  seen[k] = Report(k)
    BY <1>3, <1>6 DEF Found
  <2>1. calm[o] /\ seen[k] = IF m # "account" /\ k \in Inspects[m]
                             THEN Report(k) ELSE job[o].seen[k]
    BY <1>2 DEF Inspected
  <2>2. CASE Methods[j] = m
    BY <1>8, <2>1, <2>2
  <2>3. CASE Past(j, m)
    BY <2>1, <2>3 DEF Sound, Found
  <2> QED
    BY <1>7, <2>2, <2>3
<1>10. Checked(o)'
  <2> SUFFICES ASSUME calm'[o], passed
               PROVE  /\ "account" \in facts
                      /\ Past(7, Following(m)) => "grants" \in facts
                      /\ Past(2, Following(m)) /\ "cluster" \in Profile =>
                           world.cluster = "absent" \/ "cluster" \in facts
    BY <1>3 DEF Checked
  <2>1. /\ calm[o]
        /\ m = "account" \/ job[o].passed
        /\ m = "account" => "account" \in facts
        /\ m = "resource_iam" => "grants" \in facts
        /\ m = "cluster" => world.cluster = "absent" \/ "cluster" \in facts
    BY <1>2 DEF Inspected
  <2>2. m # "account" => /\ "account" \in facts
                         /\ Past(7, m) => "grants" \in facts
                         /\ Past(2, m) /\ "cluster" \in Profile =>
                              world.cluster = "absent" \/ "cluster" \in facts
    BY <1>1, <2>1 DEF Sound, Checked, Inspections
  <2>3. m = "account" => ~ Past(7, m) /\ ~ Past(2, m)
    BY <1>8 DEF Past
  <2>4. 7 \in DOMAIN Methods /\ 2 \in DOMAIN Methods
    BY MethodsInOrder
  <2>5. Past(7, Following(m)) => Past(7, m) \/ m = "resource_iam"
    BY <1>7, <2>4, MethodsInOrder
  <2>6. Past(2, Following(m)) /\ "cluster" \in Profile => Past(2, m) \/ m = "cluster"
    <3>1. "cluster" \in Inspects["cluster"]
      BY DEF Inspects
    <3> QED
      BY <1>7, <2>4, <3>1, MethodsInOrder
  <2> QED
    BY <2>1, <2>2, <2>3, <2>5, <2>6
<1> QED
  BY <1>3, <1>5, <1>9, <1>10 DEF Sound, Vouched, Reviewed, Workable, Stopped

\* Every kind has its method, so that a call with its plan made has seen it all.
LEMMA AllSeen ==
  ASSUME NEW o \in Operators, Found(o), calm[o], job[o].step = "plan"
  PROVE  \A k \in Profile : job[o].seen[k] = Report(k)
<1> SUFFICES ASSUME NEW k \in Profile
             PROVE  job[o].seen[k] = Report(k)
  OBVIOUS
<1>1. \E m \in Range(Methods) : k \in Inspects[m]
  <2>1. k \in Range(Kinds)
    BY BootstrapAssumption
  <2>2. k \in {"api", "cluster", "registry", "firestore", "topic", "subscription",
               "gsa", "role", "namespace", "ksa", "workload-identity",
               "github-pool", "github-provider", "github-binding", "image"}
    BY <2>1, KindsInOrder
  <2>3. /\ "api" \in Inspects["apis"] /\ "cluster" \in Inspects["cluster"]
        /\ "registry" \in Inspects["registry"] /\ "firestore" \in Inspects["firestore"]
        /\ "topic" \in Inspects["pubsub"] /\ "subscription" \in Inspects["pubsub"]
        /\ "gsa" \in Inspects["identities"] /\ "role" \in Inspects["identities"]
        /\ "namespace" \in Inspects["kubernetes_identities"]
        /\ "ksa" \in Inspects["kubernetes_identities"]
        /\ "workload-identity" \in Inspects["workload_identity"]
        /\ "github-pool" \in Inspects["github"] /\ "github-provider" \in Inspects["github"]
        /\ "github-binding" \in Inspects["github"] /\ "image" \in Inspects["images"]
    BY DEF Inspects
  <2> QED
    BY <2>2, <2>3, MethodsInOrder
<1>2. PICK j \in DOMAIN Methods : k \in Inspects[Methods[j]]
  BY <1>1 DEF Range
<1> QED
  BY <1>2 DEF Found, Past

\* What is reported as compatible is as the profile has it, and what is missing
\* is not there, but for the two kinds that are reported so when they differ.
LEMMA ReportsMean ==
  ASSUME BootstrapTypeOK, NEW k \in Profile
  PROVE  /\ Report(k) \in Statuses
         /\ Report(k) = "compatible" => world[k] = "ready"
         /\ Report(k) = "missing" => \/ world[k] = "absent"
                                     \/ k \in Reported /\ world[k] = "other"
<1>1. world[k] \in Forms(k) /\ world[k] \in {"absent", "other", "ready"}
  BY DEF BootstrapTypeOK
<1>2. Report(k) \in Statuses
  BY ReportsAreStatuses DEF Report
<1>3. Listings[k] = Listed(k, world[k]) /\ Descriptions[k] = Described(k, world[k])
  BY DEF Listings, Descriptions
<1>4. CASE k \in Listing
  <2>1. world[k] = "other" => k \in Reported
    BY <1>1, <1>4 DEF Forms, Differing, Listing, Reported
  <2> QED
    BY <1>1, <1>2, <1>3, <1>4, <2>1 DEF Report, Listed
<1>5. CASE k \notin Listing
  BY <1>1, <1>2, <1>3, <1>5 DEF Report, Described
<1> QED
  BY <1>4, <1>5

\* A call ends.
LEMMA Ended ==
  ASSUME BootstrapTypeOK, NEW o \in Operators, NEW step, Ends(o, step)
  PROVE  job'[o].step = step
BY DEF BootstrapTypeOK, Ends, Fresh

LEMMA VerifySound ==
  ASSUME BootstrapTypeOK, NEW o \in Operators, Sound(o), Verify(o)
  PROVE  Sound(o)'
<1> DEFINE plan == PlanOf(job[o].seen)
<1>1. /\ job[o].step = "plan"
      /\ UNCHANGED <<world, facts, approved, calm>>
  BY DEF Verify
<1>2. PICK step \in {"refused", "verified"} :
        /\ step = "verified" => plan = NoPlan /\ job[o].passed
        /\ Ends(o, step)
  BY DEF Verify
<1>3. job'[o].step = step
  BY <1>2, Ended
<1>4. CASE step = "refused"
  BY <1>3, <1>4, AtEase
<1>5. CASE step = "verified"
  <2>1. plan = NoPlan /\ job[o].passed
    BY <1>2, <1>5
  <2>2. ASSUME calm[o]
        PROVE  /\ \A k \in Profile : world[k] = "ready"
               /\ {"account", "grants"} \subseteq facts
               /\ ("cluster" \in Profile => "cluster" \in facts)
    <3>1. ASSUME NEW k \in Profile
          PROVE  world[k] = "ready"
      <4>1. plan.missing = {} /\ plan.incompatible = {}
        BY <2>1 DEF NoPlan
      <4>2. job[o].seen[k] # "missing" /\ job[o].seen[k] # "incompatible"
        BY <4>1 DEF PlanOf
      <4>3. job[o].seen[k] = Report(k)
        BY <1>1, <2>2, AllSeen DEF Sound
      <4> QED
        BY <4>2, <4>3, ReportsMean DEF Statuses
    <3>2. Past(7, "plan") /\ Past(2, "plan") /\ "plan" \in Inspections
      BY DEF Past, Inspections
    <3>3. /\ "account" \in facts /\ "grants" \in facts
          /\ "cluster" \in Profile => world.cluster = "absent" \/ "cluster" \in facts
      BY <1>1, <2>1, <2>2, <3>2 DEF Sound, Checked
    <3> QED
      BY <3>1, <3>3
  <2>3. Vouched(o)'
    BY <1>1, <2>2 DEF Vouched
  <2>4. \A j \in DOMAIN Methods : ~ Past(j, "verified")
    BY MethodsInOrder DEF Past, Range
  <2>5. "verified" \notin Inspections
    BY MethodsInOrder DEF Inspections
  <2> QED
    BY <1>3, <1>5, <2>3, <2>4, <2>5
    DEF Sound, Found, Checked, Reviewed, Workable, Stopped
<1> QED
  BY <1>4, <1>5

\* The commands of a plan.
LEMMA CommandsOfPlan ==
  ASSUME NEW seen
  PROVE  /\ PlanOf(seen).missing # {} => Commands(PlanOf(seen)) # {}
         /\ \A c \in Commands(PlanOf(seen)) :
              /\ c.on \in PlanOf(seen).missing
              /\ c.does = "annotate" => c.on \in {"ksa", "workload-identity"}
         /\ \A k \in Profile : Create(k) \in Commands(PlanOf(seen)) <=>
                                 k \in PlanOf(seen).missing
<1> DEFINE missing == PlanOf(seen).missing
<1>1. Commands(PlanOf(seen)) = UNION {CommandsFor(k) : k \in missing}
  BY DEF Commands
<1>2. \A k : Create(k) \in CommandsFor(k)
  BY DEF CommandsFor, Create
<1>3. \A k : \A c \in CommandsFor(k) :
        c.on = k /\ (c.does = "annotate" => k \in {"ksa", "workload-identity"})
  BY DEF CommandsFor
<1>4. \A k : Create(k).on = k
  BY DEF Create
<1> HIDE DEF missing
<1>5. missing # {} => Commands(PlanOf(seen)) # {}
  BY <1>1, <1>2
<1>6. \A c \in Commands(PlanOf(seen)) :
        c.on \in missing /\ (c.does = "annotate" => c.on \in {"ksa", "workload-identity"})
  BY <1>1, <1>3
<1>7. \A k \in Profile : Create(k) \in Commands(PlanOf(seen)) <=> k \in missing
  BY <1>1, <1>2, <1>4, <1>6
<1> QED
  BY <1>5, <1>6, <1>7 DEF missing

LEMMA ApplySound ==
  ASSUME BootstrapTypeOK, NEW o \in Operators, Sound(o), Chosen(o),
         NEW labels, Apply(o, labels)
  PROVE  Sound(o)'
<1> DEFINE plan == PlanOf(job[o].seen)
           commands == Commands(plan)
<1>1. /\ job[o].step = "plan" /\ job[o].mode = "apply"
      /\ UNCHANGED <<world, facts, approved, calm>>
  BY DEF Apply
<1>2. CASE ~ Applies(o, plan, labels)
  <2>1. job'[o].step = "refused"
    BY <1>2, Ended DEF Apply
  <2> QED
    BY <2>1, AtEase
<1>3. CASE Applies(o, plan, labels)
  <2>1. plan = approved[o] /\ plan.incompatible = {} /\ plan.missing # {}
    BY <1>1, <1>3 DEF Applies, Chosen
  <2>2. job'[o].step = "run" /\ job'[o].todo = commands
    <3>1. job' = [job EXCEPT ![o] = [Fresh("apply", "run") EXCEPT !.todo = commands]]
      BY <1>3 DEF Apply
    <3>2. job'[o] = [Fresh("apply", "run") EXCEPT !.todo = commands]
      BY <3>1 DEF BootstrapTypeOK
    <3> QED
      BY <3>2, FreshIsJob, PlansOfCommands
  <2>3. Reviewed(o)'
    <3>1. commands # {}
      BY <2>1, CommandsOfPlan
    <3>2. \A c \in commands :
            /\ c.on \in plan.missing
            /\ c.does = "annotate" => c.on \in {"ksa", "workload-identity"}
      BY CommandsOfPlan
    <3>3. approved'[o] = plan
      BY <1>1, <2>1
    <3> HIDE DEF plan, commands
    <3> QED
      BY <2>1, <2>2, <3>1, <3>2, <3>3 DEF Reviewed
  <2>4. Workable(o)'
    <3> SUFFICES ASSUME calm[o], NEW k \in Profile
                 PROVE  IF Create(k) \in commands
                        THEN \/ world[k] = "absent" \/ k \in Repeatable
                             \/ k \in Reported /\ world[k] = "other"
                        ELSE world[k] # "absent"
      BY <1>1, <2>2 DEF Workable
    <3>1. job[o].seen[k] = Report(k)
      BY <1>1, AllSeen DEF Sound
    <3>2. Create(k) \in commands <=> k \in plan.missing
      BY CommandsOfPlan
    <3>3. k \in plan.missing <=> Report(k) = "missing"
      BY <2>1, <3>1 DEF PlanOf
    <3>4. Report(k) # "incompatible"
      BY <2>1, <3>1 DEF PlanOf
    <3>5. CASE Report(k) = "missing"
      BY <3>2, <3>3, <3>5, ReportsMean
    <3>6. CASE Report(k) = "compatible"
      BY <3>2, <3>3, <3>6, ReportsMean
    <3> QED
      BY <3>4, <3>5, <3>6, ReportsMean DEF Statuses
  <2>5. \A j \in DOMAIN Methods : ~ Past(j, "run")
    BY MethodsInOrder DEF Past, Range
  <2>6. "run" \notin Inspections
    BY MethodsInOrder DEF Inspections
  <2> QED
    BY <2>2, <2>3, <2>4, <2>5, <2>6 DEF Sound, Found, Checked, Vouched, Stopped
<1> QED
  BY <1>2, <1>3

\* The kinds are in an order in which nothing comes before what it needs.
LEMMA NeedsComeFirst ==
  ASSUME NEW k \in Profile, NEW n \in Needs(k)
  PROVE  Place(n) < Place(k)
<1>1. k \in {"api", "cluster", "registry", "firestore", "topic", "subscription",
             "gsa", "role", "namespace", "ksa", "workload-identity",
             "github-pool", "github-provider", "github-binding", "image"}
  BY BootstrapAssumption, KindsInOrder
<1>2. CASE k \in {"registry", "firestore", "topic", "gsa", "cluster", "github-pool"}
  <2>1. n = "api"
    BY <1>2 DEF Needs, Inside
  <2> QED
    BY <1>2, <2>1, KindsInOrder
<1>3. CASE k \in {"role", "workload-identity", "github-binding"}
  <2>1. n = "gsa"
    BY <1>3 DEF Needs, Inside
  <2> QED
    BY <1>3, <2>1, KindsInOrder
<1>4. CASE k \in {"api", "subscription", "namespace", "ksa", "github-provider", "image"}
  <2>1. /\ k # "api"
        /\ k = "subscription" => n = "topic"
        /\ k = "namespace" => n = "cluster"
        /\ k = "ksa" => n = "namespace"
        /\ k = "github-provider" => n = "github-pool"
        /\ k = "image" => n = "registry"
    BY <1>4 DEF Needs, Inside
  <2> QED
    BY <1>4, <2>1, KindsInOrder
<1> QED
  BY <1>1, <1>2, <1>3, <1>4

\* When a command is next, what it needs is there, and if nothing came between
\* it succeeds, unless its resource was there though reported as missing.
LEMMA NextSucceeds ==
  ASSUME BootstrapTypeOK, NEW o \in Operators, Sound(o), calm[o], job[o].step = "run"
  PROVE  \/ Results(NextOf(job[o].todo)) # {}
         \/ \E k \in Reported \cap Profile : world[k] = "other"
<1> DEFINE todo == job[o].todo
           c == NextOf(todo)
<1>1. todo \in SUBSET Command /\ todo # {} /\ c \in todo /\ c \in Command
  BY CommandAtHand DEF Sound
<1>2. \A d \in todo : Rank(c) <= Rank(d)
  BY <1>1, NextIsFirst
<1>3. c.on \in Profile /\ c.does \in {"create", "annotate"}
  BY <1>1 DEF Command
<1>4. \A k \in Profile : Place(k) \in 1..15
  BY BootstrapAssumption, KindsInOrder
<1>5. \A k \in Profile : Rank(Create(k)) = 2 * Place(k)
  BY <1>4 DEF Rank, Create
<1>6. ASSUME NEW k \in Profile, 2 * Place(k) < Rank(c)
      PROVE  world[k] # "absent"
  <2>1. Create(k) \notin todo
    <3>1. Rank(Create(k)) < Rank(c) /\ Rank(Create(k)) \in Int /\ Rank(c) \in Int
      BY <1>3, <1>4, <1>5, <1>6 DEF Rank
    <3> QED
      BY <1>2, <3>1
  <2> QED
    BY <2>1 DEF Sound, Workable
<1>7. CASE c.does = "annotate"
  <2>1. c.on \in {"ksa", "workload-identity"}
    BY <1>1, <1>7 DEF Sound, Reviewed
  <2>2. "ksa" \in Profile
    BY <1>3, <2>1, BootstrapAssumption
  <2>3. 2 * Place("ksa") < Rank(c)
    BY <1>7, <2>1, KindsInOrder DEF Rank
  <2>4. world.ksa # "absent"
    BY <1>6, <2>2, <2>3
  <2> QED
    BY <1>7, <2>4 DEF Results
<1>8. CASE c.does = "create"
  <2>1. c = Create(c.on)
    BY <1>1, <1>8 DEF Command, Create
  <2>2. \A n \in Needs(c.on) \cap Profile : world[n] # "absent"
    <3> SUFFICES ASSUME NEW n \in Needs(c.on) \cap Profile
                 PROVE  2 * Place(n) < Rank(c)
      BY <1>6
    <3>1. Place(n) < Place(c.on)
      BY <1>3, NeedsComeFirst
    <3>2. Place(n) \in 1..15 /\ Place(c.on) \in 1..15
      BY <1>3, <1>4
    <3>3. Rank(c) = 2 * Place(c.on)
      BY <1>3, <1>5, <2>1
    <3> QED
      BY <3>1, <3>2, <3>3
  <2>3. \/ world[c.on] = "absent" \/ c.on \in Repeatable
        \/ c.on \in Reported /\ world[c.on] = "other"
    BY <1>1, <1>3, <2>1 DEF Sound, Workable
  <2>4. CASE world[c.on] = "absent" \/ c.on \in Repeatable
    <3>1. Results(c) = {[world EXCEPT ![c.on] = form] : form \in Made(c.on)}
      BY <1>8, <2>2, <2>4 DEF Results
    <3>2. Made(c.on) # {}
      BY DEF Made
    <3> QED
      BY <3>1, <3>2
  <2> QED
    BY <1>3, <2>3, <2>4
<1> QED
  BY <1>3, <1>7, <1>8

LEMMA RunSound ==
  ASSUME BootstrapTypeOK, NEW o \in Operators, Sound(o), Run(o)
  PROVE  Sound(o)'
<1> DEFINE todo == job[o].todo
           c == NextOf(todo)
<1>1. job[o].step = "run" /\ UNCHANGED <<facts, approved>>
  BY DEF Run
<1>2. todo \in SUBSET Command /\ todo # {} /\ c \in todo /\ c \in Command
  BY <1>1, CommandAtHand DEF Sound
<1>3. CASE Results(c) = {}
  <2>1. job'[o].step = "failed" /\ UNCHANGED <<world, calm>>
    BY <1>3, Ended DEF Run
  <2>2. Stopped(o)'
    BY <1>1, <1>3, <2>1, NextSucceeds DEF Stopped
  <2>3. \A j \in DOMAIN Methods : ~ Past(j, "failed")
    BY MethodsInOrder DEF Past, Range
  <2>4. "failed" \notin Inspections
    BY MethodsInOrder DEF Inspections
  <2> QED
    BY <2>1, <2>2, <2>3, <2>4 DEF Sound, Found, Checked, Vouched, Reviewed, Workable
<1>4. CASE Results(c) # {} /\ todo = {c}
  <2>1. job'[o].step = "applied"
    BY <1>4, Ended DEF Run
  <2> QED
    BY <2>1, AtEase
<1>5. CASE Results(c) # {} /\ todo # {c}
  <2>1. world' \in Results(c) /\ Disturbs(o) /\ job' = [job EXCEPT ![o].todo = @ \ {c}]
    BY <1>5 DEF Run
  <2>2. job'[o].step = "run" /\ job'[o].todo = todo \ {c}
    BY <1>1, <2>1 DEF BootstrapTypeOK, Jobs
  <2>3. Reviewed(o)'
    <3>1. todo \ {c} # {}
      BY <1>2, <1>5
    <3> QED
      BY <1>1, <2>2, <3>1 DEF Sound, Reviewed
  <2>4. Workable(o)'
    <3> SUFFICES ASSUME calm'[o], NEW k \in Profile
                 PROVE  IF Create(k) \in todo \ {c}
                        THEN \/ world'[k] = "absent" \/ k \in Repeatable
                             \/ k \in Reported /\ world'[k] = "other"
                        ELSE world'[k] # "absent"
      BY <2>2 DEF Workable
    <3>1. calm[o]
      BY <2>1 DEF Disturbs
    <3>2. IF Create(k) \in todo
          THEN \/ world[k] = "absent" \/ k \in Repeatable
               \/ k \in Reported /\ world[k] = "other"
          ELSE world[k] # "absent"
      BY <1>1, <3>1 DEF Sound, Workable
    <3>3. /\ world'[k] = world[k] \/ world'[k] # "absent"
          /\ c.does = "create" /\ k # c.on => world'[k] = world[k]
          /\ c.does = "create" => world'[c.on] # "absent"
          /\ c.does = "annotate" => /\ k # "ksa" => world'[k] = world[k]
                                    /\ world.ksa # "absent"
      BY <1>2, <2>1, ResultsOfCommand
    <3>4. CASE c.does = "create"
      <4>1. c = Create(c.on) /\ (k # c.on => Create(k) # c)
        BY <1>2, <3>4 DEF Command, Create
      <4>2. CASE k = c.on
        BY <3>3, <3>4, <4>1, <4>2
      <4>3. CASE k # c.on
        BY <3>2, <3>3, <3>4, <4>1, <4>3
      <4> QED
        BY <4>2, <4>3
    <3>5. CASE c.does = "annotate"
      <4>1. Create(k) # c
        BY <3>5 DEF Create
      <4>2. CASE k # "ksa"
        BY <3>2, <3>3, <3>5, <4>1, <4>2
      <4>3. CASE k = "ksa"
        <5>1. Create(k) \notin todo
          BY <3>2, <3>3, <3>5, <4>3 DEF Repeatable, Reported
        <5>2. world'[k] # "absent"
          BY <3>3, <3>5, <4>3
        <5> QED
          BY <5>1, <5>2
      <4> QED
        BY <4>2, <4>3
    <3>6. c.does \in {"create", "annotate"}
      BY <1>2 DEF Command
    <3> QED
      BY <3>4, <3>5, <3>6
  <2>5. \A j \in DOMAIN Methods : ~ Past(j, "run")
    BY MethodsInOrder DEF Past, Range
  <2>6. "run" \notin Inspections
    BY MethodsInOrder DEF Inspections
  <2> QED
    BY <2>2, <2>3, <2>4, <2>5, <2>6 DEF Sound, Found, Checked, Vouched, Stopped
<1> QED
  BY <1>3, <1>4, <1>5

LEMMA FailsSound ==
  ASSUME BootstrapTypeOK, NEW o \in Operators, Fails(o)
  PROVE  Sound(o)'
<1>1. job'[o].step = "failed" /\ ~ calm'[o]
  BY Ended DEF Fails
<1> QED
  BY <1>1 DEF Sound, Found, Checked, Vouched, Reviewed, Workable, Stopped

-----------------------------------------------------------------------------
\* A step of one call leaves the others as they are, and what it does to the
\* environment it does where they remember it.
LEMMA OthersAside ==
  ASSUME BootstrapTypeOK, NEW p \in Operators, NEW o \in Operators \ {p},
         (\E mode \in {"plan", "apply", "verify"} : Start(p, mode)) \/ Proceed(p) \/ Fails(p)
  PROVE  /\ job'[o] = job[o] /\ approved'[o] = approved[o]
         /\ calm'[o] => calm[o] /\ world' = world /\ facts' = facts
<1>0. /\ job \in [Operators -> Jobs] /\ approved \in [Operators -> Plans]
      /\ calm \in [Operators -> BOOLEAN]
  BY DEF BootstrapTypeOK
<1>1. ASSUME NEW mode, Start(p, mode)
      PROVE  /\ job'[o] = job[o] /\ approved'[o] = approved[o]
             /\ calm'[o] => calm[o] /\ world' = world /\ facts' = facts
  BY <1>0, <1>1 DEF Start
<1>2. CASE Inspect(p)
  <2>1. PICK seen, passed : Inspected(p, job[p].step, seen, passed)
    BY <1>2, InspectInspects
  <2> QED
    BY <1>0, <2>1 DEF Inspected
<1>3. CASE Plan(p)
  BY <1>0, <1>3 DEF Plan, Ends
<1>4. CASE Verify(p)
  BY <1>0, <1>4 DEF Verify, Ends
<1>5. ASSUME NEW labels, Apply(p, labels)
      PROVE  /\ job'[o] = job[o] /\ approved'[o] = approved[o]
             /\ calm'[o] => calm[o] /\ world' = world /\ facts' = facts
  BY <1>0, <1>5 DEF Apply, Ends
<1>6. CASE Run(p)
  <2> DEFINE c == NextOf(job[p].todo)
  <2>1. CASE Results(c) = {}
    BY <1>0, <1>6, <2>1 DEF Run, Ends
  <2>2. CASE Results(c) # {}
    <3>1. ~ calm'[o]
      BY <1>6, <2>2 DEF Run, Disturbs
    <3>2. Ends(p, "applied") \/ job' = [job EXCEPT ![p].todo = @ \ {c}]
      BY <1>6, <2>2 DEF Run
    <3>3. job'[o] = job[o]
      BY <1>0, <3>2 DEF Ends
    <3> QED
      BY <1>6, <3>1, <3>3 DEF Run
  <2> QED
    BY <2>1, <2>2
<1>7. CASE Fails(p)
  BY <1>0, <1>7 DEF Fails, Ends
<1> QED
  BY <1>1, <1>2, <1>3, <1>4, <1>5, <1>6, <1>7 DEF Proceed

\* A call that applies goes on to apply the plan it was begun for.
LEMMA ChosenStep ==
  ASSUME BootstrapTypeOK, NEW o \in Operators, Chosen(o),
         (\E mode \in {"plan", "apply", "verify"} : Start(o, mode)) \/ Proceed(o) \/ Fails(o)
  PROVE  Chosen(o)'
<1>0. job \in [Operators -> Jobs] /\ job[o] \in Jobs
  BY DEF BootstrapTypeOK
<1>1. ASSUME NEW step, Ends(o, step), UNCHANGED approved
      PROVE  Chosen(o)'
  BY <1>0, <1>1 DEF Ends, Fresh, Chosen
<1>2. ASSUME NEW mode \in {"plan", "apply", "verify"}, Start(o, mode)
      PROVE  Chosen(o)'
  <2>1. job'[o].mode = mode
    BY <1>0, <1>2, FreshIsJob DEF Start
  <2> QED
    BY <1>2, <2>1 DEF Start, Chosen
<1>3. CASE Inspect(o)
  <2>1. PICK seen, passed : Inspected(o, job[o].step, seen, passed)
    BY <1>3, InspectInspects
  <2>2. job'[o].mode = job[o].mode /\ approved' = approved
    BY <1>0, <2>1 DEF Inspected, Jobs
  <2> QED
    BY <2>2 DEF Chosen
<1>4. CASE Plan(o)
  <2>1. job'[o].mode = "plan"
    BY <1>0, <1>4 DEF Plan, Ends, Fresh
  <2> QED
    BY <2>1 DEF Chosen
<1>5. CASE Verify(o)
  BY <1>1, <1>5 DEF Verify
<1>6. ASSUME NEW labels, Apply(o, labels)
      PROVE  Chosen(o)'
  <2>1. job[o].mode = "apply" /\ approved' = approved
    BY <1>6 DEF Apply
  <2> QED
    BY <2>1 DEF Chosen
<1>7. CASE Run(o)
  <2> DEFINE c == NextOf(job[o].todo)
  <2>1. approved' = approved
    BY <1>7 DEF Run
  <2>2. (\E step : Ends(o, step)) \/ job' = [job EXCEPT ![o].todo = @ \ {c}]
    BY <1>7 DEF Run
  <2>3. CASE job' = [job EXCEPT ![o].todo = @ \ {c}]
    <3>1. job'[o].mode = job[o].mode
      BY <1>0, <2>3 DEF Jobs
    <3> QED
      BY <2>1, <3>1 DEF Chosen
  <2> QED
    BY <1>1, <2>1, <2>2, <2>3
<1>8. CASE Fails(o)
  BY <1>1, <1>8 DEF Fails
<1> QED
  BY <1>2, <1>3, <1>4, <1>5, <1>6, <1>7, <1>8 DEF Proceed

\* A step of a call leaves it sound.
LEMMA OwnStep ==
  ASSUME BootstrapTypeOK, NEW o \in Operators, Sound(o), Chosen(o),
         (\E mode \in {"plan", "apply", "verify"} : Start(o, mode)) \/ Proceed(o) \/ Fails(o)
  PROVE  Sound(o)' /\ Chosen(o)'
<1>1. Chosen(o)'
  BY ChosenStep
<1>2. ASSUME NEW mode \in {"plan", "apply", "verify"}, Start(o, mode)
      PROVE  Sound(o)'
  <2>1. job'[o].step = "account"
    BY <1>2, FreshIsJob DEF Start, BootstrapTypeOK
  <2> QED
    BY <2>1, AtEase
<1>3. CASE Inspect(o)
  BY <1>1, <1>3, InspectSound
<1>4. CASE Plan(o)
  <2>1. job'[o].step = "planned"
    BY <1>4, Ended DEF Plan
  <2> QED
    BY <1>1, <2>1, AtEase
<1>5. CASE Verify(o)
  BY <1>1, <1>5, VerifySound
<1>6. CASE \E labels \in Offers : Apply(o, labels)
  BY <1>1, <1>6, ApplySound
<1>7. CASE Run(o)
  BY <1>1, <1>7, RunSound
<1>8. CASE Fails(o)
  BY <1>1, <1>8, FailsSound
<1> QED
  BY <1>1, <1>2, <1>3, <1>4, <1>5, <1>6, <1>7, <1>8 DEF Proceed

LEMMA InitBootstrap == Init => BootstrapInvariant
<1> SUFFICES ASSUME Init
             PROVE  BootstrapInvariant
  OBVIOUS
<1>1. \A o \in Operators : job[o] = Fresh("plan", "idle")
  BY DEF Init
<1>2. \A o \in Operators : job[o].step = "idle" /\ job[o].mode = "plan"
  BY <1>1, FreshIsJob DEF AtRest
<1>3. BootstrapTypeOK
  <2>1. job \in [Operators -> Jobs]
    BY FreshIsJob DEF Init, AtRest
  <2>2. world \in [Profile -> {"absent", "other", "ready"}]
    BY DEF Init
  <2>3. \A k \in Profile : world[k] \in Forms(k)
    BY DEF Init, Forms
  <2>4. approved \in [Operators -> Plans]
    BY DEF Init, NoPlan, Plans
  <2>5. faults \in 0..MaxFaults /\ drift \in 0..MaxDrift
    BY BootstrapAssumption DEF Init
  <2> QED
    BY <2>1, <2>2, <2>3, <2>4, <2>5 DEF Init, BootstrapTypeOK
<1>4. \A j \in DOMAIN Methods : ~ Past(j, "idle")
  BY MethodsInOrder DEF Past, Range
<1>5. "idle" \notin Inspections
  BY MethodsInOrder DEF Inspections
<1> QED
  BY <1>2, <1>3, <1>4, <1>5
  DEF BootstrapInvariant, Sound, Found, Checked, Vouched, Reviewed, Workable, Stopped, Chosen

LEMMA NextBootstrap == BootstrapInvariant /\ [Next]_vars => BootstrapInvariant'
<1> SUFFICES ASSUME BootstrapInvariant, [Next]_vars
             PROVE  BootstrapInvariant'
  OBVIOUS
<1>0. BootstrapTypeOK /\ \A o \in Operators : Sound(o) /\ Chosen(o)
  BY DEF BootstrapInvariant
<1>1. BootstrapTypeOK'
  BY <1>0, TypeStep DEF Sound
<1>2. ASSUME NEW o \in Operators
      PROVE  Sound(o)' /\ Chosen(o)'
  <2>0. Sound(o) /\ Chosen(o)
    BY <1>0
  <2>1. ASSUME job'[o] = job[o], approved'[o] = approved[o],
               calm'[o] => calm[o] /\ world' = world /\ facts' = facts
        PROVE  Sound(o)' /\ Chosen(o)'
    <3>1. Sound(o)'
      BY <2>0, <2>1, Aside
    <3>2. Chosen(o)'
      BY <2>0, <2>1 DEF Chosen
    <3> QED
      BY <3>1, <3>2
  <2>2. ASSUME NEW p \in Operators,
               \/ \E mode \in {"plan", "apply", "verify"} : Start(p, mode)
               \/ Proceed(p) \/ Fails(p)
        PROVE  Sound(o)' /\ Chosen(o)'
    <3>1. CASE p = o
      BY <1>0, <2>0, <2>2, <3>1, OwnStep
    <3>2. CASE p # o
      BY <1>0, <2>1, <2>2, <3>2, OthersAside
    <3> QED
      BY <3>1, <3>2
  <2>3. ASSUME NEW k \in Profile, Drift(k)
        PROVE  Sound(o)' /\ Chosen(o)'
    BY <2>1, <2>3 DEF Drift
  <2>4. ASSUME NEW fact \in Facts, Reconfigure(fact)
        PROVE  Sound(o)' /\ Chosen(o)'
    BY <2>1, <2>4 DEF Reconfigure
  <2>5. CASE UNCHANGED vars
    BY <2>1, <2>5 DEF vars
  <2> QED
    BY <2>2, <2>3, <2>4, <2>5 DEF Next
<1> QED
  BY <1>1, <1>2 DEF BootstrapInvariant

LEMMA AlwaysBootstrap == Spec => []BootstrapInvariant
BY InitBootstrap, NextBootstrap, PTL DEF Spec

-----------------------------------------------------------------------------
(* Theorems *)

\* The variables keep their types, in particular every resource has a form that
\* a resource of its kind can have.
THEOREM TypeCorrect == Spec => []BootstrapTypeOK
<1>1. BootstrapInvariant => BootstrapTypeOK
  BY DEF BootstrapInvariant
<1> QED
  BY <1>1, AlwaysBootstrap, PTL

\* The requirements come in an order that works, whatever of whichever profile
\* is there already: a call in which nothing else fails or comes between fails
\* for a resource that is there and reported as missing, or not at all.
THEOREM OrderAlwaysSuffices == Spec => []OrderSuffices
<1>1. BootstrapInvariant => OrderSuffices
  BY DEF BootstrapInvariant, Sound, Stopped, Reported, OrderSuffices
<1> QED
  BY <1>1, AlwaysBootstrap, PTL

\* What verify vouches for, with nothing in between, is complete: a method of
\* the inspector looks at every kind, and nothing that differs looks compatible.
THEOREM VerifiedAlwaysComplete == Spec => []VerifiedIsComplete
<1>1. BootstrapInvariant => VerifiedIsComplete
  BY DEF BootstrapInvariant, Sound, Vouched, VerifiedIsComplete
<1> QED
  BY <1>1, AlwaysBootstrap, PTL

\* However the environment changes between the review and the call and while the
\* call runs, a command is one of the plan that was reviewed.
THEOREM OnlyReviewedRuns == Spec => OnlyWhatWasReviewed
<1>1. ASSUME BootstrapInvariant, NEW o \in Operators, job[o].step = "run"
      PROVE  /\ NextOf(job[o].todo).on \in approved[o].missing
             /\ approved[o].incompatible = {}
  <2>1. BootstrapTypeOK /\ Reviewed(o)
    BY <1>1 DEF BootstrapInvariant, Sound
  <2>2. NextOf(job[o].todo) \in job[o].todo
    BY <1>1, <2>1, CommandAtHand
  <2> QED
    BY <1>1, <2>1, <2>2 DEF Reviewed
<1>2. BootstrapInvariant /\ [Next]_vars =>
        [\A o \in Operators : job[o].step = "run" /\ world' # world /\ job'[o] # job[o] =>
           /\ NextOf(job[o].todo).on \in approved[o].missing
           /\ approved[o].incompatible = {}]_vars
  BY <1>1
<1> QED
  BY <1>2, AlwaysBootstrap, PTL DEF Spec, OnlyWhatWasReviewed

=============================================================================
