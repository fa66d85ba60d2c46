------------------------------ MODULE Bootstrap ------------------------------
(***************************************************************************)
(* The GKE environment bootstrap: an operator has the environment          *)
(* inspected and planned, reviews the plan, and has it applied by a second *)
(* call that inspects and plans again (bootstrap/cli.py, inspector.py and  *)
(* planner.py); a third kind of call verifies the result.                  *)
(*                                                                         *)
(* A resource stands for all the resources of one kind of the profile.     *)
(* Every method of the inspector reads at a time of its own, and every     *)
(* command of a plan runs at its own, so that other operators and other    *)
(* hands come in between.                                                  *)
(***************************************************************************)
EXTENDS Integers, Functions

CONSTANTS
  Operators,   \* calls of the bootstrap at one time
  Profile,     \* the kinds of resources the deployment profile asks for
  ReuseOnly,   \* cluster.mode = "reuse-only"
  \* Bounds of the model.
  Standing,    \* kinds that are there from the start and are not deleted
  MaxFaults,   \* reads and commands that fail
  MaxDrift     \* changes by other hands

VARIABLES
  world,       \* world[k]: the form the resource k has
  facts,       \* what else preflight checks and finds in order
  job,         \* job[o]: the call operator o makes
  approved,    \* approved[o]: the plan o has reviewed, by its hash
  calm,        \* calm[o]: nothing came between since the call began
  faults,
  drift

vars == <<world, facts, job, approved, calm, faults, drift>>

\* Mutant: Kubernetes service accounts come before their namespaces.
KindsReordered == <<"api", "cluster", "registry", "firestore", "topic", "subscription",
                    "gsa", "role", "ksa", "namespace", "workload-identity",
                    "github-pool", "github-provider", "github-binding", "image">>

\* requirements, in the order of their actions.
Kinds == <<"api", "cluster", "registry", "firestore", "topic", "subscription",
           "gsa", "role", "namespace", "ksa", "workload-identity",
           "github-pool", "github-provider", "github-binding", "image">>

Place(k) == CHOOSE i \in DOMAIN Kinds : Kinds[i] = k

ASSUME BootstrapAssumption ==
  /\ Profile \subseteq Range(Kinds) /\ Standing \subseteq Profile
  /\ "workload-identity" \in Profile => "ksa" \in Profile
  /\ ReuseOnly \in BOOLEAN
  /\ MaxFaults \in Nat /\ MaxDrift \in Nat

\* A resource may be there and not be what the profile asks for: a cluster that
\* is not running, a subscription with other settings, a Kubernetes service
\* account without its annotation, a disabled Google one, another digest.
Differing == {"cluster", "registry", "firestore", "subscription", "gsa", "ksa",
              "github-pool", "github-provider", "image"}

Forms(k) == {"absent", "ready"} \cup (IF k \in Differing THEN {"other"} ELSE {})

\* What the resource is part of, and cannot be there without.
Inside(k) ==
  CASE k = "namespace" -> {"cluster"}
    [] k = "ksa" -> {"namespace"}
    [] k \in {"role", "workload-identity", "github-binding"} -> {"gsa"}
    [] k = "github-provider" -> {"github-pool"}
    [] k = "image" -> {"registry"}
    [] OTHER -> {}

Possible(w) ==
  \A k \in Profile :
    w[k] # "absent" => \A outer \in Inside(k) \cap Profile : w[outer] # "absent"

Statuses == {"missing", "incompatible", "compatible"}

Methods == <<"apis", "cluster", "registry", "firestore", "pubsub", "identities",
             "resource_iam", "kubernetes_identities", "workload_identity", "github", "images">>

Inspects ==
  [apis                  |-> {"api"},
   cluster               |-> {"cluster"},
   registry              |-> {"registry"},
   firestore             |-> {"firestore"},
   pubsub                |-> {"topic", "subscription"},
   identities            |-> {"gsa", "role"},
   resource_iam          |-> {},
   kubernetes_identities |-> {"namespace", "ksa"},
   workload_identity     |-> {"workload-identity"},
   github                |-> {"github-pool", "github-provider", "github-binding"},
   images                |-> {"image"}]

Plans == [missing : SUBSET Profile, incompatible : SUBSET Profile]

\* approval: the label an operator has to give for an action.
Label(k) ==
  CASE k = "api"     -> "enable-apis"
    [] k = "cluster" -> "create-cluster"
    [] k \in {"registry", "topic", "subscription"} -> "create-shared-resources"
    [] k = "firestore" -> "firestore-location"
    [] k \in {"gsa", "role", "namespace", "ksa", "workload-identity"} -> "identity"
    [] k \in {"github-pool", "github-provider", "github-binding"} -> "github-federation"
    [] k = "image" -> "publish-images"

Labels == {Label(k) : k \in Profile}

Command == [on : Profile, does : {"create", "annotate"}]

AtRest == {"idle", "planned", "refused", "failed", "applied", "verified"}

Jobs ==
  [mode   : {"plan", "apply", "verify"},
   step   : AtRest \cup {"account", "plan", "run"} \cup Range(Methods),
   seen   : [Profile -> Statuses],     \* observations
   passed : BOOLEAN,                   \* report.ready
   todo   : SUBSET Command]

NoPlan == [missing |-> {}, incompatible |-> {}]

\* The selected account and its project, the cluster as it is and the selected
\* context, and who is granted what beyond the roles of the profile.
Facts == {"account", "cluster", "grants"}

BootstrapTypeOK ==
  /\ world \in [Profile -> {"absent", "other", "ready"}]
  /\ \A k \in Profile : world[k] \in Forms(k)
  /\ facts \subseteq Facts
  /\ job \in [Operators -> Jobs]
  /\ approved \in [Operators -> Plans]
  /\ calm \in [Operators -> BOOLEAN]
  /\ faults \in 0..MaxFaults
  /\ drift \in 0..MaxDrift

\* A call that is at rest, or begins.
Fresh(mode, step) ==
  [mode |-> mode, step |-> step, seen |-> [k \in Profile |-> "missing"],
   passed |-> FALSE, todo |-> {}]

Ends(o, step) == job' = [job EXCEPT ![o] = Fresh(job[o].mode, step)]

\* Any environment in which nothing differs yet.
Init ==
  /\ world \in [Profile -> {"absent", "ready"}]
  /\ Possible(world) /\ \A k \in Standing : world[k] = "ready"
  /\ facts = Facts
  /\ job = [o \in Operators |-> Fresh("plan", "idle")]
  /\ approved = [o \in Operators |-> NoPlan]
  /\ calm = [o \in Operators |-> TRUE]
  /\ faults = 0
  /\ drift = 0

-----------------------------------------------------------------------------
Fault(o) ==
  /\ faults < MaxFaults
  /\ faults' = faults + 1
  /\ calm' = [calm EXCEPT ![o] = FALSE]

\* main: a call begins.
Start(o, mode) ==
  /\ job[o].step \in AtRest
  /\ mode = "apply" => approved[o].missing # {}
  /\ job' = [job EXCEPT ![o] = Fresh(mode, "account")]
  /\ calm' = [calm EXCEPT ![o] = TRUE]
  /\ UNCHANGED <<world, facts, approved, faults, drift>>

\* The method after m that has something to inspect.
Following(m) ==
  LET later == {i \in DOMAIN Methods : /\ \A j \in DOMAIN Methods : Methods[j] = m => j < i
                                       /\ \/ Methods[i] = "resource_iam"
                                          \/ Inspects[Methods[i]] \cap Profile # {}}
  IN  IF later = {} THEN "plan"
      ELSE Methods[CHOOSE i \in later : \A j \in later : i <= j]

\* _inspect_tools, _inspect_account_and_billing.
InspectAccount(o) ==
  /\ job[o].step = "account"
  /\ job' = [job EXCEPT ![o].step = Following("account"),
                        ![o].passed = "account" \in facts]
  /\ UNCHANGED <<world, facts, approved, calm, faults, drift>>

\* _inspect_negative_iam, on the policy of the project that _inspect_identities
\* read: no role beyond those of the profile.
NegativeIam == "grants" \in facts

\* The checks of a method; a resource that was not found fails none.
Passes(m, unread) ==
  CASE m = "cluster" /\ unread = {} -> world.cluster = "absent" \/ "cluster" \in facts
    [] m = "identities" -> "role" \in unread \/ NegativeIam
    [] OTHER -> TRUE

\* A method m of the inspector; found is what it reports of each resource it
\* could read.  A command that fails counts as a resource not found.
Inspecting(o, m, found) ==
  /\ job[o].step = m
  /\ \E unread \in SUBSET (Inspects[m] \cap Profile) :
       /\ IF unread = {} THEN UNCHANGED <<calm, faults>> ELSE Fault(o)
       /\ job' = [job EXCEPT
            ![o].step = Following(m),
            ![o].seen = [k \in Profile |->
               IF k \notin Inspects[m] THEN @[k]
               ELSE IF k \in unread THEN "missing" ELSE found[k]],
            ![o].passed = @ /\ Passes(m, unread)]
  /\ UNCHANGED <<world, facts, approved, drift>>

\* Mutant: the state of a resource is reported as it is.
ListedVerbatim(k, form) == form

\* There or not.
Listed(k, form) == IF form = "ready" THEN "compatible" ELSE "missing"

\* Mutant: what differs is reused.
DescribedLoosely(k, form) == IF form = "absent" THEN "missing" ELSE "compatible"

\* There as the profile asks, there otherwise, or not there.
Described(k, form) ==
  CASE form = "ready"  -> "compatible"
    [] form = "other"  -> "incompatible"
    [] form = "absent" -> "missing"

Listings == [k \in Profile |-> Listed(k, world[k])]

Descriptions == [k \in Profile |-> Described(k, world[k])]

InspectApis(o) == Inspecting(o, "apis", Listings)

\* Without a cluster the checks of it are left out.
InspectCluster(o) == Inspecting(o, "cluster", Descriptions)

InspectRegistry(o) == Inspecting(o, "registry", Descriptions)

InspectFirestore(o) == Inspecting(o, "firestore", Descriptions)

InspectPubsub(o) == Inspecting(o, "pubsub", Descriptions)

\* An account that is disabled is reported as missing.
InspectIdentities(o) == Inspecting(o, "identities", Listings)

\* Every check asks for a grant that is there, so that a policy that could not
\* be read fails one.
InspectResourceIam(o) ==
  /\ job[o].step = "resource_iam"
  /\ \E read \in BOOLEAN :
       /\ IF read THEN UNCHANGED <<calm, faults>> ELSE Fault(o)
       /\ job' = [job EXCEPT ![o].step = Following("resource_iam"),
                             ![o].passed = @ /\ read /\ "grants" \in facts]
  /\ UNCHANGED <<world, facts, approved, drift>>

InspectKubernetesIdentities(o) == Inspecting(o, "kubernetes_identities", Descriptions)

InspectWorkloadIdentity(o) == Inspecting(o, "workload_identity", Listings)

\* Likewise a pool that is not active.
InspectGithub(o) ==
  Inspecting(o, "github", [k \in Profile |->
    IF k = "github-provider" THEN Descriptions[k] ELSE Listings[k]])

InspectImages(o) == Inspecting(o, "images", Descriptions)

-----------------------------------------------------------------------------
\* plan.  Only the cluster has a mode, and its default is to be reused.
PlanOf(seen) ==
  LET kept == {k \in Profile : seen[k] = "missing" /\ k = "cluster" /\ ReuseOnly}
  IN  [missing      |-> {k \in Profile : seen[k] = "missing"} \ kept,
       incompatible |-> {k \in Profile : seen[k] = "incompatible"} \cup kept]

\* _action_for: the commands for a missing resource.
CommandsFor(k) ==
  {[on |-> k, does |-> d] :
     d \in IF k \in {"ksa", "workload-identity"} THEN {"create", "annotate"} ELSE {"create"}}

Commands(plan) == UNION {CommandsFor(k) : k \in plan.missing}

\* Mutant: a follow-up command runs first.
RankAnnotateFirst(c) == 2 * Place(c.on) + (IF c.does = "create" THEN 1 ELSE 0)

\* A plan runs in the order of its requirements, a follow-up command after the
\* command of its action.
Rank(c) == 2 * Place(c.on) + (IF c.does = "create" THEN 0 ELSE 1)

NextOf(todo) == CHOOSE c \in todo : \A d \in todo : Rank(c) <= Rank(d)

\* The plan is printed, and the operator reviews it.
Plan(o) ==
  /\ job[o].step = "plan" /\ job[o].mode = "plan"
  /\ approved' = [approved EXCEPT ![o] = PlanOf(job[o].seen)]
  /\ Ends(o, "planned")
  /\ UNCHANGED <<world, facts, calm, faults, drift>>

\* Mutant: the plan that is applied need not be the one that was reviewed.
AppliesAnything(o, plan, labels) ==
  /\ plan.missing # {} /\ plan.incompatible = {}
  /\ {Label(k) : k \in plan.missing} \subseteq labels

\* What apply_bootstrap_plan asks before the first command: the hash, nothing
\* incompatible, every label.
Applies(o, plan, labels) ==
  /\ plan = approved[o]
  /\ plan.incompatible = {}
  /\ {Label(k) : k \in plan.missing} \subseteq labels

Apply(o, labels) ==
  /\ job[o].step = "plan" /\ job[o].mode = "apply"
  /\ LET plan == PlanOf(job[o].seen) IN
       IF Applies(o, plan, labels)
       THEN job' = [job EXCEPT ![o] = [Fresh("apply", "run") EXCEPT !.todo = Commands(plan)]]
       ELSE Ends(o, "refused")
  /\ UNCHANGED <<world, facts, approved, calm, faults, drift>>

\* verify; the manifests may be unfit, too.
Verify(o) ==
  /\ job[o].step = "plan" /\ job[o].mode = "verify"
  /\ LET plan == PlanOf(job[o].seen) IN
       \E step \in {"refused", "verified"} :
         /\ step = "verified" => plan = NoPlan /\ job[o].passed
         /\ Ends(o, step)
  /\ UNCHANGED <<world, facts, approved, calm, faults, drift>>

-----------------------------------------------------------------------------
\* What must be there for the command that creates k.
Needs(k) ==
  Inside(k) \cup
  IF k = "subscription" THEN {"topic"}
  ELSE IF k \in {"registry", "firestore", "topic", "gsa", "cluster", "github-pool"}
  THEN {"api"} ELSE {}

\* Enabling an API and adding a binding succeed again, a push replaces a tag,
\* and to create what exists is an error.
Repeatable == {"api", "role", "workload-identity", "github-binding", "image"}

\* The form a resource has when its first command is done: a Kubernetes service
\* account is not annotated yet, an image seldom has the digest that is recorded.
Made(k) ==
  CASE k = "ksa"   -> {"other"}
    [] k = "image" -> {"other", "ready"}
    [] OTHER       -> {"ready"}

\* The environments a command may lead to; none if it fails by itself.
Results(c) ==
  IF c.does = "annotate"
  THEN IF world.ksa = "absent" THEN {} ELSE {[world EXCEPT !.ksa = "ready"]}
  ELSE IF /\ \A n \in Needs(c.on) \cap Profile : world[n] # "absent"
          /\ c.on \in Repeatable \/ world[c.on] = "absent"
       THEN {[world EXCEPT ![c.on] = form] : form \in Made(c.on)} ELSE {}

Disturbs(o) == calm' = [p \in Operators |-> calm[p] /\ p = o]

\* run: the next command; the first that fails ends the call.
Run(o) ==
  LET c == NextOf(job[o].todo) IN
  /\ job[o].step = "run"
  /\ IF Results(c) = {}
     THEN /\ Ends(o, "failed")
          /\ UNCHANGED <<world, calm>>
     ELSE /\ world' \in Results(c)
          /\ Disturbs(o)
          /\ IF job[o].todo = {c} THEN Ends(o, "applied")
             ELSE job' = [job EXCEPT ![o].todo = @ \ {c}]
  /\ UNCHANGED <<facts, approved, faults, drift>>

\* A call ends early: a command fails for a reason of its own, or one of the
\* inspector or of the plan is cut off, or the process dies.  What a command of
\* the plan did may stand.
Fails(o) ==
  /\ job[o].step \notin AtRest
  /\ faults < MaxFaults /\ faults' = faults + 1
  /\ world' \in {world} \cup
       (IF job[o].step = "run" THEN Results(NextOf(job[o].todo)) ELSE {})
  /\ calm' = [p \in Operators |-> FALSE]
  /\ Ends(o, "failed")
  /\ UNCHANGED <<facts, approved, drift>>

\* Somebody else creates, changes or deletes k.
Drift(k) ==
  /\ drift < MaxDrift /\ drift' = drift + 1
  /\ \E form \in Forms(k) \ {world[k]} :
       /\ form = "absent" => k \notin Standing
       /\ world' = [world EXCEPT ![k] = form]
  /\ Possible(world')
  /\ calm' = [p \in Operators |-> FALSE]
  /\ UNCHANGED <<facts, job, approved, faults>>

\* Another project, account or cluster is selected, a grant is given or taken
\* away; or it is undone.
Reconfigure(fact) ==
  /\ drift < MaxDrift /\ drift' = drift + 1
  /\ facts' = IF fact \in facts THEN facts \ {fact} ELSE facts \cup {fact}
  /\ calm' = [p \in Operators |-> FALSE]
  /\ UNCHANGED <<world, job, approved, faults>>

-----------------------------------------------------------------------------
Inspect(o) ==
  \/ InspectAccount(o) \/ InspectApis(o) \/ InspectCluster(o)
  \/ InspectRegistry(o) \/ InspectFirestore(o) \/ InspectPubsub(o)
  \/ InspectIdentities(o) \/ InspectResourceIam(o) \/ InspectKubernetesIdentities(o)
  \/ InspectWorkloadIdentity(o) \/ InspectGithub(o) \/ InspectImages(o)

\* --approve: every label, or all but one.
Offers == {Labels} \cup {Labels \ {l} : l \in Labels}

Proceed(o) ==
  \/ Inspect(o) \/ Plan(o) \/ Verify(o) \/ Run(o)
  \/ \E labels \in Offers : Apply(o, labels)

Next ==
  \/ \E o \in Operators :
       \/ \E mode \in {"plan", "apply", "verify"} : Start(o, mode)
       \/ Proceed(o)
       \/ Fails(o)
  \/ \E k \in Profile : Drift(k)
  \/ \E fact \in Facts : Reconfigure(fact)

Spec == Init /\ [][Next]_vars

\* A call goes on to its end.  The operator follows the runbook: plans again and
\* again, applies again and again, and at times gives every label.
Fairness ==
  \A o \in Operators :
    /\ WF_vars(Proceed(o))
    /\ SF_vars(Start(o, "plan"))
    /\ SF_vars(Start(o, "apply"))
    /\ SF_vars(Apply(o, Labels))

FairSpec == Spec /\ Fairness

-----------------------------------------------------------------------------
(* Properties *)

\* The requirements come in an order that works: a call that applies a plan is
\* done with it when nothing else fails or comes in between, whatever of the
\* profile is there already.  The exception is what is there and reported as
\* missing: a disabled Google service account, a pool that is not active.
OrderSuffices ==
  \A o \in Operators :
    job[o].step = "failed" /\ calm[o] =>
      \E k \in {"gsa", "github-pool"} \cap Profile : world[k] = "other"

\* verify, with nothing in between, vouches for an environment that has all of
\* the profile, as the profile has it, and passed every check.
VerifiedIsComplete ==
  \A o \in Operators :
    job[o].step = "verified" /\ calm[o] =>
      /\ \A k \in Profile : world[k] = "ready"
      /\ {"account", "grants"} \subseteq facts
      /\ ("cluster" \in Profile => "cluster" \in facts)

\* A command runs only for a resource that the plan the operator reviewed in an
\* earlier call lists as missing, and for a plan in which nothing was
\* incompatible, though the environment may have changed since that call and
\* changes while this one runs.
OnlyWhatWasReviewed ==
  [][\A o \in Operators : job[o].step = "run" /\ world' # world /\ job'[o] # job[o] =>
       /\ NextOf(job[o].todo).on \in approved[o].missing
       /\ approved[o].incompatible = {}]_vars

Complete == \A k \in Profile : world[k] = "ready"

Differs ==
  \/ \E k \in Profile : world[k] = "other"
  \/ ReuseOnly /\ "cluster" \in Profile /\ world["cluster"] = "absent"

\* For as long as no resource differs from the profile, and no cluster is
\* missing that may only be reused, calls that fail and environments that change
\* under the operator's hands do no lasting harm: plan and apply, repeated, lead
\* to a complete environment.
Converges == <>[](Complete \/ Differs)

\* docs/runbooks/gke-environment-bootstrap.md: if a command fails partway, rerun
\* preflight and plan; the remaining actions are proposed under a new hash.
RemainingIsProposed == <>[]Complete
=============================================================================
