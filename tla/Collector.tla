------------------------------ MODULE Collector ------------------------------
(***************************************************************************)
(* A caller of plan_gc (gc.rs) and execute_gc_actions (control.rs), beside *)
(* the other callers of the control plane: a plan is carried out later,    *)
(* after other operations, or again.                                       *)
(***************************************************************************)
EXTENDS ControlPlane, Gc

\* A BTreeMap is iterated in the order of its keys.
ASSUME CollectorAssumption == WorkspaceIds \subseteq Nat /\ SnapshotIds \subseteq Nat

VARIABLES
  plan,    \* what plan_gc returned last, and the time it was made for
  fresh,   \* history: nothing was changed since, but by the plan itself
  passes,  \* history: plans made and completed in a row at the present time
  gone     \* history: the workspaces that were forgotten since the plan was made

collectorVars == <<workspaces, snapshots, policies, disk, clock, queue,
                   plan, fresh, passes, gone>>

-----------------------------------------------------------------------------
(* The caller.                                                             *)

CollectorInit ==
  /\ Init
  /\ plan = [actions |-> <<>>, at |-> 0]
  /\ fresh = FALSE
  /\ passes = 0
  /\ gone = {}

Forgotten == DOMAIN workspaces \ DOMAIN workspaces'

MakePlan ==
  /\ Idle
  /\ plan' = [actions |-> PlanGc(Metadata, clock), at |-> clock]
  /\ fresh' = TRUE
  /\ gone' = {}
  /\ UNCHANGED <<workspaces, snapshots, policies, disk, clock, queue, passes>>

RunPlan ==
  /\ ExecuteGcActions(plan.actions)
  /\ UNCHANGED <<plan, fresh, passes, gone>>

\* One action of the plan. A plan that was run is not fresh any more.
Collect ==
  /\ GcStep
  /\ fresh' = (fresh /\ queue' # <<>>)
  /\ passes' = IF fresh /\ plan.at = clock /\ queue' = <<>> /\ passes < 2
               THEN passes + 1
               ELSE passes
  /\ gone' = gone \cup Forgotten
  /\ UNCHANGED plan

\* Anything else, between the planning and the running of a plan or during it.
Elsewhere ==
  /\ \/ (Operation \/ Restart) /\ fresh' = FALSE
     \/ Tick /\ UNCHANGED fresh
  /\ passes' = 0
  /\ gone' = gone \cup Forgotten
  /\ UNCHANGED plan

CollectorNext == MakePlan \/ RunPlan \/ Collect \/ Elsewhere

CollectorSpec == CollectorInit /\ [][CollectorNext]_collectorVars

-----------------------------------------------------------------------------
(* Properties.                                                             *)

CollectorTypeOK ==
  /\ TypeOK
  /\ plan \in [actions : Seq(GcAction), at : Times]
  /\ fresh \in BOOLEAN
  /\ passes \in 0..2
  /\ gone \subseteq WorkspaceIds

\* What an action needs to succeed when no command fails.
CanPurge(action) ==
  IF action.kind = "DeleteWorkspace"
  THEN /\ Deleted(action.id)
       /\ action.id \in DOMAIN disk.roots
       /\ disk.roots[action.id].nested = {}
  ELSE SnapshotPurgeable(action.id) /\ action.id \in DOMAIN disk.snaps

\* A plan that is run before anything else happens never aborts: whatever its
\* earlier actions removed, the next one is allowed (gc.rs:41 protects the
\* parents, control.rs:225 refuses to purge them).
FreshPlanCompletes == fresh /\ queue # <<>> => CanPurge(Head(queue))

Scheduled == {queue[i].id : i \in {j \in DOMAIN queue : queue[j].kind = "DeleteSnapshot"}}

\* While a fresh plan runs, each snapshot still to go leaves at least Retain
\* others of its workspace behind that are not older and are not to go.
NewestAreKept ==
  fresh => \A s \in Scheduled :
    Cardinality({t \in DOMAIN snapshots \ Scheduled :
                   /\ snapshots[t].workspace = snapshots[s].workspace
                   /\ snapshots[t].created >= snapshots[s].created}) >= Retain

\* Two passes settle: the first may purge the branch that protected a snapshot,
\* the second that snapshot; a third plan at that time has nothing to do.
TwoPassesSettle == passes = 2 /\ Idle => PlanGc(Metadata, clock) = <<>>

\* However old the plan, and wherever the clock was set since, a workspace it
\* purges had been idle for DeleteAfter when the plan was made, unless that one
\* is gone and its id was given to another (control.rs:213 looks at the state).
CollectedWereDue ==
  [][GcStep => \A w \in Forgotten \ gone :
       Age(plan.at, workspaces[w].accessed) >= DeleteAfter]_collectorVars
=============================================================================
