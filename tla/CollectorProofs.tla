--------------------------- MODULE CollectorProofs ---------------------------
(***************************************************************************)
(* Plans that are carried out later, by Collector: what a plan of any age  *)
(* purges was due, one that is run at once keeps the newest snapshots and, *)
(* where no command fails, never aborts and settles in two passes.         *)
(***************************************************************************)
EXTENDS Collector, CleanProofs, GcProofs

-----------------------------------------------------------------------------
(* The steps of the control plane, as the collector sees them.             *)

(* A purge fails and changes nothing, or takes one record that is due.     *)
LEMMA PurgeTakesOne ==
  ASSUME TypeOK, NEW action \in GcAction, NEW ok \in BOOLEAN, Purge(action, ok)
  PROVE  \/ /\ ~ok
            /\ UNCHANGED <<workspaces, snapshots>>
         \/ /\ ok
            /\ action.kind = "DeleteWorkspace"
            /\ Deleted(action.id)
            /\ workspaces' = Drop(workspaces, action.id)
            /\ UNCHANGED snapshots
         \/ /\ ok
            /\ action.kind = "DeleteSnapshot"
            /\ SnapshotPurgeable(action.id)
            /\ snapshots' = Drop(snapshots, action.id)
            /\ UNCHANGED workspaces
PROOF
  <1>1. CASE UNCHANGED <<workspaces, snapshots, disk>> /\ ~ok
    BY <1>1
  <1>2. CASE action.kind = "DeleteWorkspace" /\ PurgeWorkspace(action.id, ok)
    BY <1>2 DEF PurgeWorkspace
  <1>3. CASE action.kind = "DeleteSnapshot" /\ PurgeSnapshot(action.id, ok)
    BY <1>3 DEF PurgeSnapshot
  <1> QED
    BY <1>2, <1>3 DEF Purge

(* The metadata is what plan_gc is defined for.                            *)
LEMMA MetadataWellFormed == TypeOK /\ Finite => WellFormed(Metadata)
PROOF
  <1> SUFFICES ASSUME TypeOK, Finite PROVE WellFormed(Metadata)
    OBVIOUS
  <1>1. DOMAIN workspaces \subseteq Nat /\ DOMAIN snapshots \subseteq Nat
    BY CollectorAssumption DEF TypeOK, IsMap
  <1>2. ASSUME NEW s \in DOMAIN snapshots
        PROVE  snapshots[s].workspace \in Nat /\ snapshots[s].created \in Int
    <2>1. snapshots[s] \in Snapshot
      BY DEF TypeOK, IsMap
    <2>2. snapshots[s].workspace \in WorkspaceIds /\ snapshots[s].created \in 0..MaxTime
      BY <2>1 DEF Snapshot, Times
    <2>3. MaxTime \in Int
      BY ControlPlaneAssumption
    <2>4. snapshots[s].created \in Int
      BY <2>2, <2>3
    <2>5. snapshots[s].workspace \in Nat
      BY <2>2, CollectorAssumption
    <2> QED
      BY <2>4, <2>5
  <1> QED
    BY <1>1, <1>2 DEF Finite, WellFormed, Metadata

(* A plan is a list of actions.                                            *)
LEMMA PlanType ==
  ASSUME TypeOK, Finite, NEW now
  PROVE  PlanGc(Metadata, now) \in Seq(GcAction)
PROOF
  <1>1. PlanGc(Metadata, now) \in Seq(Asked(Metadata, now))
    BY MetadataWellFormed, PlanFacts
  <1>2. Asked(Metadata, now) \subseteq GcAction
    <2>1. /\ Expired(Metadata, now) \subseteq WorkspaceIds
          /\ Surplus(Metadata) \subseteq SnapshotIds
      BY DEF Expired, Surplus, Metadata, TypeOK, IsMap
    <2> QED
      BY <2>1 DEF Asked, WorkspaceAction, SnapshotAction, GcAction
  <1> QED
    BY <1>1, <1>2, SeqMonotonic

-----------------------------------------------------------------------------
(* Types.                                                                  *)

Typed == CollectorTypeOK /\ Finite

LEMMA CollectorInitTyped == CollectorInit => Typed
PROOF
  <1> SUFFICES ASSUME CollectorInit PROVE Typed
    OBVIOUS
  <1>1. TypeOK /\ 0 \in Times /\ <<>> \in Seq(GcAction)
    BY InitType, ControlPlaneAssumption DEF CollectorInit, Times
  <1>2. Finite
    BY InitFinite DEF CollectorInit
  <1>3. plan \in [actions : Seq(GcAction), at : Times]
    BY <1>1 DEF CollectorInit
  <1>4. fresh \in BOOLEAN /\ passes \in 0..2 /\ gone \subseteq WorkspaceIds
    <2>1. fresh \in BOOLEAN
      BY DEF CollectorInit
    <2>2. passes \in 0..2 /\ gone \subseteq WorkspaceIds
      BY DEF CollectorInit
    <2> QED
      BY <2>1, <2>2
  <1> QED
    BY <1>1, <1>2, <1>3, <1>4 DEF CollectorTypeOK, Typed

(* Each step of the caller keeps the types.                                *)
LEMMA CollectorNextTyped == Typed /\ [CollectorNext]_collectorVars => Typed'
PROOF
  <1> SUFFICES ASSUME Typed, [CollectorNext]_collectorVars PROVE Typed'
    OBVIOUS
  <1> USE DEF Typed, CollectorTypeOK
  <1>1. ASSUME Operation \/ GcStep \/ Tick \/ Restart
        PROVE  TypeOK' /\ Finite' /\ (gone \cup Forgotten) \subseteq WorkspaceIds
    <2>1. TypeOK'
      BY <1>1, NextType DEF Next
    <2>2. Forgotten \subseteq WorkspaceIds
      BY DEF Forgotten, TypeOK, IsMap
    <2> QED
      BY <1>1, <2>1, <2>2, StepFinite
  <1>2. CASE MakePlan
    <2>1. PlanGc(Metadata, clock) \in Seq(GcAction) /\ clock \in Times
      BY PlanType DEF TypeOK
    <2> QED
      BY <1>2, <2>1 DEF MakePlan, TypeOK, Finite
  <1>3. CASE RunPlan
    BY <1>3 DEF RunPlan, ExecuteGcActions, TypeOK, Finite
  <1>4. CASE Collect
    BY <1>1, <1>4 DEF Collect
  <1>5. CASE Elsewhere
    <2>1. TypeOK' /\ Finite' /\ gone' \subseteq WorkspaceIds
      BY <1>1, <1>5 DEF Elsewhere
    <2>2. fresh' \in BOOLEAN
      BY <1>5 DEF Elsewhere
    <2>3. passes' \in 0..2 /\ UNCHANGED plan
      BY <1>5 DEF Elsewhere
    <2> QED
      BY <2>1, <2>2, <2>3
  <1>6. CASE UNCHANGED collectorVars
    BY <1>6 DEF collectorVars, TypeOK, Finite
  <1> QED
    BY <1>2, <1>3, <1>4, <1>5, <1>6 DEF CollectorNext

LEMMA AlwaysTyped == CollectorSpec => []Typed
BY CollectorInitTyped, CollectorNextTyped, PTL DEF CollectorSpec

(* Whatever plan is made, run, abandoned or run again (control.rs:246).    *)
THEOREM CollectorTypeCorrect == CollectorSpec => []CollectorTypeOK
PROOF
  <1>1. Typed => CollectorTypeOK
    BY DEF Typed
  <1> QED
    BY <1>1, AlwaysTyped, PTL

-----------------------------------------------------------------------------
(* The list of a plan and what is left of it.                              *)

(* What is left after the first action.                                    *)
LEMMA ListFacts ==
  ASSUME NEW S, NEW list \in Seq(S), list # <<>>
  PROVE  /\ Head(list) \in Range(list)
         /\ Range(list) = {Head(list)} \cup Range(Tail(list))
         /\ IsInjective(list) => /\ IsInjective(Tail(list))
                                 /\ Head(list) \notin Range(Tail(list))
PROOF
  <1>1. /\ Len(list) \in Nat \ {0}
        /\ DOMAIN list = 1..Len(list)
        /\ Head(list) = list[1]
    BY EmptySeq, LenProperties
  <1>2. /\ Tail(list) \in Seq(S)
        /\ Len(Tail(list)) = Len(list) - 1
        /\ \A i \in 1..Len(Tail(list)) : Tail(list)[i] = list[i + 1]
    BY HeadTailProperties
  <1>3. DOMAIN Tail(list) = 1..(Len(list) - 1)
    BY <1>2, LenProperties
  <1>4. \A i \in 1..Len(list) : i = 1 \/ (i - 1 \in 1..(Len(list) - 1))
    BY <1>1
  <1>5. \A i \in 1..Len(list) : i # 1 => list[i] = Tail(list)[i - 1]
    BY <1>1, <1>2, <1>4
  <1>6. Range(list) = {Head(list)} \cup Range(Tail(list))
    <2>1. Range(list) = {list[i] : i \in 1..Len(list)}
      BY <1>1 DEF Range
    <2>2. Range(Tail(list)) = {Tail(list)[i] : i \in 1..(Len(list) - 1)}
      BY <1>3 DEF Range
    <2>3. \A i \in 1..Len(list) : list[i] = Head(list) \/ list[i] \in Range(Tail(list))
      BY <1>1, <1>4, <1>5, <2>2
    <2>4. \A i \in 1..(Len(list) - 1) : Tail(list)[i] \in Range(list)
      BY <1>1, <1>2, <2>1
    <2>5. Head(list) \in Range(list)
      BY <1>1, <2>1
    <2> QED
      BY <2>1, <2>2, <2>3, <2>4, <2>5
  <1>7. ASSUME IsInjective(list)
        PROVE  IsInjective(Tail(list)) /\ Head(list) \notin Range(Tail(list))
    BY <1>1, <1>2, <1>3, <1>7 DEF Range, IsInjective
  <1> QED
    BY <1>1, <1>6, <1>7

(* The plan that is made asks for what plan_gc asks for, each action once. *)
LEMMA PlanRange ==
  ASSUME Typed, NEW now
  PROVE  /\ Range(PlanGc(Metadata, now)) = Asked(Metadata, now)
         /\ IsInjective(PlanGc(Metadata, now))
BY MetadataWellFormed, PlanIsAsked DEF Typed, CollectorTypeOK

(* The first action of a list that is being carried out.                   *)
LEMMA GcStepFacts ==
  ASSUME Typed, GcStep
  PROVE  /\ queue # <<>>
         /\ Head(queue) \in GcAction
         /\ Head(queue) \in Range(queue)
         /\ Range(queue) = {Head(queue)} \cup Range(Tail(queue))
         /\ \E ok \in BOOLEAN :
              /\ Purge(Head(queue), ok)
              /\ queue' = IF ok THEN Tail(queue) ELSE <<>>
         /\ UNCHANGED <<policies, clock>>
PROOF
  <1>1. queue # <<>> /\ queue \in Seq(GcAction)
    BY DEF GcStep, Idle, Typed, CollectorTypeOK, TypeOK
  <1> QED
    BY <1>1, ListFacts, HeadTailProperties DEF GcStep

-----------------------------------------------------------------------------
(* Plans of any age.                                                       *)

\* The list comes from the plan, and a workspace of the plan that is not gone
\* yet is the one the plan was made for.
Due ==
  /\ Range(queue) \subseteq Range(plan.actions)
  /\ \A a \in Range(plan.actions) : a.kind = "DeleteWorkspace" /\ a.id \notin gone =>
       /\ Deleted(a.id)
       /\ Age(plan.at, workspaces[a.id].accessed) >= DeleteAfter

LEMMA EmptyList == Range(<<>>) = {}
BY DEF Range

LEMMA InitDue == CollectorInit => Due
BY EmptyList DEF CollectorInit, Init, Due

(* Nothing but its purge or a restart changes a soft-deleted workspace.    *)
LEMMA NextDue == Typed /\ Due /\ [CollectorNext]_collectorVars => Due'
PROOF
  <1> SUFFICES ASSUME Typed, Due, [CollectorNext]_collectorVars PROVE Due'
    OBVIOUS
  <1>0. TypeOK
    BY DEF Typed, CollectorTypeOK
  <1>1. ASSUME UNCHANGED plan, Range(queue') \subseteq Range(queue),
               gone' = gone \cup Forgotten,
               \A w \in DOMAIN workspaces' : Deleted(w) => workspaces'[w] = workspaces[w]
        PROVE  Due'
    <2>1. ASSUME NEW a \in Range(plan.actions), a.kind = "DeleteWorkspace", a.id \notin gone'
          PROVE  /\ Deleted(a.id)'
                 /\ Age(plan.at, workspaces'[a.id].accessed) >= DeleteAfter
      <3>1. Deleted(a.id) /\ Age(plan.at, workspaces[a.id].accessed) >= DeleteAfter
        BY <1>1, <2>1 DEF Due
      <3>2. a.id \in DOMAIN workspaces'
        BY <1>1, <2>1, <3>1 DEF Forgotten, Deleted
      <3> QED
        BY <1>1, <3>1, <3>2 DEF Deleted
    <2> QED
      BY <1>1, <2>1 DEF Due
  <1>2. CASE MakePlan
    <2>1. /\ queue' = <<>>
          /\ UNCHANGED workspaces
          /\ plan'.actions = PlanGc(Metadata, clock)
          /\ plan'.at = clock
      BY <1>2 DEF MakePlan, Idle
    <2>2. Range(plan'.actions) = Asked(Metadata, clock)
      BY <2>1, PlanRange
    <2>3. \A a \in Asked(Metadata, clock) : a.kind = "DeleteWorkspace" =>
            /\ Deleted(a.id)
            /\ Age(clock, workspaces[a.id].accessed) >= DeleteAfter
      BY DEF Asked, WorkspaceAction, SnapshotAction, Expired, Metadata, Deleted
    <2>4. Range(queue') \subseteq Range(plan'.actions)
      BY <2>1, EmptyList
    <2> QED
      BY <2>1, <2>2, <2>3, <2>4 DEF Due, Deleted
  <1>3. CASE RunPlan
    BY <1>3 DEF RunPlan, ExecuteGcActions, Due, Deleted
  <1>4. CASE Collect
    <2>1. PICK ok \in BOOLEAN :
            Purge(Head(queue), ok) /\ queue' = IF ok THEN Tail(queue) ELSE <<>>
      BY <1>4, GcStepFacts DEF Collect
    <2>2. Range(queue') \subseteq Range(queue)
      BY <1>4, <2>1, GcStepFacts, EmptyList DEF Collect
    <2>3. \A w \in DOMAIN workspaces' : workspaces'[w] = workspaces[w]
      BY <1>0, <1>4, <2>1, GcStepFacts, PurgeFacts DEF Collect
    <2> QED
      BY <1>1, <1>4, <2>2, <2>3 DEF Collect
  <1>5. CASE Elsewhere
    <2>1. CASE Operation
      <3>1. Range(queue') \subseteq Range(queue)
        BY <2>1 DEF Operation, CreateWorkspace, DeleteWorkspace, OpenSession,
             SnapshotWorkspace, BranchWorkspace, SetLimits, SetNetworkPolicy, PurgeOne
      <3> QED
        BY <1>0, <1>1, <1>5, <2>1, <3>1, OperationFacts DEF Elsewhere
    <2>2. CASE Restart
      BY <1>1, <1>5, <2>2, EmptyList DEF Elsewhere, Restart, EmptyMap
    <2>3. CASE Tick
      BY <1>1, <1>5, <2>3 DEF Elsewhere, Tick
    <2> QED
      BY <1>5, <2>1, <2>2, <2>3 DEF Elsewhere
  <1>6. CASE UNCHANGED collectorVars
    BY <1>6 DEF collectorVars, Due, Deleted
  <1> QED
    BY <1>2, <1>3, <1>4, <1>5, <1>6 DEF CollectorNext

LEMMA AlwaysDue == CollectorSpec => [](Typed /\ Due)
BY CollectorInitTyped, CollectorNextTyped, InitDue, NextDue, PTL DEF CollectorSpec

(* A plan of any age purges only workspaces that had been idle for long    *)
(* enough when it was made (gc.rs:33, control.rs:213).                     *)
THEOREM CollectedAlwaysDue == CollectorSpec => CollectedWereDue
PROOF
  <1> DEFINE WereDue == GcStep => \A w \in Forgotten \ gone :
                          Age(plan.at, workspaces[w].accessed) >= DeleteAfter
  <1>1. Typed /\ Due /\ [CollectorNext]_collectorVars => [WereDue]_collectorVars
    <2> SUFFICES ASSUME Typed, Due, GcStep, NEW w \in Forgotten \ gone
                 PROVE  Age(plan.at, workspaces[w].accessed) >= DeleteAfter
      OBVIOUS
    <2>1. PICK ok \in BOOLEAN : Purge(Head(queue), ok)
      BY GcStepFacts
    <2>2. /\ Head(queue).kind = "DeleteWorkspace"
          /\ workspaces' = Drop(workspaces, Head(queue).id)
      BY <2>1, GcStepFacts, PurgeTakesOne DEF Typed, CollectorTypeOK, Forgotten
    <2>3. DOMAIN workspaces' = DOMAIN workspaces \ {Head(queue).id}
      BY <2>2, DropFacts
    <2>4. w = Head(queue).id
      BY <2>3 DEF Forgotten
    <2> QED
      BY <2>2, <2>4, GcStepFacts DEF Due
  <1> QED
    BY <1>1, AlwaysDue, PTL DEF CollectorSpec, CollectedWereDue

-----------------------------------------------------------------------------
(* A plan that is run before anything else happens.                        *)

\* What control.rs demands of an action before it touches storage.
Purgeable(a) ==
  IF a.kind = "DeleteWorkspace" THEN Deleted(a.id) ELSE SnapshotPurgeable(a.id)

\* What the action names is not in the metadata.
Done(a) ==
  IF a.kind = "DeleteWorkspace" THEN a.id \notin DOMAIN workspaces
                                ELSE a.id \notin DOMAIN snapshots

\* Before the run the plan is what would be planned again; during the run every
\* action is done or still to come, once, and nothing is in its way.
Running ==
  fresh =>
    /\ Idle => plan.actions = PlanGc(Metadata, plan.at)
    /\ ~Idle =>
         /\ IsInjective(queue)
         /\ \A a \in Range(queue) : Purgeable(a)
         /\ \A a \in Range(plan.actions) : a \in Range(queue) \/ Done(a)
         /\ \A w \in Expired(Metadata, plan.at) : WorkspaceAction(w) \in Range(queue)
         /\ NewestAreKept

(* The snapshots still to go, by their actions.                            *)
LEMMA ScheduledActions ==
  ASSUME NEW list \in Seq(GcAction)
  PROVE  {list[i].id : i \in {j \in DOMAIN list : list[j].kind = "DeleteSnapshot"}}
           = {s \in SnapshotIds : SnapshotAction(s) \in Range(list)}
PROOF
  <1> DEFINE ids == {list[i].id : i \in {j \in DOMAIN list : list[j].kind = "DeleteSnapshot"}}
  <1>1. \A i \in DOMAIN list : list[i] \in GcAction
    BY LenProperties, ElementOfSeq
  <1>2. ASSUME NEW i \in DOMAIN list, list[i].kind = "DeleteSnapshot"
        PROVE  list[i].id \in SnapshotIds /\ list[i] = SnapshotAction(list[i].id)
    BY <1>1, <1>2 DEF GcAction, SnapshotAction
  <1>3. \A s : SnapshotAction(s).kind = "DeleteSnapshot" /\ SnapshotAction(s).id = s
    BY DEF SnapshotAction
  <1> QED
    BY <1>2, <1>3 DEF Range

(* What plan_gc lets go is past the ones it retains.                       *)
LEMMA PlannedKeep ==
  ASSUME Typed, NEW s \in Surplus(Metadata), NEW going \in SUBSET Surplus(Metadata)
  PROVE  Cardinality({t \in DOMAIN snapshots \ going :
                        /\ snapshots[t].workspace = snapshots[s].workspace
                        /\ snapshots[t].created >= snapshots[s].created}) >= Retain
PROOF
  <1> DEFINE kept == {t \in DOMAIN snapshots \ going :
                        /\ snapshots[t].workspace = snapshots[s].workspace
                        /\ snapshots[t].created >= snapshots[s].created}
             newer == NewerSiblings(Metadata, s) \ Surplus(Metadata)
  <1>1. WellFormed(Metadata)
    BY MetadataWellFormed DEF Typed, CollectorTypeOK
  <1>2. Cardinality(newer) >= Retain
    BY <1>1, RetainedAreKept
  <1>3. \A t \in DOMAIN snapshots : snapshots[t].created \in Int
    BY <1>1 DEF WellFormed, Metadata
  <1>4. newer \in SUBSET kept
    BY <1>3 DEF NewerSiblings, Siblings, Newer, Surplus, Metadata
  <1>5. IsFiniteSet(kept)
    BY FS_Subset DEF Typed, Finite
  <1>6. IsFiniteSet(newer) /\ Cardinality(newer) <= Cardinality(kept)
    BY <1>4, <1>5, FS_Subset
  <1>7. Cardinality(newer) \in Nat /\ Cardinality(kept) \in Nat
    BY <1>5, <1>6, FS_CardinalityType
  <1> QED
    BY <1>2, <1>6, <1>7, GcAssumption

LEMMA InitRunning == CollectorInit => Running
BY DEF CollectorInit, Running

(* The run of a fresh plan starts.                                         *)
LEMMA RunStarts ==
  ASSUME Typed, Running, RunPlan
  PROVE  Running'
PROOF
  <1> SUFFICES ASSUME fresh, plan.actions # <<>> PROVE Running'
    BY DEF RunPlan, ExecuteGcActions, Running, Idle, Metadata
  <1> DEFINE m == Metadata
             A == Asked(m, plan.at)
  <1>1. /\ Idle
        /\ UNCHANGED <<workspaces, snapshots, policies, plan, fresh>>
        /\ queue' = plan.actions
    BY DEF RunPlan, ExecuteGcActions
  <1>2. plan.actions = PlanGc(m, plan.at)
    BY <1>1 DEF Running
  <1>3. Range(queue') = A /\ IsInjective(queue')
    BY <1>1, <1>2, PlanRange
  <1>4. queue' \in Seq(GcAction)
    BY <1>1 DEF Typed, CollectorTypeOK
  <1>5. \A a \in A : \/ \E w \in Expired(m, plan.at) : a = WorkspaceAction(w)
                     \/ \E s \in Surplus(m) \ Protected(m) : a = SnapshotAction(s)
    BY DEF Asked
  <1>6. /\ \A w : WorkspaceAction(w).kind = "DeleteWorkspace" /\ WorkspaceAction(w).id = w
        /\ \A s : SnapshotAction(s).kind = "DeleteSnapshot" /\ SnapshotAction(s).id = s
    BY DEF WorkspaceAction, SnapshotAction
  <1>7. \A a \in Range(queue') : Purgeable(a)'
    <2>1. \A w \in Expired(m, plan.at) : Deleted(w)
      BY DEF Expired, Deleted, Metadata
    <2>2. \A s \in Surplus(m) \ Protected(m) : SnapshotPurgeable(s)
      BY DEF Surplus, Protected, SnapshotPurgeable, UsedByBranch, Metadata
    <2>3. \A a \in A : Purgeable(a)
      BY <1>5, <1>6, <2>1, <2>2 DEF Purgeable
    <2> QED
      BY <1>1, <1>3, <2>3 DEF Purgeable, Deleted, SnapshotPurgeable, UsedByBranch
  <1>8. \A w \in Expired(m, plan.at) : WorkspaceAction(w) \in Range(queue')
    BY <1>3 DEF Asked
  <1>9. NewestAreKept'
    <2>1. Scheduled' \subseteq Surplus(m)
      <3>1. Scheduled' = {s \in SnapshotIds : SnapshotAction(s) \in Range(queue')}
        BY <1>4, ScheduledActions DEF Scheduled
      <3>2. ASSUME NEW s, SnapshotAction(s) \in A PROVE s \in Surplus(m)
        BY <1>5, <1>6, <3>2
      <3> QED
        BY <1>3, <3>1, <3>2
    <2> QED
      BY <1>1, <2>1, PlannedKeep DEF NewestAreKept
  <1>10. m' = m
    BY <1>1 DEF Metadata
  <1> QED
    BY <1>1, <1>3, <1>7, <1>8, <1>9, <1>10 DEF Running, Idle

(* An action of it is carried out, and others are left.                    *)
LEMMA RunGoesOn ==
  ASSUME Typed, Running, Collect, fresh'
  PROVE  Running'
PROOF
  <1> DEFINE a == Head(queue)
  <1>1. TypeOK /\ GcStep /\ fresh /\ queue' # <<>> /\ UNCHANGED plan
    BY DEF Collect, Typed, CollectorTypeOK
  <1>2. PICK ok \in BOOLEAN :
          Purge(a, ok) /\ queue' = IF ok THEN Tail(queue) ELSE <<>>
    BY <1>1, GcStepFacts
  <1>3. /\ ok
        /\ queue' = Tail(queue)
        /\ a \in GcAction
        /\ queue # <<>>
        /\ queue \in Seq(GcAction)
        /\ Range(queue) = {a} \cup Range(queue')
    BY <1>1, <1>2, GcStepFacts DEF TypeOK
  <1>4. /\ IsInjective(queue)
        /\ \A b \in Range(queue) : Purgeable(b)
        /\ \A b \in Range(plan.actions) : b \in Range(queue) \/ Done(b)
        /\ \A w \in Expired(Metadata, plan.at) : WorkspaceAction(w) \in Range(queue)
        /\ NewestAreKept
    BY <1>1, <1>3 DEF Running, Idle
  <1>5. IsInjective(queue') /\ a \notin Range(queue')
    BY <1>3, <1>4, ListFacts
  <1>6. Range(queue') \subseteq GcAction
    <2>1. queue' \in Seq(GcAction)
      BY <1>3, HeadTailProperties
    <2> QED
      BY <2>1, LenProperties, ElementOfSeq DEF Range
  <1>7. \/ /\ a.kind = "DeleteWorkspace"
           /\ workspaces' = Drop(workspaces, a.id)
           /\ UNCHANGED snapshots
        \/ /\ a.kind = "DeleteSnapshot"
           /\ snapshots' = Drop(snapshots, a.id)
           /\ UNCHANGED workspaces
    BY <1>1, <1>2, <1>3, PurgeTakesOne
  <1> HIDE DEF a
  <1>8. ASSUME NEW b \in Range(queue'), a.kind = b.kind PROVE a.id # b.id
    BY <1>3, <1>5, <1>6, <1>8 DEF GcAction
  <1>9. /\ \A w : WorkspaceAction(w).kind = "DeleteWorkspace" /\ WorkspaceAction(w).id = w
        /\ \A s : SnapshotAction(s).kind = "DeleteSnapshot" /\ SnapshotAction(s).id = s
    BY DEF WorkspaceAction, SnapshotAction
  <1>10. /\ Scheduled = {s \in SnapshotIds : SnapshotAction(s) \in Range(queue)}
         /\ Scheduled' = {s \in SnapshotIds : SnapshotAction(s) \in Range(queue')}
    <2>1. queue' \in Seq(GcAction)
      BY <1>3, HeadTailProperties
    <2> QED
      BY <1>3, <2>1, ScheduledActions DEF Scheduled
  <1>11. CASE /\ a.kind = "DeleteWorkspace"
              /\ workspaces' = Drop(workspaces, a.id)
              /\ UNCHANGED snapshots
    <2>1. /\ DOMAIN workspaces' = DOMAIN workspaces \ {a.id}
          /\ \A w \in DOMAIN workspaces' : workspaces'[w] = workspaces[w]
      BY <1>11, DropFacts
    <2>2. \A b \in Range(queue') : Purgeable(b)'
      <3> SUFFICES ASSUME NEW b \in Range(queue') PROVE Purgeable(b)'
        OBVIOUS
      <3>1. Purgeable(b)
        BY <1>3, <1>4
      <3>2. CASE b.kind = "DeleteWorkspace"
        BY <1>8, <1>11, <2>1, <3>1, <3>2 DEF Purgeable, Deleted
      <3>3. CASE b.kind # "DeleteWorkspace"
        BY <1>11, <2>1, <3>1, <3>3 DEF Purgeable, SnapshotPurgeable, UsedByBranch
      <3> QED
        BY <3>2, <3>3
    <2>3. \A b \in Range(plan.actions) : b \in Range(queue') \/ Done(b)'
      BY <1>3, <1>4, <1>11, <2>1 DEF Done
    <2>4. \A w \in Expired(Metadata', plan.at) : WorkspaceAction(w) \in Range(queue')
      <3> SUFFICES ASSUME NEW w \in Expired(Metadata', plan.at)
                   PROVE  WorkspaceAction(w) \in Range(queue')
        OBVIOUS
      <3>1. w \in Expired(Metadata, plan.at) /\ w # a.id
        BY <2>1 DEF Expired, Metadata
      <3> QED
        BY <1>3, <1>4, <1>9, <3>1
    <2>5. Scheduled' = Scheduled
      BY <1>3, <1>9, <1>10, <1>11
    <2>6. NewestAreKept'
      BY <1>1, <1>4, <1>11, <2>5 DEF NewestAreKept
    <2> QED
      BY <1>1, <1>5, <2>2, <2>3, <2>4, <2>6 DEF Running, Idle
  <1>12. CASE /\ a.kind = "DeleteSnapshot"
              /\ snapshots' = Drop(snapshots, a.id)
              /\ UNCHANGED workspaces
    <2>1. /\ DOMAIN snapshots' = DOMAIN snapshots \ {a.id}
          /\ \A s \in DOMAIN snapshots' : snapshots'[s] = snapshots[s]
      BY <1>12, DropFacts
    <2>2. \A b \in Range(queue') : Purgeable(b)'
      <3> SUFFICES ASSUME NEW b \in Range(queue') PROVE Purgeable(b)'
        OBVIOUS
      <3>1. Purgeable(b) /\ b \in GcAction
        BY <1>3, <1>4, <1>6
      <3>2. CASE b.kind = "DeleteWorkspace"
        BY <1>12, <3>1, <3>2 DEF Purgeable, Deleted
      <3>3. CASE b.kind = "DeleteSnapshot"
        BY <1>8, <1>12, <2>1, <3>1, <3>3 DEF Purgeable, SnapshotPurgeable, UsedByBranch
      <3> QED
        BY <3>1, <3>2, <3>3 DEF GcAction
    <2>3. \A b \in Range(plan.actions) : b \in Range(queue') \/ Done(b)'
      BY <1>3, <1>4, <1>12, <2>1 DEF Done
    <2>4. \A w \in Expired(Metadata', plan.at) : WorkspaceAction(w) \in Range(queue')
      BY <1>3, <1>4, <1>9, <1>12 DEF Expired, Metadata
    <2>5. SnapshotAction(a.id) = a /\ a.id \in SnapshotIds
      BY <1>3, <1>12 DEF GcAction, SnapshotAction
    <2>6. Scheduled' = Scheduled \ {a.id} /\ a.id \in Scheduled
      BY <1>3, <1>5, <1>9, <1>10, <2>5
    <2>7. ASSUME NEW s \in Scheduled'
          PROVE  Cardinality({t \in DOMAIN snapshots' \ Scheduled' :
                   /\ snapshots'[t].workspace = snapshots'[s].workspace
                   /\ snapshots'[t].created >= snapshots'[s].created}) >= Retain
      <3>1. s \in DOMAIN snapshots
        BY <1>4, <1>9, <1>10, <2>6 DEF Purgeable, SnapshotPurgeable
      <3>2. DOMAIN snapshots' \ Scheduled' = DOMAIN snapshots \ Scheduled
        BY <2>1, <2>6
      <3>3. {t \in DOMAIN snapshots' \ Scheduled' :
               /\ snapshots'[t].workspace = snapshots'[s].workspace
               /\ snapshots'[t].created >= snapshots'[s].created}
              = {t \in DOMAIN snapshots \ Scheduled :
                   /\ snapshots[t].workspace = snapshots[s].workspace
                   /\ snapshots[t].created >= snapshots[s].created}
        BY <2>1, <2>6, <3>1, <3>2
      <3> QED
        BY <1>1, <1>4, <2>6, <3>3 DEF NewestAreKept
    <2>8. NewestAreKept'
      BY <2>7 DEF NewestAreKept
    <2> QED
      BY <1>1, <1>5, <2>2, <2>3, <2>4, <2>8 DEF Running, Idle
  <1> QED
    BY <1>7, <1>11, <1>12

(* Only its own actions, and the clock, leave a plan fresh.                *)
LEMMA NextRunning == Typed /\ Running /\ [CollectorNext]_collectorVars => Running'
PROOF
  <1> SUFFICES ASSUME Typed, Running, [CollectorNext]_collectorVars PROVE Running'
    OBVIOUS
  <1>1. CASE MakePlan
    BY <1>1 DEF MakePlan, Running, Idle, Metadata
  <1>2. CASE RunPlan
    BY <1>2, RunStarts
  <1>3. CASE Collect
    <2>1. CASE fresh'
      BY <1>3, <2>1, RunGoesOn
    <2>2. CASE ~fresh'
      BY <2>2 DEF Running
    <2> QED
      BY <2>1, <2>2
  <1>4. ASSUME UNCHANGED <<workspaces, snapshots, policies, queue, plan, fresh>>
        PROVE  Running'
    <2>1. Metadata' = Metadata
      BY <1>4 DEF Metadata
    <2>2. NewestAreKept' <=> NewestAreKept
      BY <1>4 DEF NewestAreKept, Scheduled
    <2>3. \A a : (Purgeable(a)' <=> Purgeable(a)) /\ (Done(a)' <=> Done(a))
      BY <1>4 DEF Purgeable, Done, Deleted, SnapshotPurgeable, UsedByBranch
    <2> QED
      BY <1>4, <2>1, <2>2, <2>3 DEF Running, Idle
  <1>5. CASE Elsewhere
    <2>1. CASE fresh' = FALSE
      BY <2>1 DEF Running
    <2>2. CASE Tick /\ UNCHANGED fresh
      BY <1>4, <1>5, <2>2 DEF Elsewhere, Tick
    <2> QED
      BY <1>5, <2>1, <2>2 DEF Elsewhere
  <1>6. CASE UNCHANGED collectorVars
    BY <1>4, <1>6 DEF collectorVars
  <1> QED
    BY <1>1, <1>2, <1>3, <1>5, <1>6 DEF CollectorNext

LEMMA AlwaysRunning == CollectorSpec => [](Typed /\ Running)
BY CollectorInitTyped, CollectorNextTyped, InitRunning, NextRunning, PTL DEF CollectorSpec

(* While a fresh plan runs, each snapshot still to go leaves Retain others *)
(* of its workspace behind that are not older (gc.rs:53).                  *)
THEOREM NewestAlwaysKept == CollectorSpec => []NewestAreKept
PROOF
  <1>1. Typed /\ Running => NewestAreKept
    <2> SUFFICES ASSUME Running, fresh PROVE NewestAreKept
      BY DEF NewestAreKept
    <2>1. CASE ~Idle
      BY <2>1 DEF Running
    <2>2. CASE Idle
      <3>1. Scheduled = {}
        BY <2>2 DEF Scheduled, Idle
      <3> QED
        BY <3>1 DEF NewestAreKept
    <2> QED
      BY <2>1, <2>2
  <1> QED
    BY <1>1, AlwaysRunning, PTL

-----------------------------------------------------------------------------
(* Where no command fails.                                                 *)

(* The steps of the collector are steps of the control plane, or change    *)
(* nothing but the list.                                                   *)
LEMMA CollectorClean ==
  ASSUME Undisturbed
  PROVE  CollectorSpec => [](Typed /\ Running /\ Due /\ Clean)
PROOF
  <1>1. CollectorInit => Clean
    BY InitClean DEF CollectorInit
  <1>2. Typed /\ Clean /\ [CollectorNext]_collectorVars => Clean'
    <2> SUFFICES ASSUME Typed, Clean, [CollectorNext]_collectorVars PROVE Clean'
      OBVIOUS
    <2>1. ASSUME UNCHANGED <<workspaces, snapshots, disk>> PROVE Clean'
      BY <2>1 DEF Clean, NothingLeaks
    <2>2. ASSUME Operation \/ GcStep \/ Tick \/ Restart PROVE Clean'
      BY <2>2, NextClean DEF Next, Typed, CollectorTypeOK
    <2> QED
      BY <2>1, <2>2 DEF CollectorNext, MakePlan, RunPlan, ExecuteGcActions, Collect,
           Elsewhere, collectorVars
  <1> QED
    BY <1>1, <1>2, AlwaysDue, AlwaysRunning, PTL DEF CollectorSpec

(* Storage has what the metadata has, with nothing inside.                 *)
LEMMA FreshActionsCan ==
  ASSUME Typed, Running, Clean, fresh, queue # <<>>
  PROVE  CanPurge(Head(queue))
PROOF
  <1>1. Head(queue) \in Range(queue) /\ Head(queue) \in GcAction
    <2>1. queue \in Seq(GcAction)
      BY DEF Typed, CollectorTypeOK, TypeOK
    <2> QED
      BY <2>1, ListFacts, HeadTailProperties
  <1>2. Purgeable(Head(queue))
    BY <1>1 DEF Running, Idle
  <1>3. CASE Head(queue).kind = "DeleteWorkspace"
    BY <1>2, <1>3 DEF Purgeable, CanPurge, Deleted, Clean, NothingLeaks
  <1>4. CASE Head(queue).kind # "DeleteWorkspace"
    BY <1>2, <1>4 DEF Purgeable, CanPurge, SnapshotPurgeable, Clean, NothingLeaks
  <1> QED
    BY <1>3, <1>4

(* Where no command fails, a plan that is run before anything else happens *)
(* never aborts (gc.rs:41, control.rs:225).                                *)
THEOREM FreshPlansComplete ==
  ASSUME Undisturbed
  PROVE  CollectorSpec => []FreshPlanCompletes
PROOF
  <1>1. Typed /\ Running /\ Clean => FreshPlanCompletes
    BY FreshActionsCan DEF FreshPlanCompletes
  <1> QED
    BY <1>1, CollectorClean, PTL

\* After one pass no workspace is due any more, after a second no snapshot; and
\* a plan that was run is of no use a second time.
Passes ==
  passes >= 1 =>
    /\ Expired(Metadata, clock) = {}
    /\ ~fresh => \A a \in Range(plan.actions) : Done(a)
    /\ fresh => /\ plan.at = clock
                /\ \A a \in Range(plan.actions) : a.kind = "DeleteSnapshot"
    /\ fresh /\ ~Idle =>
         \A s \in Surplus(Metadata) \ Protected(Metadata) : SnapshotAction(s) \in Range(queue)
    /\ passes = 2 => /\ Surplus(Metadata) \ Protected(Metadata) = {}
                     /\ fresh => plan.actions = <<>>

LEMMA InitPasses == CollectorInit => Passes
BY DEF CollectorInit, Passes

(* One action of a fresh plan: what it names goes, and what is due or      *)
(* surplus afterwards was so before.                                       *)
LEMMA FreshStep ==
  ASSUME Undisturbed, Typed, Running, Due, Clean, Collect, fresh, NEW a, a = Head(queue)
  PROVE  /\ queue' = Tail(queue)
         /\ Done(a)'
         /\ \A b : Done(b) => Done(b)'
         /\ Expired(Metadata', plan.at) \subseteq Expired(Metadata, plan.at)
         /\ a.kind = "DeleteWorkspace" => a.id \notin Expired(Metadata', plan.at)
         /\ a.kind = "DeleteSnapshot" =>
              /\ UNCHANGED workspaces
              /\ Surplus(Metadata') \ Protected(Metadata')
                   \subseteq (Surplus(Metadata) \ Protected(Metadata)) \ {a.id}
PROOF
  <1>1. TypeOK /\ a \in GcAction /\ queue # <<>>
    BY GcStepFacts DEF Collect, Typed, CollectorTypeOK
  <1>2. PICK ok \in BOOLEAN :
          Purge(a, ok) /\ queue' = IF ok THEN Tail(queue) ELSE <<>>
    BY GcStepFacts DEF Collect
  <1>3. CanPurge(a)
    BY <1>1, FreshActionsCan
  <1>4. ok
    BY <1>1, <1>2, <1>3 DEF CanPurge, Purge, PurgeWorkspace, PurgeSnapshot, Undisturbed,
         BtrfsDeleteWorkspace, BtrfsDeleteSnapshot, Command, Ok, GcAction
  <1>5. CASE /\ a.kind = "DeleteWorkspace"
             /\ workspaces' = Drop(workspaces, a.id)
             /\ UNCHANGED snapshots
    <2>1. /\ DOMAIN workspaces' = DOMAIN workspaces \ {a.id}
          /\ \A w \in DOMAIN workspaces' : workspaces'[w] = workspaces[w]
      BY <1>5 DEF Drop, Restrict
    <2>2. /\ Expired(Metadata', plan.at) \subseteq Expired(Metadata, plan.at)
          /\ a.id \notin Expired(Metadata', plan.at)
      BY <2>1 DEF Expired, Metadata
    <2>3. Done(a)' /\ \A b : Done(b) => Done(b)'
      BY <1>5, <2>1 DEF Done
    <2> QED
      BY <1>2, <1>4, <1>5, <2>2, <2>3
  <1>6. CASE /\ a.kind = "DeleteSnapshot"
             /\ snapshots' = Drop(snapshots, a.id)
             /\ UNCHANGED workspaces
    <2>1. /\ DOMAIN snapshots' = DOMAIN snapshots \ {a.id}
          /\ \A s \in DOMAIN snapshots' : snapshots'[s] = snapshots[s]
      BY <1>6 DEF Drop, Restrict
    <2>2. Expired(Metadata', plan.at) = Expired(Metadata, plan.at)
      BY <1>6 DEF Expired, Metadata
    <2>3. Done(a)' /\ \A b : Done(b) => Done(b)'
      BY <1>6, <2>1 DEF Done
    <2>4. Surplus(Metadata') \subseteq Surplus(Metadata)
      <3> DEFINE m == Metadata
                 n == Metadata'
      <3>1. IsFiniteSet(DOMAIN m.snapshots)
        BY DEF Typed, Finite, Metadata
      <3>2. \A s \in DOMAIN n.snapshots :
              s \in DOMAIN m.snapshots /\ n.snapshots[s] = m.snapshots[s]
        BY <2>1 DEF Metadata
      <3> HIDE DEF m, n
      <3>3. Surplus(n) \subseteq Surplus(m)
        BY <3>1, <3>2, SurplusShrinks
      <3> QED
        BY <3>3 DEF m, n
    <2>5. Protected(Metadata') = Protected(Metadata)
      BY <1>6 DEF Protected, Metadata
    <2>6. a.id \notin Surplus(Metadata')
      BY <2>1 DEF Surplus, Metadata
    <2> QED
      BY <1>2, <1>4, <1>6, <2>2, <2>3, <2>4, <2>5, <2>6
  <1> QED
    BY <1>1, <1>2, <1>4, <1>5, <1>6, PurgeTakesOne

(* The step that ends a pass, or one before it.                            *)
LEMMA CollectPasses ==
  ASSUME Undisturbed, Typed, Running, Due, Clean, Passes, Collect, fresh
  PROVE  Passes'
PROOF
  <1> DEFINE todo(m) == Surplus(m) \ Protected(m)
  <1>1. /\ queue # <<>>
        /\ UNCHANGED <<plan, clock>>
        /\ fresh' <=> queue' # <<>>
        /\ passes' = IF plan.at = clock /\ queue' = <<>> /\ passes < 2
                     THEN passes + 1 ELSE passes
        /\ passes \in 0..2
    BY GcStepFacts DEF Collect, Typed, CollectorTypeOK
  <1>2. PICK a \in GcAction : a = Head(queue)
    BY GcStepFacts DEF Collect
  <1>3. /\ queue' = Tail(queue)
        /\ Done(a)'
        /\ \A b : Done(b) => Done(b)'
        /\ Expired(Metadata', plan.at) \subseteq Expired(Metadata, plan.at)
        /\ a.kind = "DeleteWorkspace" => a.id \notin Expired(Metadata', plan.at)
        /\ a.kind = "DeleteSnapshot" =>
             /\ UNCHANGED workspaces
             /\ todo(Metadata') \subseteq todo(Metadata) \ {a.id}
    BY <1>2, FreshStep
  <1>4. Range(queue) = {a} \cup Range(queue')
    BY <1>2, <1>3, GcStepFacts DEF Collect
  <1>5. /\ \A b \in Range(plan.actions) : b \in Range(queue) \/ Done(b)
        /\ \A w \in Expired(Metadata, plan.at) : WorkspaceAction(w) \in Range(queue)
        /\ Range(queue) \subseteq Range(plan.actions)
    BY <1>1 DEF Running, Due, Idle
  <1>6. /\ \A w : WorkspaceAction(w).kind = "DeleteWorkspace" /\ WorkspaceAction(w).id = w
        /\ \A s : SnapshotAction(s).kind = "DeleteSnapshot" /\ SnapshotAction(s).id = s
    BY DEF WorkspaceAction, SnapshotAction
  <1> DEFINE m == Metadata
             n == Metadata'
  <1> HIDE DEF todo, m, n
  <1>7. ASSUME passes >= 1
        PROVE  /\ plan.at = clock
               /\ a.kind = "DeleteSnapshot"
               /\ Expired(m, clock) = {}
               /\ \A s \in todo(m) : SnapshotAction(s) \in Range(queue)
               /\ passes # 2
    <2>1. passes # 2
      <3> SUFFICES ASSUME passes = 2 PROVE FALSE
        OBVIOUS
      <3>1. plan.actions = <<>>
        BY DEF Passes
      <3> QED
        BY <1>4, <1>5, <3>1, EmptyList
    <2>2. a.kind = "DeleteSnapshot"
      BY <1>4, <1>5, <1>7 DEF Passes
    <2> QED
      BY <1>1, <1>7, <2>1, <2>2 DEF Passes, Idle, todo, m
  <1>8. CASE queue' = <<>>
    <2>1. Range(queue) = {a}
      BY <1>4, <1>8, EmptyList
    <2>2. \A b \in Range(plan.actions) : Done(b)'
      BY <1>3, <1>5, <2>1
    <2>3. plan.at = clock => Expired(n, clock) = {}
      BY <1>3, <1>5, <1>6, <2>1 DEF m, n
    <2>4. passes >= 1 => todo(n) = {}
      BY <1>3, <1>6, <1>7, <2>1 DEF m, n
    <2>5. passes' >= 1 => plan.at = clock
      BY <1>1, <1>7
    <2>6. passes' = 2 => passes >= 1
      BY <1>1
    <2>7. ~fresh'
      BY <1>1, <1>8
    <2> QED
      BY <1>1, <2>2, <2>3, <2>4, <2>5, <2>6, <2>7 DEF Passes, todo, n
  <1>9. CASE queue' # <<>>
    <2> SUFFICES ASSUME passes' >= 1 PROVE Passes'
      BY DEF Passes
    <2>1. passes >= 1 /\ passes' # 2 /\ fresh'
      BY <1>1, <1>7, <1>9
    <2>2. Expired(n, clock) = {}
      BY <1>3, <1>7, <2>1 DEF m, n
    <2>3. \A s \in todo(n) : SnapshotAction(s) \in Range(queue')
      BY <1>3, <1>4, <1>6, <1>7, <2>1 DEF m, n
    <2>4. \A b \in Range(plan.actions) : b.kind = "DeleteSnapshot"
      BY <1>1, <2>1 DEF Passes
    <2> QED
      BY <1>1, <1>7, <2>1, <2>2, <2>3, <2>4 DEF Passes, todo, n
  <1> QED
    BY <1>8, <1>9

(* A pass leaves nothing due, a plan that was run does nothing again, and  *)
(* whatever else happens starts the count anew.                            *)
LEMMA NextPasses ==
  ASSUME Undisturbed
  PROVE  Typed /\ Running /\ Due /\ Clean /\ Passes /\ [CollectorNext]_collectorVars
           => Passes'
PROOF
  <1> SUFFICES ASSUME Typed, Running, Due, Clean, Passes, [CollectorNext]_collectorVars
               PROVE  Passes'
    OBVIOUS
  <1>1. CASE MakePlan
    <2>1. /\ UNCHANGED <<clock, passes>>
          /\ Metadata' = Metadata
          /\ plan'.actions = PlanGc(Metadata, clock)
          /\ plan'.at = clock
          /\ Idle'
          /\ fresh'
      BY <1>1 DEF MakePlan, Idle, Metadata
    <2>2. Range(plan'.actions) = Asked(Metadata, clock)
      BY <2>1, PlanRange
    <2>3. ASSUME Expired(Metadata, clock) = {}
          PROVE  \A a \in Asked(Metadata, clock) : a.kind = "DeleteSnapshot"
      BY <2>3 DEF Asked, SnapshotAction
    <2>4. ASSUME Expired(Metadata, clock) = {}, Surplus(Metadata) \ Protected(Metadata) = {}
          PROVE  plan'.actions = <<>>
      <3>1. Asked(Metadata, clock) = {}
        BY <2>4 DEF Asked
      <3> QED
        BY <2>1, <3>1, MetadataWellFormed, NothingAsked DEF Typed, CollectorTypeOK
    <2> QED
      BY <2>1, <2>2, <2>3, <2>4 DEF Passes
  <1>2. CASE RunPlan
    <2>1. /\ UNCHANGED <<clock, passes, plan, fresh>>
          /\ workspaces' = workspaces /\ snapshots' = snapshots
          /\ Metadata' = Metadata
          /\ Idle
          /\ queue' = plan.actions
      BY <1>2 DEF RunPlan, ExecuteGcActions, Metadata
    <2>2. fresh => Range(plan.actions) = Asked(Metadata, plan.at)
      BY <2>1, PlanRange DEF Running
    <2>3. fresh => \A s \in Surplus(Metadata) \ Protected(Metadata) :
                     SnapshotAction(s) \in Range(queue')
      BY <2>1, <2>2 DEF Asked
    <2>4. \A a : Done(a)' <=> Done(a)
      BY <2>1 DEF Done
    <2> QED
      BY <2>1, <2>3, <2>4 DEF Passes
  <1>3. CASE Collect
    <2>1. CASE fresh
      BY <1>3, <2>1, CollectPasses
    <2>2. CASE ~fresh
      <3> SUFFICES ASSUME passes' >= 1 PROVE Passes'
        BY DEF Passes
      <3>1. passes' = passes /\ ~fresh' /\ UNCHANGED <<plan, clock>>
        BY <1>3, <2>2, GcStepFacts DEF Collect
      <3>2. PICK a \in GcAction : a = Head(queue)
        BY <1>3, GcStepFacts DEF Collect
      <3>3. Done(a)
        BY <1>3, <2>2, <3>1, <3>2, GcStepFacts DEF Collect, Passes, Due
      <3>4. PICK ok \in BOOLEAN : Purge(a, ok)
        BY <1>3, <3>2, GcStepFacts DEF Collect
      <3>5. UNCHANGED <<workspaces, snapshots>>
        <4>1. ~Purgeable(a)
          BY <3>3 DEF Done, Purgeable, Deleted, SnapshotPurgeable
        <4> QED
          BY <3>4, <4>1, PurgeTakesOne DEF Typed, CollectorTypeOK, Purgeable
      <3>6. Metadata' = Metadata /\ \A b : Done(b)' <=> Done(b)
        BY <1>3, <3>5 DEF Collect, GcStep, Metadata, Done
      <3> QED
        BY <2>2, <3>1, <3>6 DEF Passes
    <2> QED
      BY <2>1, <2>2
  <1>4. CASE Elsewhere
    BY <1>4 DEF Elsewhere, Passes
  <1>5. CASE UNCHANGED collectorVars
    <2>1. Metadata' = Metadata /\ (Idle' <=> Idle) /\ \A a : Done(a)' <=> Done(a)
      BY <1>5 DEF collectorVars, Metadata, Idle, Done
    <2> QED
      BY <1>5, <2>1 DEF collectorVars, Passes
  <1> QED
    BY <1>1, <1>2, <1>3, <1>4, <1>5 DEF CollectorNext

(* Where no command fails, two plans made and run in a row leave nothing   *)
(* to collect at that time (gc.rs:28).                                     *)
THEOREM TwoPassesAlwaysSettle ==
  ASSUME Undisturbed
  PROVE  CollectorSpec => []TwoPassesSettle
PROOF
  <1>1. Typed /\ Running /\ Due /\ Clean /\ Passes /\ [CollectorNext]_collectorVars
          => Passes'
    BY NextPasses
  <1>2. Typed /\ Passes => TwoPassesSettle
    <2> SUFFICES ASSUME Typed, Passes, passes = 2 PROVE PlanGc(Metadata, clock) = <<>>
      BY DEF TwoPassesSettle
    <2>1. Asked(Metadata, clock) = {}
      BY DEF Passes, Asked
    <2> QED
      BY <2>1, MetadataWellFormed, NothingAsked DEF Typed, CollectorTypeOK
  <1> QED
    BY <1>1, <1>2, CollectorClean, InitPasses, PTL DEF CollectorSpec
=============================================================================
