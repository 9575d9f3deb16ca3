------------------------ MODULE EvalRunOrder_proofs ------------------------
(***************************************************************************)
(* Proofs about EvalRun, continued: the order in which a reconcile creates *)
(* and deletes objects (policy before Job, Job before run), and the retry  *)
(* budget.  Each rests on what the stale caches can still say.             *)
(***************************************************************************)
EXTENDS EvalRun_proofs

-----------------------------------------------------------------------------
(***************************************************************************)
(* A run that is gone stays gone, and its finalizer stays while it lives   *)
(***************************************************************************)

\* What the reconcile under way knows: it removes the finalizer of a run that is
\* being deleted, after the Job, and never works for a live run without finalizer.
FinalizerInv ==
    /\ run.live => /\ runC.fin => run.fin
                   /\ runC.del => run.del
                   /\ ~run.fin => job.st = "none" /\ rec.pc = "idle"
                   /\ rec.pc = "unfin" \/ rec.next = "unfin" => run.del
    /\ rec.pc = "unfin" => job.st = "none"

\* A new run has no finalizer, no Job and no reconcile.
LEMMA FinalizerInvInit == Init => FinalizerInv
BY DEF Init, FinalizerInv, GoneRun, IdleRec

\* The controller's steps preserve FinalizerInv.
LEMMA FinalizerController ==
    ASSUME TypeInv, FinalizerInv, Controller
    PROVE  FinalizerInv'
<1> USE DEF FinalizerInv
<1>0. /\ run.st \in Status /\ runC.st \in Status /\ podC \in PodView /\ Shaped(rec)
      /\ rec \in Rec /\ run \in Run /\ job \in [n : 0..MaxJobs, st : JobStates]
  BY DEF TypeInv, TypeOK, Run
<1>1. IdleRec.pc = "idle" /\ IdleRec.next = "idle"
  BY DEF IdleRec
<1>2. CASE RecAdopt
  <2>1. StartFrom(run.st).pc # "unfin" /\ StartFrom(run.st).next # "unfin"
    BY <1>0, StartPlan DEF PlanOf
  <2> QED BY <1>0, <1>2, <2>1 DEF RecAdopt, cluster, caches, Run
<1>3. CASE RecRead
  <2>1. StartFrom(runC.st).pc # "unfin" /\ StartFrom(runC.st).next # "unfin"
    BY <1>0, StartPlan DEF PlanOf
  <2> QED BY <1>3, <2>1 DEF RecRead, cluster, caches
<1>4. CASE RecFinalize
  BY <1>4 DEF RecFinalize, IdleRec, cluster, caches
<1>5. CASE EnsurePolicy
  <2>1. rec'.pc # "unfin" /\ rec'.next # "unfin"
    BY <1>0, <1>5, LookPlan DEF EnsurePolicy, Shaped, PlanOf, Rec
  <2> QED BY <1>5, <2>1 DEF EnsurePolicy, caches
<1>6. CASE CreateJob
  <2>1. rec'.pc # "unfin" /\ rec'.next # "unfin"
    BY <1>1, <1>6 DEF CreateJob, Finish, fail, Step, IdleRec
  <2> QED BY <1>0, <1>6, <2>1 DEF CreateJob, caches
<1>7. CASE FlipNetPhase
  <2>1. rec'.pc # "unfin" /\ rec'.next # "unfin"
    BY <1>0, <1>1, <1>7 DEF FlipNetPhase, Step, IdleRec, Shaped
  <2> QED BY <1>7, <2>1 DEF FlipNetPhase, caches
<1>8. CASE DeleteJob
  BY <1>0, <1>8 DEF DeleteJob, caches, Rec
<1>9. CASE DeletePolicy
  <2>1. rec'.pc # "unfin" /\ rec'.next # "unfin"
    BY <1>0, <1>9 DEF DeletePolicy, Shaped, Rec
  <2> QED BY <1>9, <2>1 DEF DeletePolicy, caches
<1>10. CASE PatchStatus
  BY <1>0, <1>1, <1>10 DEF PatchStatus, cluster, caches, Run
<1>11. CASE RemoveFinalizer
  BY <1>0, <1>1, <1>11 DEF RemoveFinalizer, cluster, caches, Run, GoneRun
<1>12. CASE RecAbort
  BY <1>1, <1>12 DEF RecAbort, caches
<1> QED BY <1>2, <1>3, <1>4, <1>5, <1>6, <1>7, <1>8, <1>9, <1>10, <1>11, <1>12
        DEF Controller, Reconcile, Continue

\* So does every other step of the system.
LEMMA FinalizerOthers ==
    ASSUME TypeInv, FinalizerInv, Next, ~Controller
    PROVE  FinalizerInv'
<1> USE DEF FinalizerInv
<1>0. run \in Run /\ job \in [n : 0..MaxJobs, st : JobStates]
  BY DEF TypeInv, TypeOK
<1>1. CASE Sync
  BY <1>1 DEF Sync, SyncRun, SyncJob, SyncPolicy, SyncPod, others
<1>2. ASSUME NEW i \in JobIds, EvStep(i) PROVE FinalizerInv'
  <2>1. \A new : EvPatch(new) => /\ run'.live = run.live
                                 /\ run'.fin = run.fin /\ run'.del = run.del
    BY <1>0 DEF EvPatch, Run
  <2>2. run'.live = run.live /\ run'.fin = run.fin /\ run'.del = run.del
    BY <1>2, <2>1 DEF EvStep, EvStart, EvAgent, EvResult, EvComplete, EvFail, EvExit
  <2>3. UNCHANGED <<job, rec, runC>>
    BY <1>2 DEF EvStep, EvStart, EvAgent, EvResult, EvComplete, EvFail, EvExit, evRest, caches
  <2> QED BY <2>2, <2>3
<1>3. CASE DeleteRun
  BY <1>0, <1>3 DEF DeleteRun, caches, Run, GoneRun
<1>4. CASE LoseRefs \/ CollectOrphans \/ JobTTL \/ JobReap
  BY <1>0, <1>4 DEF LoseRefs, CollectOrphans, JobTTL, JobReap, caches, control
<1>5. ASSUME NEW i \in JobIds, KubeStep(i) PROVE FinalizerInv'
  <2>1. UNCHANGED <<run, rec, runC>>
    BY <1>5 DEF KubeStep, StartPod, JobFinish, JobDeadline, OrphanPod, PodGone, PodStep, PodFault,
       caches, control
  <2>2. job.st = "none" => job' = job
    BY <1>5 DEF KubeStep, StartPod, JobFinish, JobDeadline, OrphanPod, PodGone, PodStep, PodFault
  <2> QED BY <2>1, <2>2
<1> QED BY <1>1, <1>2, <1>3, <1>4, <1>5, NextCases

\* FinalizerInv is inductive relative to the types.
LEMMA FinalizerInvNext == TypeInv /\ FinalizerInv /\ [Next]_vars => FinalizerInv'
<1>1. CASE UNCHANGED vars
  BY <1>1 DEF FinalizerInv, vars
<1> QED BY <1>1, FinalizerController, FinalizerOthers

\* Which steps make the run object disappear: the finalizer's removal, and the
\* deletion of a run the controller had not adopted.
LEMMA RunGoes ==
    ASSUME TypeInv, Next, run.live, ~run'.live
    PROVE  RemoveFinalizer \/ (DeleteRun /\ ~run.fin)
<1>0. run \in Run
  BY DEF TypeInv, TypeOK
<1>1. CASE Controller
  BY <1>0, <1>1 DEF Controller, Reconcile, Continue, RecAdopt, RecRead, RecFinalize, EnsurePolicy,
     CreateJob, FlipNetPhase, DeleteJob, DeletePolicy, PatchStatus, RecAbort, cluster, caches, Run
<1>2. CASE Sync
  BY <1>2 DEF Sync, SyncRun, SyncJob, SyncPolicy, SyncPod, others
<1>3. ASSUME NEW i \in JobIds, EvStep(i) PROVE FALSE
  BY <1>0, <1>3 DEF EvStep, EvStart, EvAgent, EvResult, EvComplete, EvFail, EvExit, EvPatch, Run
<1>4. CASE \/ LoseRefs \/ CollectOrphans \/ JobTTL \/ JobReap
           \/ \E i \in JobIds : KubeStep(i)
  BY <1>4 DEF control, LoseRefs, CollectOrphans, JobTTL, JobReap, KubeStep, StartPod,
     JobFinish, JobDeadline, OrphanPod, PodGone, PodStep, PodFault
<1>5. CASE DeleteRun
  BY <1>0, <1>5 DEF DeleteRun, Run
<1> QED BY <1>1, <1>2, <1>3, <1>4, <1>5, NextCases

\* The run object goes only when it has no Job, wherever in a reconcile the deletion
\* falls.
THEOREM FinalizerKeepsJobFirst == Spec => JobDeletedBeforeRun
<1>1. TypeInv /\ FinalizerInv /\ [Next]_vars
        => [run.live /\ ~run'.live => job.st = "none"]_run
  <2> SUFFICES ASSUME TypeInv, FinalizerInv, Next, run.live, ~run'.live PROVE job.st = "none"
    BY DEF vars
  <2>1. RemoveFinalizer \/ (DeleteRun /\ ~run.fin)
    BY RunGoes
  <2> QED BY <2>1 DEF FinalizerInv, RemoveFinalizer
<1> QED BY <1>1, TypeInvInit, TypeInvNext, FinalizerInvInit, FinalizerInvNext, PTL
        DEF Spec, JobDeletedBeforeRun

-----------------------------------------------------------------------------
(***************************************************************************)
(* The egress policy covers the Job until the teardown                     *)
(***************************************************************************)

\* Until the controller takes the policy down, its cache is right to believe in it,
\* and a reconcile about to create the Job or to label the pod has seen to it.
Covered ==
    /\ policyC => policy
    /\ rec.pc \in {"create", "flip"} => policy
    /\ job.st # "none" => policy
    /\ \A i \in JobIds : pods[i].evl => policy

CoverInv == run.live /\ ~hist.torn => Covered

\* A new run has neither Job nor labelled pod.
LEMMA CoverInvInit == Init => CoverInv
BY DEF Init, CoverInv, Covered, IdleRec, NoPod

\* The controller's steps keep the run covered, or are the teardown.
LEMMA CoverController ==
    ASSUME TypeInv, Covered, Controller, run.live, ~hist'.torn
    PROVE  Covered'
<1> USE DEF Covered
<1>0. /\ run.st \in Status /\ runC.st \in Status /\ podC \in PodView /\ Shaped(rec)
      /\ rec \in Rec /\ run \in Run /\ job \in [n : 0..MaxJobs, st : JobStates]
      /\ pods \in [JobIds -> Pod] /\ hist \in [won : BOOLEAN, torn : BOOLEAN]
  BY DEF TypeInv, TypeOK, Run
<1>1. IdleRec.pc = "idle"
  BY DEF IdleRec
<1>2. CASE RecAdopt
  BY <1>0, <1>2, StartPlan DEF RecAdopt, cluster, caches
<1>3. CASE RecRead
  BY <1>0, <1>3, StartPlan DEF RecRead, cluster, caches
<1>4. CASE RecFinalize
  BY <1>4 DEF RecFinalize, IdleRec, cluster, caches
<1>5. CASE EnsurePolicy
  BY <1>5 DEF EnsurePolicy, caches
<1>6. CASE CreateJob
  <2>1. rec'.pc \notin {"create", "flip"}
    BY <1>1, <1>6 DEF CreateJob, Finish, fail, Step, IdleRec
  <2> QED BY <1>6, <2>1 DEF CreateJob, caches
<1>7. CASE FlipNetPhase
  BY <1>7 DEF FlipNetPhase, caches
<1>8. CASE DeleteJob
  <2>1. rec'.pc \notin {"create", "flip"}
    BY <1>0, <1>8 DEF DeleteJob, Shaped, Rec
  <2> QED BY <1>0, <1>8, <2>1 DEF DeleteJob, caches
<1>9. CASE DeletePolicy
  <2>1. rec'.pc \notin {"create", "flip"}
    BY <1>0, <1>9 DEF DeletePolicy, Shaped, Rec
  <2> QED BY <1>0, <1>9, <2>1 DEF DeletePolicy, caches
<1>10. CASE PatchStatus
  BY <1>1, <1>10 DEF PatchStatus, cluster, caches
<1>11. CASE RemoveFinalizer
  BY <1>1, <1>11 DEF RemoveFinalizer, cluster, caches
<1>12. CASE RecAbort
  BY <1>1, <1>12 DEF RecAbort, caches
<1> QED BY <1>2, <1>3, <1>4, <1>5, <1>6, <1>7, <1>8, <1>9, <1>10, <1>11, <1>12
        DEF Controller, Reconcile, Continue

\* The other steps keep the run covered: none of them creates a Job, labels a pod
\* or deletes the policy of a live run.
LEMMA CoverOthers ==
    ASSUME TypeInv, Covered, Next, ~Controller, run.live
    PROVE  Covered'
<1> USE DEF Covered
<1>0. pods \in [JobIds -> Pod] /\ job \in [n : 0..MaxJobs, st : JobStates]
  BY DEF TypeInv, TypeOK
<1>1. CASE Sync
  BY <1>1 DEF Sync, SyncRun, SyncJob, SyncPolicy, SyncPod, others
<1>2. ASSUME NEW i \in JobIds, NEW p, SetPod(i, p), p.evl => pods[i].evl
      PROVE  \A k \in JobIds : pods'[k].evl => pods[k].evl
  BY <1>0, <1>2 DEF SetPod
<1>3. ASSUME NEW i \in JobIds, EvStep(i) PROVE Covered'
  <2>1. UNCHANGED <<policy, policyC, rec, job>>
    BY <1>3 DEF EvStep, EvStart, EvAgent, EvResult, EvComplete, EvFail, EvExit, evRest, caches
  <2>2. \A k \in JobIds : pods'[k].evl => pods[k].evl
    <3>1. pods[i] \in Pod
      BY <1>0
    <3>2. CASE EvExit(i)
      <4>1. \A s, tm : Ended(pods[i], s, tm).evl = pods[i].evl
        BY <3>1 DEF Ended, Pod
      <4> QED BY <1>2, <3>2, <4>1 DEF EvExit
    <3>3. CASE ~EvExit(i)
      BY <1>2, <1>3, <3>1, <3>3 DEF EvStep, EvStart, EvAgent, EvResult, EvComplete, EvFail, Pod
    <3> QED BY <3>2, <3>3
  <2> QED BY <2>1, <2>2
<1>4. CASE DeleteRun \/ LoseRefs \/ CollectOrphans \/ JobTTL \/ JobReap
  BY <1>0, <1>4 DEF DeleteRun, LoseRefs, CollectOrphans, JobTTL, JobReap, caches, control
<1>5. ASSUME NEW i \in JobIds, KubeStep(i) PROVE Covered'
  <2>1. UNCHANGED <<policy, policyC, rec>>
    BY <1>5 DEF KubeStep, StartPod, JobFinish, JobDeadline, OrphanPod, PodGone, PodStep, PodFault,
       caches, control
  <2>2. job'.st # "none" => job.st # "none"
    BY <1>0, <1>5 DEF KubeStep, StartPod, JobFinish, JobDeadline, OrphanPod, PodGone, PodStep,
       PodFault
  <2>3. \A k \in JobIds : pods'[k].evl => pods[k].evl
    <3>1. pods[i] \in Pod
      BY <1>0
    <3>2. CASE PodFault(i)
      <4>1. \A s, tm : Ended(pods[i], s, tm).evl = pods[i].evl
        BY <3>1 DEF Ended, Pod
      <4> QED BY <1>2, <3>1, <3>2, <4>1 DEF PodFault, Pod
    <3>3. CASE PodStep(i) \/ OrphanPod(i) \/ JobDeadline(i)
      BY <1>2, <3>1, <3>3 DEF PodStep, OrphanPod, JobDeadline, Pod
    <3>4. CASE StartPod(i) \/ PodGone(i)
      BY <1>2, <3>4 DEF StartPod, PodGone, NoPod
    <3>5. CASE JobFinish(i)
      BY <3>5 DEF JobFinish
    <3> QED BY <1>5, <3>2, <3>3, <3>4, <3>5 DEF KubeStep
  <2> QED BY <2>1, <2>2, <2>3
<1> QED BY <1>1, <1>3, <1>4, <1>5, NextCases

\* Neither a run that is gone nor a teardown is undone.
LEMMA Irrevocable ==
    ASSUME TypeInv, Next
    PROVE  (run'.live => run.live) /\ (hist.torn => hist'.torn)
<1>0. run \in Run /\ hist \in [won : BOOLEAN, torn : BOOLEAN]
  BY DEF TypeInv, TypeOK
<1>1. CASE Controller
  BY <1>0, <1>1 DEF Controller, Reconcile, Continue, RecAdopt, RecRead, RecFinalize, EnsurePolicy,
     CreateJob, FlipNetPhase, DeleteJob, DeletePolicy, PatchStatus, RemoveFinalizer, RecAbort,
     cluster, caches, Run, GoneRun
<1>2. CASE Sync
  BY <1>2 DEF Sync, SyncRun, SyncJob, SyncPolicy, SyncPod, others
<1>3. ASSUME NEW i \in JobIds, EvStep(i)
      PROVE  (run'.live => run.live) /\ (hist.torn => hist'.torn)
  BY <1>0, <1>3 DEF EvStep, EvStart, EvAgent, EvResult, EvComplete, EvFail, EvExit, EvPatch, Run
<1>4. CASE \/ DeleteRun \/ LoseRefs \/ CollectOrphans \/ JobTTL \/ JobReap
           \/ \E i \in JobIds : KubeStep(i)
  BY <1>0, <1>4 DEF control, DeleteRun, LoseRefs, CollectOrphans, JobTTL, JobReap, KubeStep,
     StartPod, JobFinish, JobDeadline, OrphanPod, PodGone, PodStep, PodFault, Run, GoneRun
<1> QED BY <1>1, <1>2, <1>3, <1>4, NextCases

\* CoverInv is inductive relative to the types.
LEMMA CoverInvNext == TypeInv /\ CoverInv /\ [Next]_vars => CoverInv'
<1> SUFFICES ASSUME TypeInv, CoverInv, [Next]_vars, run'.live, ~hist'.torn PROVE Covered'
  BY DEF CoverInv
<1>1. CASE Next
  <2>1. run.live /\ Covered
    BY <1>1, Irrevocable DEF CoverInv
  <2> QED BY <1>1, <2>1, CoverController, CoverOthers
<1>2. CASE UNCHANGED vars
  BY <1>2 DEF CoverInv, Covered, vars
<1> QED BY <1>1, <1>2

\* Until the teardown, a Job or a pod labelled `evaluate' never exists without the
\* policy that restricts its egress.
THEOREM PolicyCovers == Spec => []CoveredUntilTeardown
<1>1. CoverInv => CoveredUntilTeardown
  BY DEF CoverInv, Covered, CoveredUntilTeardown
<1> QED BY <1>1, TypeInvInit, TypeInvNext, CoverInvInit, CoverInvNext, PTL DEF Spec

-----------------------------------------------------------------------------
(***************************************************************************)
(* The retry budget                                                        *)
(***************************************************************************)

\* The stored count is the one the cache shows, or one more; a reconcile works from
\* the cached count (from the stored one when it has just adopted the run), and wants
\* that count or its successor.
Budget ==
    /\ runC.fin => run.st.retries \in {runC.st.retries, runC.st.retries + 1}
    /\ Writes(rec) =>
         /\ rec.want.retries \in {rec.orig.retries, rec.orig.retries + 1}
         /\ IF runC.fin THEN rec.orig.retries = runC.st.retries
                        ELSE rec.orig.retries = run.st.retries

BudgetInv == run.live => Budget

\* The cache of a new run shows its count of retries.
LEMMA BudgetInvInit == Init => BudgetInv
<1>1. ~Writes(IdleRec)
  BY DEF Writes, IdleRec
<1> QED BY <1>1 DEF Init, BudgetInv, Budget, GoneRun

\* The controller's steps preserve the budget: a patch writes the cached count or
\* its successor.
LEMMA BudgetController ==
    ASSUME TypeInv, Budget, Controller, run.live, run'.live
    PROVE  Budget' /\ run'.st.retries >= run.st.retries
<1> USE DEF Budget
<1>0. /\ run.st \in Status /\ runC.st \in Status /\ podC \in PodView /\ Shaped(rec)
      /\ rec \in Rec /\ run \in Run /\ rec.orig \in Status /\ rec.want \in Status
  BY DEF TypeInv, TypeOK, Run, Rec
<1>1. ~Writes(IdleRec)
  BY DEF Writes, IdleRec
<1>2. run.st.retries \in Nat /\ runC.st.retries \in Nat /\ rec.orig.retries \in Nat
  BY <1>0, BoundsAssumption DEF Status
<1>3. CASE RecAdopt
  BY <1>0, <1>2, <1>3, StartPlan DEF RecAdopt, PlanOf, cluster, caches, Run
<1>4. CASE RecRead
  <2>1. PlanOf(StartFrom(runC.st), runC.st, jobC = "complete" \/ podC.s = "exit0")
    BY <1>0, StartPlan
  <2> QED BY <1>2, <1>4, <2>1 DEF RecRead, PlanOf, cluster, caches
<1>5. CASE RecFinalize
  <2>1. ~Writes(rec')
    BY <1>5 DEF RecFinalize, Writes, IdleRec
  <2> QED BY <1>2, <1>5, <2>1 DEF RecFinalize, cluster, caches
<1>6. CASE EnsurePolicy
  <2>1. Writes(rec) /\ Reads(rec.orig, rec.want)
    BY <1>0, <1>6 DEF EnsurePolicy, Writes, Shaped
  <2>2. PlanOf(LookAtPod(rec.orig, rec.want), rec.orig, jobC = "complete" \/ podC.s = "exit0")
    BY <1>0, <2>1, LookPlan
  <2>3. Writes(rec') => /\ rec'.orig.retries = rec.orig.retries
                        /\ rec'.want.retries \in {rec.orig.retries, rec.orig.retries + 1}
    BY <1>0, <1>6, <2>1, <2>2 DEF EnsurePolicy, PlanOf, Rec
  <2> QED BY <1>2, <1>6, <2>1, <2>3 DEF EnsurePolicy, caches
<1>7. CASE CreateJob
  <2>1. Writes(rec)
    BY <1>7 DEF CreateJob, Writes
  <2>2. FailedStatus(rec.want) \in Status /\ FailedStatus(rec.want).retries = rec.want.retries
    BY <1>0, StatusEdits
  <2>3. Writes(rec') => rec'.orig = rec.orig /\ rec'.want.retries = rec.want.retries
    BY <1>0, <1>1, <1>7, <2>2 DEF CreateJob, Finish, fail, Step, IdleRec
  <2> QED BY <1>2, <1>7, <2>1, <2>3 DEF CreateJob, caches
<1>8. CASE FlipNetPhase
  <2>1. Writes(rec') => Writes(rec) /\ rec'.orig = rec.orig /\ rec'.want = rec.want
    BY <1>1, <1>8 DEF FlipNetPhase, Step, IdleRec, Writes
  <2> QED BY <1>2, <1>8, <2>1 DEF FlipNetPhase, caches
<1>9. CASE DeleteJob
  <2>1. Writes(rec') => Writes(rec) /\ rec'.orig = rec.orig /\ rec'.want = rec.want
    BY <1>0, <1>9 DEF DeleteJob, Writes, Rec
  <2> QED BY <1>2, <1>9, <2>1 DEF DeleteJob, caches
<1>10. CASE DeletePolicy
  <2>1. Writes(rec') => Writes(rec) /\ rec'.orig = rec.orig /\ rec'.want = rec.want
    BY <1>0, <1>10 DEF DeletePolicy, Writes, Rec
  <2> QED BY <1>2, <1>10, <2>1 DEF DeletePolicy, caches
<1>11. CASE PatchStatus
  <2>1. Writes(rec)
    BY <1>11 DEF PatchStatus, Writes
  <2>2. run'.st.retries = IF rec.want.retries # rec.orig.retries
                          THEN rec.want.retries ELSE run.st.retries
    BY <1>0, <1>11 DEF PatchStatus, MergePatch, Run
  <2>3. run'.st.retries >= run.st.retries
    BY <1>2, <2>1, <2>2
  <2>4. UNCHANGED runC /\ ~Writes(rec')
    BY <1>1, <1>11 DEF PatchStatus, caches
  <2> QED BY <1>2, <2>1, <2>2, <2>3, <2>4
<1>12. CASE RemoveFinalizer
  <2>1. run'.st = run.st /\ UNCHANGED runC /\ ~Writes(rec')
    BY <1>0, <1>1, <1>12 DEF RemoveFinalizer, caches, GoneRun, Run
  <2> QED BY <1>2, <2>1
<1>13. CASE RecAbort
  BY <1>1, <1>2, <1>13 DEF RecAbort, caches
<1> QED BY <1>3, <1>4, <1>5, <1>6, <1>7, <1>8, <1>9, <1>10, <1>11, <1>12, <1>13
        DEF Controller, Reconcile, Continue

\* No other step writes the count of retries; a cache that catches up takes over
\* the stored one.
LEMMA BudgetOthers ==
    ASSUME TypeInv, Budget, Next, ~Controller, run.live, run'.live
    PROVE  Budget' /\ run'.st.retries >= run.st.retries
<1>0. run \in Run /\ run.st \in Status /\ run.st.retries \in Nat /\ runC.st.retries \in Nat
  BY BoundsAssumption DEF TypeInv, TypeOK, Run, Status
<1>1. CASE Sync
  <2>1. ~Writes(rec) /\ UNCHANGED <<run, rec>>
    BY <1>1 DEF Sync, SyncRun, SyncJob, SyncPolicy, SyncPod, others, Writes
  <2>2. runC' = runC \/ runC' = run
    BY <1>1 DEF Sync, SyncRun, SyncJob, SyncPolicy, SyncPod
  <2> QED BY <1>0, <2>1, <2>2 DEF Budget
<1>2. ASSUME run'.st.retries = run.st.retries, UNCHANGED <<runC, rec>>
      PROVE  Budget' /\ run'.st.retries >= run.st.retries
  BY <1>0, <1>2 DEF Budget
<1>3. ASSUME NEW i \in JobIds, EvStep(i)
      PROVE  run'.st.retries = run.st.retries /\ UNCHANGED <<runC, rec>>
  <2>1. \A new : EvPatch(new) /\ new.retries = run.st.retries => run'.st.retries = run.st.retries
    BY <1>0 DEF EvPatch, Run
  <2> QED BY <1>0, <1>3, <2>1 DEF EvStep, EvStart, EvAgent, EvResult, EvComplete, EvFail, EvExit,
             evRest, caches, Status
<1>4. CASE DeleteRun
  <2>1. run'.st.retries = run.st.retries /\ UNCHANGED <<runC, rec>>
    BY <1>0, <1>4 DEF DeleteRun, caches, Run, GoneRun
  <2> QED BY <1>2, <2>1
<1>5. CASE \/ LoseRefs \/ CollectOrphans \/ JobTTL \/ JobReap
           \/ \E i \in JobIds : KubeStep(i)
  <2>1. UNCHANGED <<run, runC, rec>>
    BY <1>5 DEF control, caches, LoseRefs, CollectOrphans, JobTTL, JobReap, KubeStep, StartPod,
       JobFinish, JobDeadline, OrphanPod, PodGone, PodStep, PodFault
  <2> QED BY <1>2, <2>1
<1> QED BY <1>1, <1>2, <1>3, <1>4, <1>5, NextCases

\* BudgetInv is inductive relative to the types.
LEMMA BudgetInvNext == TypeInv /\ BudgetInv /\ [Next]_vars => BudgetInv'
<1> SUFFICES ASSUME TypeInv, BudgetInv, [Next]_vars, run'.live PROVE Budget'
  BY DEF BudgetInv
<1>1. CASE Next
  BY <1>1, Irrevocable, BudgetController, BudgetOthers DEF BudgetInv
<1>2. CASE UNCHANGED vars
  BY <1>2 DEF BudgetInv, Budget, Writes, vars
<1> QED BY <1>1, <1>2

\* status.retries never falls while the run exists: the unversioned merge patch of a
\* reconcile that worked from a stale copy cannot give a retry back.
THEOREM BudgetOnlyShrinks == Spec => RetriesNeverForgotten
<1>1. TypeInv /\ BudgetInv /\ [Next]_vars
        => [run.live /\ run'.live => run'.st.retries >= run.st.retries]_run
  <2> SUFFICES ASSUME TypeInv, BudgetInv, Next, run.live, run'.live
               PROVE  run'.st.retries >= run.st.retries
    BY DEF vars
  <2> QED BY BudgetController, BudgetOthers DEF BudgetInv
<1> QED BY <1>1, TypeInvInit, TypeInvNext, BudgetInvInit, BudgetInvNext, PTL
        DEF Spec, RetriesNeverForgotten
=============================================================================
