--------------------------- MODULE EvalRun_proofs ---------------------------
(***************************************************************************)
(* Proofs about EvalRun, for every value of its constants: no bound on the *)
(* retries, the Jobs, the personas, the lag of the caches or the faults.   *)
(***************************************************************************)
EXTENDS EvalRun, WellFoundedInduction, TLAPS

-----------------------------------------------------------------------------
(***************************************************************************)
(* What the operators of the controller return                             *)
(***************************************************************************)

\* A merge patch of statuses is a status.
LEMMA MergePatchType ==
    ASSUME NEW c \in Status, NEW o \in Status, NEW w \in Status
    PROVE  MergePatch(c, o, w) \in Status
BY DEF MergePatch, Status

\* Accepting and failing a run leave a status with the same retries.
LEMMA StatusEdits ==
    ASSUME NEW s \in Status
    PROVE  /\ Accepted(s) \in Status /\ Accepted(s).retries = s.retries
           /\ Accepted(s).phase = "Completed" <=> s.phase = "Completed"
           /\ FailedStatus(s) \in Status /\ FailedStatus(s).retries = s.retries
           /\ FailedStatus(s).phase = "Failed"
BY DEF Status, Phases, Accepted, FailedStatus

\* A reconcile record made of statuses and of calls is one.
LEMMA StepType ==
    ASSUME NEW o \in Status, NEW w \in Status, NEW pc \in RecStates, NEW nx \in RecStates
    PROVE  /\ Step(o, w, pc, nx) \in Rec
           /\ Step(o, w, pc, nx).orig = o /\ Step(o, w, pc, nx).want = w
           /\ Step(o, w, pc, nx).pc = pc /\ Step(o, w, pc, nx).next = nx
BY DEF Step, Rec, IdleRec, FreshStatus

\* There is no reconcile under way in IdleRec.
LEMMA IdleRecType == IdleRec \in Rec /\ IdleRec.pc = "idle"
BY BoundsAssumption DEF IdleRec, Rec, RecStates, FreshStatus, Status, Phases

\* A phase is only ever raised, and nothing else of the status changes.
LEMMA RaisePhaseType ==
    ASSUME NEW w \in Status, NEW d \in {"Pending", "Cloning", "Running"}
    PROVE  /\ RaisePhase(w, d) \in Status
           /\ RaisePhase(w, d).retries = w.retries
           /\ RaisePhase(w, d).phase = "Completed" => w.phase = "Completed"
BY DEF RaisePhase, Status, Phases

\* The phase derived from a pod is a phase, and never Completed.
LEMMA DerivedPhase ==
    ASSUME NEW p
    PROVE  derivePhaseFromPod(p) \in {"Pending", "Cloning", "Running"}
BY DEF derivePhaseFromPod

-----------------------------------------------------------------------------
(***************************************************************************)
(* What a reconcile that read status o may set out to do                   *)
(***************************************************************************)

\* The status patch that r will come to, if any.
Writes(r) == /\ r.pc \notin {"idle", "unfin"}
             /\ ~(r.pc = "flip" /\ r.next = "idle")
             /\ ~(r.pc = "delJob" /\ r.next = "unfin")

\* The assumptions under which the branches of a reconcile are entered.
Reads(o, w) == /\ o \in Status /\ w \in Status /\ w.retries = o.retries
               /\ w.phase = "Completed" => o.phase = "Completed"

\* Which calls may follow which.
Shaped(r) == /\ r.pc # "look" /\ r.next \notin {"ensure", "flip"}
             /\ r.next = "unfin" => r.pc = "delJob"
             /\ r.next \in {"create", "look"} => r.pc = "ensure"
             /\ r.pc = "ensure" => Reads(r.orig, r.want)

\* r was computed from o: it adds at most one retry, and at the bound none; and it
\* reports success only when `success' says it may.
PlanOf(r, o, success) ==
    /\ r \in Rec /\ Shaped(r)
    /\ r.next # "unfin" /\ r.pc # "unfin"
    /\ Writes(r) => /\ r.orig = o
                    /\ r.want.retries \in {o.retries, o.retries + 1}
                    /\ r.want.phase = "Completed" => o.phase = "Completed" \/ success

\* Ending a reconcile with patchStatus, or with an empty patch, is a plan.
LEMMA FinishPlan ==
    ASSUME NEW o, NEW w, NEW success \in BOOLEAN, Reads(o, w)
    PROVE  PlanOf(Finish(o, w), o, success) /\ Finish(o, w).pc \in {"idle", "patch"}
<1>1. {"patch", "idle"} \subseteq RecStates
  BY DEF RecStates
<1> QED BY <1>1, IdleRecType, StepType DEF Finish, PlanOf, Shaped, Reads, Writes, IdleRec, Status

\* fail() tears the policy down and then patches Failed.
LEMMA FailPlan ==
    ASSUME NEW o, NEW w, NEW success \in BOOLEAN, Reads(o, w)
    PROVE  PlanOf(fail(o, w), o, success) /\ fail(o, w).pc = "delPolicy"
<1>1. {"delPolicy", "patch"} \subseteq RecStates
  BY DEF RecStates
<1> QED BY <1>1, StatusEdits, StepType DEF fail, PlanOf, Shaped, Reads, Writes

\* retryJob() adds one retry below the bound and fails at it.
LEMMA RetryPlan ==
    ASSUME NEW o, NEW w, NEW success \in BOOLEAN, Reads(o, w)
    PROVE  PlanOf(retryJob(o, w), o, success) /\ retryJob(o, w).pc \in {"delPolicy", "delJob"}
<1>1. CASE w.retries >= MaxRetries
  BY <1>1, FailPlan DEF retryJob
<1>2. CASE ~(w.retries >= MaxRetries)
  <2> DEFINE v == [w EXCEPT !.retries = w.retries + 1]
  <2>1. v \in Status /\ v.retries = o.retries + 1 /\ v.phase = w.phase
    BY <1>2, BoundsAssumption DEF Reads, Status
  <2>2. {"delJob", "patch"} \subseteq RecStates
    BY DEF RecStates
  <2>3. retryJob(o, w) = Step(o, v, "delJob", "patch")
    BY <1>2 DEF retryJob
  <2>4. /\ retryJob(o, w) \in Rec /\ retryJob(o, w).orig = o /\ retryJob(o, w).want = v
        /\ retryJob(o, w).pc = "delJob" /\ retryJob(o, w).next = "patch"
    <3> HIDE DEF v
    <3> QED BY <2>1, <2>2, <2>3, StepType DEF Reads
  <2> HIDE DEF v
  <2> QED BY <2>1, <2>4 DEF PlanOf, Shaped, Reads, Writes
<1> QED BY <1>1, <1>2

\* complete() is the branch that may report success.
LEMMA CompletePlan ==
    ASSUME NEW o, NEW w, NEW p, Reads(o, w)
    PROVE  PlanOf(complete(o, w, p), o, TRUE) /\ complete(o, w, p).pc = "delPolicy"
<1> DEFINE v == [w EXCEPT !.phase = "Completed", !.agent = FALSE]
<1>1. v \in Status /\ v.retries = w.retries
  BY DEF Reads, Status, Phases
<1>2. {"delPolicy", "patch"} \subseteq RecStates
  BY DEF RecStates
<1> DEFINE r == Step(o, v, "delPolicy", "patch")
<1>3. r \in Rec /\ r.orig = o /\ r.want = v /\ r.pc = "delPolicy" /\ r.next = "patch"
  <2> HIDE DEF v
  <2> QED BY <1>1, <1>2, StepType DEF Reads
<1>4. PlanOf(r, o, TRUE) /\ r.pc = "delPolicy"
  <2> HIDE DEF r
  <2> QED BY <1>1, <1>3 DEF PlanOf, Shaped, Reads, Writes
<1> QED BY <1>4, FailPlan DEF complete

\* Decide reports success only for a complete Job or an evaluator that exited 0.
LEMMA DecidePlan ==
    ASSUME NEW o, NEW w, NEW c, NEW p, Reads(o, w)
    PROVE  /\ PlanOf(Decide(o, w, c, p), o, c = "complete" \/ p.s = "exit0")
           /\ Decide(o, w, c, p).pc \in {"idle", "patch", "delPolicy", "delJob"}
<1> DEFINE ok == c = "complete" \/ p.s = "exit0"
           f == RaisePhase(w, derivePhaseFromPod(p))
<1>1. ok \in BOOLEAN
  OBVIOUS
<1>2. Reads(o, f)
  BY RaisePhaseType, DerivedPhase DEF Reads
<1>3. PlanOf(Finish(o, f), o, ok) /\ Finish(o, f).pc \in {"idle", "patch"}
  BY <1>1, <1>2, FinishPlan
<1>4. PlanOf(fail(o, w), o, ok) /\ fail(o, w).pc = "delPolicy"
  BY <1>1, FailPlan
<1>5. PlanOf(retryJob(o, w), o, ok) /\ retryJob(o, w).pc \in {"delPolicy", "delJob"}
  BY <1>1, RetryPlan
<1>6. ok => PlanOf(complete(o, w, p), o, ok) /\ complete(o, w, p).pc = "delPolicy"
  BY CompletePlan
<1> QED BY <1>3, <1>4, <1>5, <1>6 DEF Decide

\* The reconcile's first step flips the pod's label only with a pod in view.
LEMMA LookPlan ==
    ASSUME NEW o, NEW w, Reads(o, w), podC \in PodView
    PROVE  /\ PlanOf(LookAtPod(o, w), o, jobC = "complete" \/ podC.s = "exit0")
           /\ LookAtPod(o, w).pc \in {"idle", "patch", "delPolicy", "delJob", "flip"}
<1> DEFINE d == Decide(o, w, jobC, podC)
           f == Step(o, d.want, "flip", d.pc)
           ok == jobC = "complete" \/ podC.s = "exit0"
<1>1. PlanOf(d, o, ok) /\ d.pc \in {"idle", "patch", "delPolicy", "delJob"}
  BY DecidePlan
<1>2. d.want \in Status /\ o \in Status /\ d.pc \in RecStates /\ "flip" \in RecStates
  BY <1>1 DEF PlanOf, Rec, Reads, RecStates
<1>3. f \in Rec /\ f.orig = o /\ f.want = d.want /\ f.pc = "flip" /\ f.next = d.pc
  <2> HIDE DEF d
  <2> QED BY <1>2, StepType
<1>4. PlanOf([f EXCEPT !.n = podC.n], o, ok) /\ [f EXCEPT !.n = podC.n].pc = "flip"
  <2> HIDE DEF d, f
  <2>1. podC.n \in Nat
    BY DEF PodView
  <2>2. d.pc # "idle" => Writes(d)
    BY <1>1 DEF Writes, PlanOf
  <2> QED BY <1>1, <1>3, <2>1, <2>2 DEF PlanOf, Shaped, Writes, Rec
<1>5. LookAtPod(o, w) = IF NeedsFlip(jobC, podC) THEN [f EXCEPT !.n = podC.n] ELSE d
  BY DEF LookAtPod
<1> QED BY <1>1, <1>4, <1>5

\* Everything the reconcile of an accepted run may do first.  It creates a Job or
\* labels a pod only when the cache has the policy.
LEMMA StartPlan ==
    ASSUME NEW s \in Status, podC \in PodView
    PROVE  /\ PlanOf(StartFrom(s), s, jobC = "complete" \/ podC.s = "exit0")
           /\ StartFrom(s).pc \in {"create", "flip"} => policyC
<1> DEFINE w == Accepted(s)
           ok == jobC = "complete" \/ podC.s = "exit0"
           n == IF jobC = "none" THEN "create" ELSE "look"
<1>1. Reads(s, w)
  BY StatusEdits DEF Reads
<1>2. PlanOf(IdleRec, s, ok) /\ IdleRec.pc = "idle"
  BY IdleRecType DEF PlanOf, Shaped, Writes, IdleRec
<1>3. PlanOf(fail(s, w), s, ok) /\ fail(s, w).pc = "delPolicy"
  BY <1>1, FailPlan
<1>4. {"ensure", "create", "patch", "look"} \subseteq RecStates
  BY DEF RecStates
<1>5. PlanOf(Step(s, w, "ensure", n), s, ok) /\ Step(s, w, "ensure", n).pc = "ensure"
  <2> HIDE DEF w
  <2> QED BY <1>1, <1>4, StepType DEF PlanOf, Shaped, Writes, Reads
<1>6. PlanOf(Step(s, w, "create", "patch"), s, ok)
  <2> HIDE DEF w
  <2> QED BY <1>1, <1>4, StepType DEF PlanOf, Shaped, Writes, Reads
<1>7. PlanOf(LookAtPod(s, w), s, ok)
  BY <1>1, LookPlan
<1> HIDE DEF w, ok, n
<1>8. StartFrom(s) = IF IsTerminal(s.phase) THEN IdleRec
                     ELSE IF ~refs THEN fail(s, w)
                     ELSE IF jobC = "deleting" THEN IdleRec
                     ELSE IF ~policyC THEN Step(s, w, "ensure", n)
                     ELSE IF jobC = "none" THEN Step(s, w, "create", "patch")
                     ELSE LookAtPod(s, w)
  BY DEF StartFrom, w, n
<1>9. PlanOf(StartFrom(s), s, ok)
  BY <1>2, <1>3, <1>5, <1>6, <1>7, <1>8
<1>10. StartFrom(s).pc \in {"create", "flip"} => policyC
  BY <1>2, <1>3, <1>5, <1>8
<1> QED BY <1>9, <1>10 DEF ok

-----------------------------------------------------------------------------
(***************************************************************************)
(* The newest pod                                                          *)
(***************************************************************************)

\* A set of numbers up to m that is not empty has a largest member.
LEMMA MaxExists ==
    ASSUME NEW m \in Nat, NEW S \in SUBSET (1..m), S # {}
    PROVE \E i \in S : \A k \in S : k <= i
<1> DEFINE T == {d \in Nat : m - d \in S}
           R == {p \in Nat \X Nat : p[1] < p[2]}
<1>1. T # {} /\ T \subseteq Nat
  <2>1. PICK i \in S : TRUE
    OBVIOUS
  <2>2. i \in 1..m /\ m - i \in Nat /\ m - (m - i) = i
    BY <2>1
  <2> QED BY <2>1, <2>2
<1>2. IsWellFoundedOn(R, Nat)
  BY NatLessThanWellFounded, Zenon DEF OpToRel
<1>3. PICK d \in T : \A y \in T : ~(<<y, d>> \in R)
  <2> HIDE DEF T, R
  <2> QED BY <1>1, <1>2, WFMin
<1>4. \A y \in T : d <= y
  <2> TAKE y \in T
  <2>1. y \in Nat /\ d \in Nat
    OBVIOUS
  <2>2. y < d => <<y, d>> \in R
    BY <2>1
  <2>3. ~(y < d)
    BY <2>2, <1>3
  <2> QED BY <2>1, <2>3
<1>5. m - d \in S /\ d \in Nat
  BY <1>3
<1>6. \A k \in S : k <= m - d
  <2> TAKE k \in S
  <2>1. k \in 1..m /\ m - k \in Nat /\ m - (m - k) = k
    OBVIOUS
  <2>2. m - k \in T
    BY <2>1
  <2>3. d <= m - k
    BY <2>2, <1>4
  <2> QED BY <2>1, <2>3, <1>5
<1> QED BY <1>5, <1>6

\* newestPod is no pod or the view of one of the Jobs' pods.
LEMMA NewestPod ==
    newestPod = NoPodView \/ \E i \in JobIds : newestPod = ViewOf(i)
<1> DEFINE there == {i \in JobIds : pods[i].s # "none"}
<1>1. CASE there = {}
  BY <1>1 DEF newestPod
<1>2. CASE there # {}
  <2>1. \E i \in there : \A k \in there : k <= i
    <3>1. MaxJobs \in Nat /\ there \in SUBSET (1..MaxJobs)
      BY BoundsAssumption DEF JobIds
    <3> QED BY <3>1, <1>2, MaxExists
  <2> DEFINE top == CHOOSE i \in there : \A k \in there : k <= i
  <2>2. top \in there
    <3> HIDE DEF there
    <3> QED BY <2>1
  <2>3. newestPod = ViewOf(top)
    BY <1>2 DEF newestPod
  <2> QED BY <2>2, <2>3
<1> QED BY <1>1, <1>2

\* What findPod returns is a view of a pod.
LEMMA NewestPodType ==
    ASSUME pods \in [JobIds -> Pod]
    PROVE  newestPod \in PodView
<1>1. NoPodView \in PodView
  BY DEF NoPodView, PodView, PodStates
<1>2. \A i \in JobIds : ViewOf(i) \in PodView
  BY BoundsAssumption DEF ViewOf, PodView, Pod, JobIds
<1> QED BY <1>1, <1>2, NewestPod

-----------------------------------------------------------------------------
(***************************************************************************)
(* Type correctness, with the bound on status.retries                      *)
(***************************************************************************)

\* The lags are set by CountLag alone, apart from what a step does.
Typed ==
    /\ run \in Run /\ runC \in Run
    /\ job \in [n : 0..MaxJobs, st : JobStates] /\ jobC \in JobStates
    /\ pods \in [JobIds -> Pod] /\ podC \in PodView
    /\ policy \in BOOLEAN /\ policyC \in BOOLEAN /\ refs \in BOOLEAN
    /\ rec \in Rec
    /\ faults \in 0..MaxFaults
    /\ hist \in [won : BOOLEAN, torn : BOOLEAN]

\* A fault takes one from the budget.
LEMMA FaultType ==
    ASSUME faults \in 0..MaxFaults, Fault
    PROVE  faults' \in 0..MaxFaults
BY BoundsAssumption DEF Fault

\* A run that is gone is a run object.
LEMMA GoneRunType == GoneRun \in Run
BY BoundsAssumption DEF GoneRun, Run, FreshStatus, Status, Phases

\* Replacing one pod by a pod keeps the function of pods.
LEMMA SetPodType ==
    ASSUME pods \in [JobIds -> Pod], NEW i, NEW p \in Pod, SetPod(i, p)
    PROVE  pods' \in [JobIds -> Pod]
BY DEF SetPod

\* A pod whose evaluator ended is a pod.
LEMMA EndedType ==
    ASSUME NEW p \in Pod, NEW s \in PodStates, NEW tm \in BOOLEAN
    PROVE  Ended(p, s, tm) \in Pod
<1>1. NAgents \in 0..NAgents
  BY BoundsAssumption
<1>2. "boot" \in EvStates
  BY DEF EvStates
<1> QED BY <1>1, <1>2 DEF Ended, Pod

\* The absent pod is a pod.
LEMMA NoPodType == NoPod \in Pod
BY BoundsAssumption DEF NoPod, Pod, PodStates, EvStates

\* No reconcile under way satisfies the order of the calls.
LEMMA IdleShaped == Shaped(IdleRec)
BY DEF Shaped, IdleRec

\* The controller's steps keep the types: retryJob stops below the bound, and every
\* other step writes a status it has read.
LEMMA ControllerTyped ==
    ASSUME Typed, Shaped(rec), Controller
    PROVE  Typed' /\ Shaped(rec')
<1> USE DEF Typed
<1>1. CASE RecAdopt
  <2>1. run.st \in Status /\ run' \in Run
    BY <1>1 DEF RecAdopt, Run
  <2>2. rec' \in Rec /\ Shaped(rec')
    BY <1>1, <2>1, StartPlan DEF RecAdopt, PlanOf
  <2> QED BY <1>1, <2>1, <2>2 DEF RecAdopt, cluster, caches
<1>2. CASE RecRead
  <2>1. runC.st \in Status
    BY DEF Run
  <2>2. rec' \in Rec /\ Shaped(rec')
    BY <1>2, <2>1, StartPlan DEF RecRead, PlanOf
  <2> QED BY <1>2, <2>2 DEF RecRead, cluster, caches
<1>3. CASE RecFinalize
  <2>1. rec' \in Rec /\ Shaped(rec')
    BY <1>3, IdleRecType, IdleShaped DEF RecFinalize, Rec, RecStates, Shaped
  <2> QED BY <1>3, <2>1 DEF RecFinalize, cluster, caches
<1>4. CASE EnsurePolicy
  <2>1. rec' \in Rec /\ Shaped(rec')
    <3>1. CASE rec.next = "create"
      BY <1>4, <3>1 DEF EnsurePolicy, Rec, RecStates, Shaped
    <3>2. CASE rec.next # "create"
      BY <1>4, <3>2, LookPlan DEF EnsurePolicy, Shaped, PlanOf
    <3> QED BY <3>1, <3>2
  <2> QED BY <1>4, <2>1 DEF EnsurePolicy, caches
<1>5. CASE CreateJob
  <2>1. rec.orig \in Status /\ rec.want \in Status
    BY DEF Rec
  <2>2. Finish(rec.orig, rec.want) \in Rec /\ Shaped(Finish(rec.orig, rec.want))
    <3>1. {"patch", "idle"} \subseteq RecStates
      BY DEF RecStates
    <3>2. LET f == Step(rec.orig, rec.want, "patch", "idle") IN f \in Rec /\ Shaped(f)
      BY <2>1, <3>1, StepType DEF Shaped
    <3> QED BY <3>2, IdleRecType, IdleShaped DEF Finish
  <2>3. fail(rec.orig, rec.want) \in Rec /\ Shaped(fail(rec.orig, rec.want))
    <3>1. {"delPolicy", "patch"} \subseteq RecStates
      BY DEF RecStates
    <3>2. FailedStatus(rec.want) \in Status
      BY <2>1, StatusEdits
    <3> QED BY <2>1, <3>1, <3>2, StepType DEF fail, Shaped
  <2>4. rec' \in Rec /\ Shaped(rec')
    BY <1>5, <2>2, <2>3, IdleRecType, IdleShaped DEF CreateJob
  <2>5. job' \in [n : 0..MaxJobs, st : JobStates]
    BY <1>5, BoundsAssumption DEF CreateJob, JobStates
  <2>6. faults' \in 0..MaxFaults
    BY <1>5, FaultType DEF CreateJob
  <2> QED BY <1>5, <2>4, <2>5, <2>6 DEF CreateJob, caches
<1>6. CASE FlipNetPhase
  <2>1. rec.orig \in Status /\ rec.want \in Status /\ rec.next \in RecStates
    BY DEF Rec
  <2>2. rec.next \in {"idle", "delJob", "delPolicy", "patch"}
    BY <1>6, <2>1 DEF FlipNetPhase, Shaped, RecStates
  <2>3. rec' \in Rec /\ Shaped(rec')
    <3> DEFINE nx == IF rec.next = "patch" THEN "idle" ELSE "patch"
    <3>1. nx \in RecStates
      BY DEF RecStates
    <3>2. rec' = IF rec.next = "idle" THEN IdleRec ELSE Step(rec.orig, rec.want, rec.next, nx)
      BY <1>6 DEF FlipNetPhase
    <3> QED BY <2>1, <2>2, <3>1, <3>2, StepType, IdleRecType, IdleShaped DEF Shaped
  <2>4. pods' \in [JobIds -> Pod]
    BY <1>6, ZenonT(30) DEF FlipNetPhase, Pod
  <2> QED BY <1>6, <2>3, <2>4 DEF FlipNetPhase, caches
<1>7. CASE DeleteJob
  <2>1. rec' \in Rec /\ Shaped(rec')
    BY <1>7 DEF DeleteJob, Shaped, Rec, RecStates
  <2> QED BY <1>7, <2>1 DEF DeleteJob, caches, JobStates
<1>8. CASE DeletePolicy
  <2>1. rec' \in Rec /\ Shaped(rec')
    BY <1>8 DEF DeletePolicy, Shaped, Rec, RecStates
  <2>2. faults' \in 0..MaxFaults
    BY <1>8, FaultType DEF DeletePolicy
  <2> QED BY <1>8, <2>1, <2>2 DEF DeletePolicy, caches
<1>9. CASE PatchStatus
  <2>1. run' \in Run
    <3>1. run.st \in Status /\ rec.orig \in Status /\ rec.want \in Status
      BY DEF Run, Rec
    <3> QED BY <1>9, <3>1, MergePatchType DEF PatchStatus, Run
  <2> QED BY <1>9, <2>1, IdleRecType, IdleShaped DEF PatchStatus, cluster, caches
<1>10. CASE RemoveFinalizer
  <2>1. run' \in Run
    BY <1>10, GoneRunType DEF RemoveFinalizer, Run
  <2> QED BY <1>10, <2>1, IdleRecType, IdleShaped DEF RemoveFinalizer, cluster, caches
<1>11. CASE RecAbort
  BY <1>11, FaultType, IdleRecType, IdleShaped DEF RecAbort, caches
<1> QED BY <1>1, <1>2, <1>3, <1>4, <1>5, <1>6, <1>7, <1>8, <1>9, <1>10, <1>11
        DEF Controller, Reconcile, Continue

\* A cache that catches up takes over a typed object.
LEMMA SyncTyped ==
    ASSUME Typed, Shaped(rec), Sync
    PROVE  Typed' /\ Shaped(rec')
BY NewestPodType DEF Typed, Sync, SyncRun, SyncJob, SyncPolicy, SyncPod, others

\* The evaluator's patches write phases, flags and no retries.
LEMMA EvPatchType ==
    ASSUME Typed, NEW new \in Status, EvPatch(new)
    PROVE  run' \in Run /\ faults' \in 0..MaxFaults
BY FaultType DEF Typed, EvPatch, Run

\* The evaluator's steps keep the types.
LEMMA EvaluatorTyped ==
    ASSUME Typed, Shaped(rec), NEW i \in JobIds, EvStep(i)
    PROVE  Typed' /\ Shaped(rec')
<1> USE DEF Typed
<1>1. run.st \in Status /\ pods[i] \in Pod
  BY DEF Run
<1>2. CASE EvStart(i)
  <2>1. run' \in Run /\ faults' \in 0..MaxFaults
    <3>1. [run.st EXCEPT !.phase = "Running"] \in Status
      BY <1>1 DEF Status, Phases
    <3> QED BY <3>1, <1>2, EvPatchType DEF EvStart
  <2>2. [pods[i] EXCEPT !.ev = "ready"] \in Pod
    BY <1>1 DEF Pod, EvStates
  <2>3. pods' \in [JobIds -> Pod]
    BY <1>2, <2>2, SetPodType DEF EvStart
  <2> QED BY <1>2, <2>1, <2>3 DEF EvStart, evRest, caches
<1>3. CASE EvAgent(i)
  <2>1. run' \in Run /\ faults' \in 0..MaxFaults
    <3>1. [run.st EXCEPT !.phase = "Evaluating", !.agent = TRUE] \in Status
      BY <1>1 DEF Status, Phases
    <3> QED BY <3>1, <1>3, EvPatchType DEF EvAgent
  <2>2. [pods[i] EXCEPT !.ev = "agent", !.left = pods[i].left - 1] \in Pod
    <3>1. pods[i].left - 1 \in 0..NAgents
      BY <1>1, <1>3, BoundsAssumption DEF Pod, EvAgent
    <3>2. "agent" \in EvStates
      BY DEF EvStates
    <3> QED BY <1>1, <3>1, <3>2 DEF Pod
  <2>3. pods' \in [JobIds -> Pod]
    BY <1>3, <2>2, SetPodType DEF EvAgent
  <2> QED BY <1>3, <2>1, <2>3 DEF EvAgent, evRest, caches
<1>4. CASE EvResult(i)
  <2>1. run' \in Run /\ faults' \in 0..MaxFaults
    <3>1. [run.st EXCEPT !.results = TRUE] \in Status
      BY <1>1 DEF Status, Phases
    <3> QED BY <3>1, <1>4, EvPatchType DEF EvResult
  <2>2. [pods[i] EXCEPT !.ev = "ready"] \in Pod
    BY <1>1 DEF Pod, EvStates
  <2>3. pods' \in [JobIds -> Pod]
    BY <1>4, <2>2, SetPodType DEF EvResult
  <2> QED BY <1>4, <2>1, <2>3 DEF EvResult, evRest, caches
<1>5. CASE EvComplete(i)
  <2>1. run' \in Run /\ faults' \in 0..MaxFaults
    <3>1. [run.st EXCEPT !.phase = "Completed", !.agent = FALSE] \in Status
      BY <1>1 DEF Status, Phases
    <3> QED BY <3>1, <1>5, EvPatchType DEF EvComplete
  <2>2. [pods[i] EXCEPT !.ev = "ok"] \in Pod
    BY <1>1 DEF Pod, EvStates
  <2>3. pods' \in [JobIds -> Pod]
    BY <1>5, <2>2, SetPodType DEF EvComplete
  <2> QED BY <1>5, <2>1, <2>3 DEF EvComplete, evRest, caches
<1>6. CASE EvFail(i)
  <2>1. run' \in Run /\ faults' \in 0..MaxFaults
    <3>1. [run.st EXCEPT !.phase = "Failed", !.agent = FALSE] \in Status
      BY <1>1 DEF Status, Phases
    <3> QED BY <3>1, <1>6, EvPatchType DEF EvFail
  <2>2. [pods[i] EXCEPT !.ev = "bad"] \in Pod
    BY <1>1 DEF Pod, EvStates
  <2>3. pods' \in [JobIds -> Pod]
    BY <1>6, <2>2, SetPodType DEF EvFail
  <2> QED BY <1>6, <2>1, <2>3 DEF EvFail, evRest, caches
<1>7. CASE EvExit(i)
  <2> DEFINE s == IF pods[i].ev = "ok" THEN "exit0" ELSE "exit1"
  <2>1. s \in PodStates
    BY DEF PodStates
  <2>2. Ended(pods[i], s, TRUE) \in Pod /\ Ended(pods[i], s, FALSE) \in Pod
    BY <1>1, <2>1, EndedType
  <2>3. pods' \in [JobIds -> Pod] /\ faults' \in 0..MaxFaults
    BY <1>7, <2>2, SetPodType, FaultType DEF EvExit
  <2> QED BY <1>7, <2>3 DEF EvExit, evRest, caches
<1> QED BY <1>2, <1>3, <1>4, <1>5, <1>6, <1>7 DEF EvStep

\* The rest of the cluster never touches the status.
LEMMA ClusterTyped ==
    ASSUME Typed, Shaped(rec),
           \/ DeleteRun \/ LoseRefs \/ CollectOrphans \/ JobTTL \/ JobReap
           \/ \E i \in JobIds : KubeStep(i)
    PROVE  Typed' /\ Shaped(rec')
<1> USE DEF Typed, caches, control
<1>1. CASE DeleteRun
  <2>1. run' \in Run
    BY <1>1, GoneRunType DEF DeleteRun, Run
  <2> QED BY <1>1, <2>1, FaultType DEF DeleteRun
<1>2. CASE LoseRefs
  BY <1>2, FaultType DEF LoseRefs
<1>3. CASE CollectOrphans
  BY <1>3 DEF CollectOrphans, JobStates
<1>4. CASE JobTTL
  BY <1>4, FaultType DEF JobTTL, JobStates
<1>5. CASE JobReap
  BY <1>5 DEF JobReap, JobStates
<1>6. ASSUME NEW i \in JobIds, KubeStep(i)
      PROVE  Typed' /\ Shaped(rec')
  <2>1. pods[i] \in Pod
    OBVIOUS
  <2>2. CASE StartPod(i)
    <3>1. [NoPod EXCEPT !.s = "pending"] \in Pod
      BY NoPodType DEF Pod, PodStates
    <3> QED BY <2>2, <3>1, SetPodType DEF StartPod
  <2>3. CASE JobFinish(i)
    BY <2>3 DEF JobFinish, JobStates
  <2>4. CASE JobDeadline(i)
    <3>1. [pods[i] EXCEPT !.del = (pods[i].s # "none")] \in Pod
      BY <2>1 DEF Pod
    <3>2. pods' \in [JobIds -> Pod]
      BY <2>4, <3>1, SetPodType DEF JobDeadline
    <3> QED BY <2>4, <3>2, FaultType DEF JobDeadline, JobStates
  <2>5. CASE OrphanPod(i)
    <3>1. [pods[i] EXCEPT !.del = TRUE] \in Pod
      BY <2>1 DEF Pod
    <3> QED BY <2>5, <3>1, SetPodType DEF OrphanPod
  <2>6. CASE PodGone(i)
    BY <2>6, NoPodType, SetPodType DEF PodGone
  <2>7. CASE PodStep(i)
    <3>1. [pods[i] EXCEPT !.s = "init"] \in Pod /\ [pods[i] EXCEPT !.s = "run"] \in Pod
      BY <2>1 DEF Pod, PodStates
    <3> QED BY <2>7, <3>1, SetPodType DEF PodStep
  <2>8. CASE PodFault(i)
    <3>1. /\ [pods[i] EXCEPT !.s = "stuck"] \in Pod
          /\ [pods[i] EXCEPT !.s = "initfail"] \in Pod
          /\ [pods[i] EXCEPT !.side = TRUE] \in Pod
      BY <2>1 DEF Pod, PodStates
    <3>2. \A x \in {"oom", "evicted", "lost"} : Ended(pods[i], x, FALSE) \in Pod
      BY <2>1, EndedType DEF PodStates
    <3>3. pods' \in [JobIds -> Pod]
      BY <2>8, <3>1, <3>2, SetPodType DEF PodFault
    <3> QED BY <2>8, <3>3, FaultType DEF PodFault
  <2> QED BY <1>6, <2>2, <2>3, <2>4, <2>5, <2>6, <2>7, <2>8 DEF KubeStep
<1> QED BY <1>1, <1>2, <1>3, <1>4, <1>5, <1>6

\* CountLag keeps every lag within its bound.
LEMMA LagTyped ==
    ASSUME lag \in [run : 0..RunLag, job : 0..KubeLag, pod : 0..KubeLag], CountLag
    PROVE  lag' \in [run : 0..RunLag, job : 0..KubeLag, pod : 0..KubeLag]
<1>1. \A b \in Nat : \A x, c, f : x \in 0..b => Behind(x, b, c, f) \in 0..b
  BY DEF Behind
<1>2. RunLag \in Nat /\ KubeLag \in Nat
  BY BoundsAssumption
<1>3. lag.run \in 0..RunLag /\ lag.job \in 0..KubeLag /\ lag.pod \in 0..KubeLag
  OBVIOUS
<1> QED BY <1>1, <1>2, <1>3 DEF CountLag

\* The inductive invariant of the type theorem.
TypeInv == TypeOK /\ Shaped(rec)

\* The initial state satisfies the inductive invariant.
LEMMA TypeInvInit == Init => TypeInv
<1> SUFFICES ASSUME Init PROVE TypeInv
  OBVIOUS
<1>1. run \in Run /\ runC \in Run
  <2>1. [GoneRun EXCEPT !.live = TRUE] \in Run
    BY GoneRunType DEF Run
  <2> QED BY <2>1 DEF Init
<1>2. pods \in [JobIds -> Pod] /\ podC \in PodView
  BY NoPodType DEF Init, NoPodView, PodView, PodStates
<1>3. rec \in Rec /\ Shaped(rec)
  BY IdleRecType, IdleShaped DEF Init
<1>4. lag \in [run : 0..RunLag, job : 0..KubeLag, pod : 0..KubeLag]
  BY BoundsAssumption DEF Init
<1>5. job \in [n : 0..MaxJobs, st : JobStates] /\ jobC \in JobStates
  BY BoundsAssumption DEF Init, JobStates
<1>6. faults \in 0..MaxFaults /\ hist \in [won : BOOLEAN, torn : BOOLEAN]
  BY BoundsAssumption DEF Init
<1> QED BY <1>1, <1>2, <1>3, <1>4, <1>5, <1>6 DEF Init, TypeInv, TypeOK

\* A step is the controller's, an informer's, the evaluator's or the cluster's.
LEMMA NextCases ==
    ASSUME Next
    PROVE  /\ CountLag
           /\ \/ Controller \/ Sync
              \/ \E i \in JobIds : EvStep(i)
              \/ \/ DeleteRun \/ LoseRefs \/ CollectOrphans \/ JobTTL \/ JobReap
                 \/ \E i \in JobIds : KubeStep(i)
BY DEF Next, Environment

\* Every step preserves it.
LEMMA TypeInvNext == TypeInv /\ [Next]_vars => TypeInv'
<1> SUFFICES ASSUME TypeInv, [Next]_vars PROVE TypeInv'
  OBVIOUS
<1>1. Typed /\ Shaped(rec) /\ lag \in [run : 0..RunLag, job : 0..KubeLag, pod : 0..KubeLag]
  BY DEF TypeInv, TypeOK, Typed
<1>2. CASE Next
  <2>1. lag' \in [run : 0..RunLag, job : 0..KubeLag, pod : 0..KubeLag]
    BY <1>1, <1>2, NextCases, LagTyped
  <2>2. Typed' /\ Shaped(rec')
    BY <1>1, <1>2, NextCases, ControllerTyped, SyncTyped, EvaluatorTyped, ClusterTyped
  <2> QED BY <2>1, <2>2 DEF TypeInv, TypeOK, Typed
<1>3. CASE UNCHANGED vars
  BY <1>1, <1>3 DEF TypeInv, TypeOK, vars, Shaped, Reads
<1> QED BY <1>2, <1>3

\* Every reachable state is type correct; in particular the controller never writes
\* a retry count the CRD schema would reject (maximum of status.retries).
THEOREM TypeCorrect == Spec => []TypeOK
<1>1. TypeInv => TypeOK
  BY DEF TypeInv
<1> QED BY <1>1, TypeInvInit, TypeInvNext, PTL DEF Spec

-----------------------------------------------------------------------------
(***************************************************************************)
(* A Completed run was earned                                              *)
(***************************************************************************)

\* No place from which `Completed' could be taken holds it yet: neither the objects
\* nor the caches nor the reconcile under way.
NoSuccessYet ==
    /\ run.st.phase # "Completed" /\ runC.st.phase # "Completed"
    /\ job.st # "complete" /\ jobC # "complete"
    /\ podC.s # "exit0"
    /\ \A i \in JobIds : pods[i].s # "exit0" /\ pods[i].ev # "ok"
    /\ Writes(rec) => rec.orig.phase # "Completed" /\ rec.want.phase # "Completed"

EarnedInv == hist.won \/ NoSuccessYet

\* The controller's steps invent no success: what they write as Completed they have
\* read.
LEMMA EarnedController ==
    ASSUME TypeInv, NoSuccessYet, Controller
    PROVE  NoSuccessYet'
<1> USE DEF NoSuccessYet
<1>0. /\ run.st \in Status /\ runC.st \in Status /\ podC \in PodView /\ Shaped(rec)
      /\ rec \in Rec /\ rec.orig \in Status /\ rec.want \in Status
      /\ pods \in [JobIds -> Pod] /\ job \in [n : 0..MaxJobs, st : JobStates]
      /\ run \in Run
  BY DEF TypeInv, TypeOK, Run, Rec
<1>1. ~Writes(IdleRec)
  BY DEF Writes, IdleRec
<1>2. CASE RecAdopt
  <2>1. PlanOf(StartFrom(run.st), run.st, FALSE)
    BY <1>0, StartPlan DEF PlanOf
  <2> QED BY <1>0, <1>2, <2>1 DEF RecAdopt, PlanOf, cluster, caches, Run
<1>3. CASE RecRead
  <2>1. PlanOf(StartFrom(runC.st), runC.st, FALSE)
    BY <1>0, StartPlan DEF PlanOf
  <2> QED BY <1>3, <2>1 DEF RecRead, PlanOf, cluster, caches
<1>4. CASE RecFinalize
  <2>1. ~Writes(rec')
    BY <1>4 DEF RecFinalize, Writes, IdleRec
  <2> QED BY <1>4, <2>1 DEF RecFinalize, cluster, caches
<1>5. CASE EnsurePolicy
  <2>1. Writes(rec) /\ Reads(rec.orig, rec.want)
    BY <1>0, <1>5 DEF EnsurePolicy, Writes, Shaped
  <2>2. PlanOf(LookAtPod(rec.orig, rec.want), rec.orig, FALSE)
    BY <1>0, <2>1, LookPlan DEF PlanOf
  <2>3. Writes(rec') => rec'.orig.phase # "Completed" /\ rec'.want.phase # "Completed"
    BY <1>0, <1>5, <2>1, <2>2 DEF EnsurePolicy, PlanOf, Rec
  <2> QED BY <1>5, <2>3 DEF EnsurePolicy, caches
<1>6. CASE CreateJob
  <2>1. Writes(rec)
    BY <1>6 DEF CreateJob, Writes
  <2>2. \A w \in Status, pc \in {"patch", "delPolicy"}, nx \in {"idle", "patch"} :
          /\ Step(rec.orig, w, pc, nx).orig = rec.orig
          /\ Step(rec.orig, w, pc, nx).want = w
    <3>1. {"patch", "delPolicy", "idle"} \subseteq RecStates
      BY DEF RecStates
    <3> QED BY <1>0, <3>1, StepType
  <2>3. FailedStatus(rec.want) \in Status /\ FailedStatus(rec.want).phase = "Failed"
    BY <1>0, StatusEdits
  <2>4. Writes(rec') => rec'.orig.phase # "Completed" /\ rec'.want.phase # "Completed"
    BY <1>0, <1>1, <1>6, <2>1, <2>2, <2>3 DEF CreateJob, Finish, fail
  <2>5. job'.st # "complete"
    BY <1>0, <1>6 DEF CreateJob
  <2> QED BY <1>6, <2>4, <2>5 DEF CreateJob, caches
<1>7. CASE FlipNetPhase
  <2>1. rec.next # "idle" => Writes(rec)
    BY <1>7 DEF FlipNetPhase, Writes
  <2>2. Writes(rec') => rec'.orig.phase # "Completed" /\ rec'.want.phase # "Completed"
    BY <1>0, <1>1, <1>7, <2>1 DEF FlipNetPhase, Step, IdleRec
  <2>3. \A i \in JobIds : pods'[i].s # "exit0" /\ pods'[i].ev # "ok"
    BY <1>0, <1>7 DEF FlipNetPhase, Pod
  <2> QED BY <1>7, <2>2, <2>3 DEF FlipNetPhase, caches
<1>8. CASE DeleteJob
  <2>1. Writes(rec') => Writes(rec) /\ rec'.orig = rec.orig /\ rec'.want = rec.want
    BY <1>0, <1>8 DEF DeleteJob, Writes, Rec
  <2> QED BY <1>0, <1>8, <2>1 DEF DeleteJob, caches
<1>9. CASE DeletePolicy
  <2>1. Writes(rec') => Writes(rec) /\ rec'.orig = rec.orig /\ rec'.want = rec.want
    BY <1>0, <1>9 DEF DeletePolicy, Writes, Rec
  <2> QED BY <1>0, <1>9, <2>1 DEF DeletePolicy, caches
<1>10. CASE PatchStatus
  <2>1. Writes(rec)
    BY <1>10 DEF PatchStatus, Writes
  <2>2. MergePatch(run.st, rec.orig, rec.want).phase # "Completed"
    BY <2>1 DEF MergePatch
  <2>3. run'.st.phase # "Completed"
    BY <1>0, <1>10, <2>2 DEF PatchStatus, Run
  <2> QED BY <1>1, <1>10, <2>3 DEF PatchStatus, cluster, caches
<1>11. CASE RemoveFinalizer
  <2>1. run'.st.phase # "Completed"
    BY <1>0, <1>11 DEF RemoveFinalizer, GoneRun, FreshStatus, Run
  <2> QED BY <1>1, <1>11, <2>1 DEF RemoveFinalizer, cluster, caches
<1>12. CASE RecAbort
  BY <1>1, <1>12 DEF RecAbort, caches
<1> QED BY <1>2, <1>3, <1>4, <1>5, <1>6, <1>7, <1>8, <1>9, <1>10, <1>11, <1>12
        DEF Controller, Reconcile, Continue

\* A cache shows no success before the objects do.
LEMMA EarnedSync ==
    ASSUME TypeInv, NoSuccessYet, Sync
    PROVE  NoSuccessYet'
<1>1. newestPod.s # "exit0"
  BY NewestPod DEF NoSuccessYet, ViewOf, NoPodView
<1> QED BY <1>1 DEF NoSuccessYet, Sync, SyncRun, SyncJob, SyncPolicy, SyncPod, others

\* The one step that may turn `won' on is EvComplete.
LEMMA EarnedEvaluator ==
    ASSUME TypeInv, NoSuccessYet, NEW i \in JobIds, EvStep(i), ~EvComplete(i)
    PROVE  NoSuccessYet'
<1> USE DEF NoSuccessYet
<1>0. run \in Run /\ run.st \in Status /\ pods \in [JobIds -> Pod] /\ pods[i] \in Pod
  BY DEF TypeInv, TypeOK, Run
<1>1. \A p : SetPod(i, p) /\ p.s # "exit0" /\ p.ev # "ok"
             => \A k \in JobIds : pods'[k].s # "exit0" /\ pods'[k].ev # "ok"
  BY <1>0 DEF SetPod
<1>2. \A new \in Status : EvPatch(new) /\ new.phase # "Completed" => run'.st.phase # "Completed"
  BY <1>0 DEF EvPatch, Run
<1>3. CASE EvStart(i)
  <2>1. run'.st.phase # "Completed"
    BY <1>0, <1>2, <1>3 DEF EvStart, Status, Phases
  <2>2. \A k \in JobIds : pods'[k].s # "exit0" /\ pods'[k].ev # "ok"
    BY <1>0, <1>1, <1>3 DEF EvStart, Pod
  <2> QED BY <1>3, <2>1, <2>2 DEF EvStart, evRest, caches
<1>4. CASE EvAgent(i)
  <2>1. run'.st.phase # "Completed"
    BY <1>0, <1>2, <1>4 DEF EvAgent, Status, Phases
  <2>2. \A k \in JobIds : pods'[k].s # "exit0" /\ pods'[k].ev # "ok"
    BY <1>0, <1>1, <1>4 DEF EvAgent, Pod
  <2> QED BY <1>4, <2>1, <2>2 DEF EvAgent, evRest, caches
<1>5. CASE EvResult(i)
  <2>1. run'.st.phase # "Completed"
    BY <1>0, <1>2, <1>5 DEF EvResult, Status, Phases
  <2>2. \A k \in JobIds : pods'[k].s # "exit0" /\ pods'[k].ev # "ok"
    BY <1>0, <1>1, <1>5 DEF EvResult, Pod
  <2> QED BY <1>5, <2>1, <2>2 DEF EvResult, evRest, caches
<1>6. CASE EvFail(i)
  <2>1. run'.st.phase # "Completed"
    BY <1>0, <1>2, <1>6 DEF EvFail, Status, Phases
  <2>2. \A k \in JobIds : pods'[k].s # "exit0" /\ pods'[k].ev # "ok"
    BY <1>0, <1>1, <1>6 DEF EvFail, Pod
  <2> QED BY <1>6, <2>1, <2>2 DEF EvFail, evRest, caches
<1>7. CASE EvExit(i)
  <2>1. \A tm \in BOOLEAN : /\ Ended(pods[i], "exit1", tm).s = "exit1"
                            /\ Ended(pods[i], "exit1", tm).ev = "boot"
    BY <1>0 DEF Ended, Pod
  <2>2. \A k \in JobIds : pods'[k].s # "exit0" /\ pods'[k].ev # "ok"
    BY <1>0, <1>1, <1>7, <2>1 DEF EvExit, EvAt
  <2> QED BY <1>7, <2>2 DEF EvExit, evRest, caches
<1> QED BY <1>3, <1>4, <1>5, <1>6, <1>7 DEF EvStep

\* No step of the rest of the cluster makes an evaluator succeed.
LEMMA EarnedCluster ==
    ASSUME TypeInv, NoSuccessYet,
           \/ DeleteRun \/ LoseRefs \/ CollectOrphans \/ JobTTL \/ JobReap
           \/ \E i \in JobIds : KubeStep(i)
    PROVE  NoSuccessYet' /\ hist' = hist
<1> USE DEF NoSuccessYet, caches, control
<1>0. /\ run \in Run /\ run.st \in Status /\ pods \in [JobIds -> Pod]
      /\ job \in [n : 0..MaxJobs, st : JobStates]
  BY DEF TypeInv, TypeOK, Run
<1>1. CASE DeleteRun
  <2>1. run'.st.phase # "Completed"
    BY <1>0, <1>1 DEF DeleteRun, GoneRun, FreshStatus, Run
  <2> QED BY <1>1, <2>1 DEF DeleteRun
<1>2. CASE LoseRefs
  BY <1>2 DEF LoseRefs
<1>3. CASE CollectOrphans
  BY <1>0, <1>3 DEF CollectOrphans
<1>4. CASE JobTTL
  BY <1>0, <1>4 DEF JobTTL
<1>5. CASE JobReap
  BY <1>0, <1>5 DEF JobReap
<1>6. ASSUME NEW i \in JobIds, KubeStep(i)
      PROVE  NoSuccessYet' /\ hist' = hist
  <2>0. pods[i] \in Pod
    BY <1>0
  <2>1. \A p : SetPod(i, p) /\ p.s # "exit0" /\ p.ev # "ok"
               => \A k \in JobIds : pods'[k].s # "exit0" /\ pods'[k].ev # "ok"
    BY <1>0 DEF SetPod
  <2>2. NoPod.s # "exit0" /\ NoPod.ev # "ok"
    BY DEF NoPod
  <2>3. CASE StartPod(i)
    <3>1. \A k \in JobIds : pods'[k].s # "exit0" /\ pods'[k].ev # "ok"
      BY <2>1, <2>3 DEF StartPod, NoPod
    <3> QED BY <2>3, <3>1 DEF StartPod
  <2>4. CASE JobFinish(i)
    BY <1>0, <2>4 DEF JobFinish
  <2>5. CASE JobDeadline(i)
    <3>1. \A k \in JobIds : pods'[k].s # "exit0" /\ pods'[k].ev # "ok"
      BY <2>0, <2>1, <2>5 DEF JobDeadline, Pod
    <3> QED BY <1>0, <2>5, <3>1 DEF JobDeadline
  <2>6. CASE OrphanPod(i)
    <3>1. \A k \in JobIds : pods'[k].s # "exit0" /\ pods'[k].ev # "ok"
      BY <2>0, <2>1, <2>6 DEF OrphanPod, Pod
    <3> QED BY <2>6, <3>1 DEF OrphanPod
  <2>7. CASE PodGone(i)
    <3>1. \A k \in JobIds : pods'[k].s # "exit0" /\ pods'[k].ev # "ok"
      BY <2>1, <2>2, <2>7 DEF PodGone
    <3> QED BY <2>7, <3>1 DEF PodGone
  <2>8. CASE PodStep(i)
    <3>1. \A k \in JobIds : pods'[k].s # "exit0" /\ pods'[k].ev # "ok"
      BY <2>0, <2>1, <2>8 DEF PodStep, Pod
    <3> QED BY <2>8, <3>1 DEF PodStep
  <2>9. CASE PodFault(i)
    <3>1. \A x \in {"oom", "evicted", "lost"} : /\ Ended(pods[i], x, FALSE).s = x
                                                /\ Ended(pods[i], x, FALSE).ev = "boot"
      BY <2>0 DEF Ended, Pod
    <3>2. \A k \in JobIds : pods'[k].s # "exit0" /\ pods'[k].ev # "ok"
      BY <2>0, <2>1, <2>9, <3>1 DEF PodFault, Pod
    <3> QED BY <2>9, <3>2 DEF PodFault
  <2> QED BY <1>6, <2>3, <2>4, <2>5, <2>6, <2>7, <2>8, <2>9 DEF KubeStep
<1> QED BY <1>1, <1>2, <1>3, <1>4, <1>5, <1>6

\* History is never forgotten.
LEMMA WonStays ==
    ASSUME TypeInv, Next, hist.won
    PROVE  hist'.won
<1>0. hist \in [won : BOOLEAN, torn : BOOLEAN]
  BY DEF TypeInv, TypeOK
<1>1. CASE Controller
  BY <1>0, <1>1 DEF Controller, Reconcile, Continue, RecAdopt, RecRead, RecFinalize, EnsurePolicy,
     CreateJob, FlipNetPhase, DeleteJob, DeletePolicy, PatchStatus, RemoveFinalizer, RecAbort
<1>2. CASE Sync
  BY <1>2 DEF Sync, SyncRun, SyncJob, SyncPolicy, SyncPod, others
<1>3. ASSUME NEW i \in JobIds, EvStep(i) PROVE hist'.won
  BY <1>0, <1>3 DEF EvStep, EvStart, EvAgent, EvResult, EvComplete, EvFail, EvExit
<1>4. CASE \/ DeleteRun \/ LoseRefs \/ CollectOrphans \/ JobTTL \/ JobReap
           \/ \E i \in JobIds : KubeStep(i)
  BY <1>4 DEF control, DeleteRun, LoseRefs, CollectOrphans, JobTTL, JobReap, KubeStep, StartPod,
     JobFinish, JobDeadline, OrphanPod, PodGone, PodStep, PodFault
<1> QED BY <1>1, <1>2, <1>3, <1>4, NextCases

\* Nothing has succeeded when the run is created.
LEMMA EarnedInvInit == Init => EarnedInv
<1> SUFFICES ASSUME Init PROVE NoSuccessYet
  BY DEF EarnedInv
<1>1. ~Writes(rec)
  BY DEF Init, Writes, IdleRec
<1> QED BY <1>1 DEF NoSuccessYet, Init, GoneRun, FreshStatus, NoPod, NoPodView

\* Every step preserves EarnedInv.
LEMMA EarnedInvNext == TypeInv /\ EarnedInv /\ [Next]_vars => EarnedInv'
<1> SUFFICES ASSUME TypeInv, EarnedInv, [Next]_vars PROVE EarnedInv'
  OBVIOUS
<1>1. CASE Next /\ hist.won
  BY <1>1, WonStays DEF EarnedInv
<1>2. CASE Next /\ ~hist.won
  <2>1. NoSuccessYet
    BY <1>2 DEF EarnedInv
  <2>2. ASSUME NEW i \in JobIds, EvComplete(i) PROVE hist'.won
    BY <2>2 DEF EvComplete, TypeInv, TypeOK
  <2> QED BY <1>2, <2>1, <2>2, NextCases, EarnedController, EarnedSync, EarnedEvaluator,
             EarnedCluster DEF EarnedInv
<1>3. CASE UNCHANGED vars
  BY <1>3 DEF EarnedInv, NoSuccessYet, vars, Writes
<1> QED BY <1>1, <1>2, <1>3

\* A run reads Completed only if some evaluator finished all its personas,
\* whatever the caches show, however often the Job is recreated.
THEOREM Earned == Spec => []CompletedIsEarned
<1>1. EarnedInv => CompletedIsEarned
  BY DEF EarnedInv, NoSuccessYet, CompletedIsEarned
<1> QED BY <1>1, TypeInvInit, TypeInvNext, EarnedInvInit, EarnedInvNext, PTL DEF Spec
=============================================================================
