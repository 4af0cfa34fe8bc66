------------------------------ MODULE RuleFiring ------------------------------
(***************************************************************************)
(* Firing a correlation rule: Correlations::EvaluatorService enqueues one  *)
(* RuleFiringJob per (rule, signal, site), concurrent workers run them,    *)
(* and RuleFiringService claims the rule's cooldown, carries out the       *)
(* rule's actions and records a SignalRuleMatch in one transaction, then   *)
(* enqueues the match's FusionJob.                                         *)
(*                                                                         *)
(* The same triple may be enqueued more than once: ticks overlap and are   *)
(* retried (SignalCursor).  Worker clocks may disagree by Skew.            *)
(*                                                                         *)
(* Abstracted: the rule's actions (a task, an escalation, a flag) are one  *)
(* effect that is written or not; revalidation of a job's rule against its *)
(* signal and site is the rule being active; the cutoff and last_fired_at, *)
(* computed for one UPDATE, are one time.  Left out: the SSE broadcast,    *)
(* whose failure is caught, and that an operator destroys a rule or        *)
(* changes its cooldown_minutes.                                           *)
(***************************************************************************)
EXTENDS Naturals, FiniteSets

CONSTANTS
  Rules,
  Jobs,         \* enqueued or to be enqueued RuleFiringJobs
  RuleOf,       \* their arguments
  SignalOf,
  SiteOf,
  None,         \* NULL: never fired, nobody holds the row lock
  Cooldown,     \* cooldown_minutes of each rule
  MaxAttempts,  \* attempts: 3 of retry_on
  Skew,         \* bound: how far a worker's clock may be ahead
  MaxTime,      \* bound: the clock stops here
  MaxFaults     \* bound: errors, failing actions, and dying workers

ASSUME FiringAssumption ==
  /\ RuleOf \in [Jobs -> Rules]
  /\ None \notin Jobs /\ None \notin Nat
  /\ Cooldown \in [Rules -> Nat]
  /\ MaxAttempts \in Nat \ {0}
  /\ Skew \in Nat
  /\ MaxTime \in Nat
  /\ MaxFaults \in Nat

VARIABLES
  now,
  active,     \* is_active of each rule
  lastFired,  \* last_fired_at of each rule, as committed
  rowOwner,   \* the job whose transaction holds the rule's row lock
  pc,         \* where each job is, or how it ended
  attempt,    \* executions of each job
  stamp,      \* the time a job computed for its claim or its cooldown check
  effects,    \* jobs whose actions are committed (tasks, flags, audit rows)
  matches,    \* committed SignalRuleMatch rows
  fusions,    \* matches with a FusionJob in the queue database
  faults

vars == << now, active, lastFired, rowOwner, pc, attempt, stamp, effects,
           matches, fusions, faults >>

Settled == { "fired", "revalidation_skipped", "cooldown_skipped", "duplicate",
             "action_failed", "exhausted", "killed" }

-----------------------------------------------------------------------------
(* Time.current on the job's worker.                                       *)
Clocks == now..(now + Skew)

(* WHERE last_fired_at IS NULL OR last_fired_at <= cutoff                  *)
CooldownOver(r, t) == lastFired[r] # None => lastFired[r] + Cooldown[r] <= t

(* CorrelationRule#on_cooldown?: strict where the claim is not, so the two *)
(* agree.                                                                  *)
OnCooldown(r, t) == lastFired[r] # None /\ lastFired[r] + Cooldown[r] > t

(* Mutant: a SELECT decides, and the UPDATE does not look again.           *)
RowFreeUnlocked(r) == TRUE

RowFree(r) == rowOwner[r] = None

(* Mutant: no unique index on (signal_id, correlation_rule_id).            *)
RecordedBeforeUnindexed(j) == FALSE

RecordedBefore(j) ==
  \E m \in matches : m.rule = RuleOf[j] /\ m.signal = SignalOf[j]

Match(j) == [ rule |-> RuleOf[j], signal |-> SignalOf[j], site |-> SiteOf[j],
              job |-> j, stamp |-> stamp[j] ]

Goto(j, place) == pc' = [ pc EXCEPT ![j] = place ]

(* Mutant: the lock belongs to the session, which the pool keeps open.     *)
ReleaseRowNever(j) == UNCHANGED rowOwner

ReleaseRow(j) ==
  rowOwner' = [ r \in Rules |-> IF rowOwner[r] = j THEN None ELSE rowOwner[r] ]

(* Mutant: the claim is committed in a transaction of its own.             *)
UndoKeepingClaim(j) ==
  /\ lastFired' = [ r \in Rules |-> IF rowOwner[r] = j THEN stamp[j] ELSE lastFired[r] ]
  /\ ReleaseRow(j)
  /\ UNCHANGED << effects, matches >>

(* Rollback: neither the claim nor the actions have happened.              *)
Undo(j) ==
  /\ ReleaseRow(j)
  /\ UNCHANGED << lastFired, effects, matches >>

Fault == faults < MaxFaults /\ faults' = faults + 1

-----------------------------------------------------------------------------
(* EvaluatorService.call and the operator                                  *)

Evaluate(j) ==
  /\ pc[j] = "absent"
  /\ \E t \in Clocks :
       /\ stamp' = [ stamp EXCEPT ![j] = t ]
       /\ Goto(j, IF ~active[RuleOf[j]] THEN "revalidation_skipped"
                  ELSE IF OnCooldown(RuleOf[j], t) THEN "cooldown_skipped" ELSE "queued")
  /\ UNCHANGED << now, active, lastFired, rowOwner, attempt, effects, matches, fusions, faults >>

Deactivate(r) ==
  /\ active[r]
  /\ active' = [ active EXCEPT ![r] = FALSE ]
  /\ UNCHANGED << now, lastFired, rowOwner, pc, attempt, stamp, effects, matches, fusions, faults >>

-----------------------------------------------------------------------------
(* RuleFiringJob.perform and RuleFiringService.call                        *)

(* A worker takes the job, revalidates it, and computes the cutoff.        *)
Start(j) ==
  /\ pc[j] = "queued"
  /\ attempt' = [ attempt EXCEPT ![j] = @ + 1 ]
  /\ IF active[RuleOf[j]]
     THEN /\ Goto(j, "claiming")
          /\ \E t \in Clocks : stamp' = [ stamp EXCEPT ![j] = t ]
     ELSE Goto(j, "revalidation_skipped") /\ stamp' = stamp
  /\ UNCHANGED << now, active, lastFired, rowOwner, effects, matches, fusions, faults >>

(* The UPDATE matches: it waits for the row lock, looks again, and wins.   *)
Claim(j) ==
  LET r == RuleOf[j]
  IN  /\ pc[j] = "claiming"
      /\ CooldownOver(r, stamp[j])
      /\ RowFree(r)
      /\ rowOwner' = [ rowOwner EXCEPT ![r] = j ]
      /\ Goto(j, "acting")
      /\ UNCHANGED << now, active, lastFired, attempt, stamp, effects, matches, fusions, faults >>

(* The UPDATE matches no row: CooldownActive.                              *)
LoseClaim(j) ==
  /\ pc[j] = "claiming"
  /\ ~CooldownOver(RuleOf[j], stamp[j])
  /\ Goto(j, "cooldown_skipped")
  /\ UNCHANGED << now, active, lastFired, rowOwner, attempt, stamp, effects, matches, fusions, faults >>

(* The actions succeed, the match is new, and the transaction commits.     *)
Commit(j) ==
  /\ pc[j] = "acting"
  /\ ~RecordedBefore(j)
  /\ lastFired' = [ lastFired EXCEPT ![RuleOf[j]] = stamp[j] ]
  /\ effects' = effects \cup {j}
  /\ matches' = matches \cup { Match(j) }
  /\ ReleaseRow(j)
  /\ Goto(j, "committed")
  /\ UNCHANGED << now, active, attempt, stamp, fusions, faults >>

(* create! raises RecordNotUnique: the actions are rolled back and the job *)
(* fails with "duplicate".                                                 *)
Reject(j) ==
  /\ pc[j] = "acting"
  /\ RecordedBefore(j)
  /\ Undo(j)
  /\ Goto(j, "duplicate")
  /\ UNCHANGED << now, active, attempt, stamp, fusions, faults >>

(* An action returns a failure: RuleFiringFailure, which is not retried.   *)
ActionFails(j) ==
  /\ pc[j] = "acting"
  /\ Fault
  /\ Undo(j)
  /\ Goto(j, "action_failed")
  /\ UNCHANGED << now, active, attempt, stamp, fusions >>

(* A statement raises StatementInvalid or PG::Error: retry_on.             *)
StatementFails(j) ==
  /\ pc[j] \in { "claiming", "acting" }
  /\ Fault
  /\ Undo(j)
  /\ Goto(j, IF attempt[j] < MaxAttempts THEN "queued" ELSE "exhausted")
  /\ UNCHANGED << now, active, attempt, stamp, fusions >>

(* After COMMIT: FusionJob.perform_later, in the queue database.           *)
EnqueueFusion(j) ==
  /\ pc[j] = "committed"
  /\ fusions' = fusions \cup { m \in matches : m.job = j }
  /\ Goto(j, "fired")
  /\ UNCHANGED << now, active, lastFired, rowOwner, attempt, stamp, effects, matches, faults >>

(* perform_later raises: logged, and the job has fired.                    *)
EnqueueFails(j) ==
  /\ pc[j] = "committed"
  /\ Fault
  /\ Goto(j, "fired")
  /\ UNCHANGED << now, active, lastFired, rowOwner, attempt, stamp, effects, matches, fusions >>

(* The worker stops in mid-job.  Solid Queue releases the jobs of a worker *)
(* that shuts down and fails those of one that was killed.                 *)
Crash(j) ==
  /\ pc[j] \in { "claiming", "acting", "committed" }
  /\ Fault
  /\ Undo(j)
  /\ Goto(j, "queued") \/ Goto(j, "killed")
  /\ UNCHANGED << now, active, attempt, stamp, fusions >>

-----------------------------------------------------------------------------
Clock ==
  /\ now < MaxTime
  /\ now' = now + 1
  /\ UNCHANGED << active, lastFired, rowOwner, pc, attempt, stamp, effects, matches, fusions, faults >>

Init ==
  /\ now = 0
  /\ active = [ r \in Rules |-> TRUE ]
  /\ lastFired = [ r \in Rules |-> None ]
  /\ rowOwner = [ r \in Rules |-> None ]
  /\ pc = [ j \in Jobs |-> "absent" ]
  /\ attempt = [ j \in Jobs |-> 0 ]
  /\ stamp = [ j \in Jobs |-> 0 ]
  /\ effects = {}
  /\ matches = {}
  /\ fusions = {}
  /\ faults = 0

Next ==
  \/ Clock
  \/ \E r \in Rules : Deactivate(r)
  \/ \E j \in Jobs :
       \/ Evaluate(j) \/ Start(j) \/ Claim(j) \/ LoseClaim(j)
       \/ Commit(j) \/ Reject(j) \/ ActionFails(j) \/ StatementFails(j)
       \/ EnqueueFusion(j) \/ EnqueueFails(j) \/ Crash(j)

Spec == Init /\ [][Next]_vars

(* Workers take queued jobs and run on; Postgres grants the row lock to    *)
(* its longest waiter.  Nothing is assumed of faults.                      *)
Fairness ==
  \A j \in Jobs :
    /\ WF_vars(Start(j) \/ LoseClaim(j) \/ Commit(j) \/ Reject(j) \/ EnqueueFusion(j))
    /\ SF_vars(Claim(j))

FairSpec == Spec /\ Fairness

-----------------------------------------------------------------------------
(* Type invariant *)

Places == Settled \cup { "absent", "queued", "claiming", "acting", "committed" }

Rows == [ rule : Rules, signal : { SignalOf[j] : j \in Jobs },
          site : { SiteOf[j] : j \in Jobs }, job : Jobs, stamp : Nat ]

(* Every variable has its shape, and a job holds the row lock of its rule  *)
(* exactly while its transaction is open (RuleFiringService.call).         *)
TypeOK ==
  /\ now \in Nat
  /\ active \in [Rules -> BOOLEAN]
  /\ lastFired \in [Rules -> Nat \cup {None}]
  /\ rowOwner \in [Rules -> Jobs \cup {None}]
  /\ pc \in [Jobs -> Places]
  /\ attempt \in [Jobs -> Nat]
  /\ stamp \in [Jobs -> Nat]
  /\ effects \subseteq Jobs
  /\ matches \subseteq Rows
  /\ fusions \subseteq matches
  /\ faults \in Nat
  /\ \A r \in Rules, j \in Jobs : rowOwner[r] = j <=> (RuleOf[j] = r /\ pc[j] = "acting")

-----------------------------------------------------------------------------
(* Safety *)

(* Two fires of a rule are a cooldown apart, by the times their workers    *)
(* recorded, although jobs race and worker clocks differ (ADR-004).        *)
CooldownRespected ==
  \A m, n \in matches :
    m.rule = n.rule =>
      m = n \/ m.stamp + Cooldown[m.rule] <= n.stamp \/ n.stamp + Cooldown[m.rule] <= m.stamp

(* There is no middle state: a cooldown is consumed exactly by the latest  *)
(* match, and the actions that were carried out are those of the matches.  *)
FireIsAtomic ==
  /\ effects = { m.job : m \in matches }
  /\ \A r \in Rules :
       IF lastFired[r] = None
       THEN \A m \in matches : m.rule # r
       ELSE \E m \in matches : m.rule = r /\ m.stamp = lastFired[r]

(* A signal is passed over for a cooldown only because a fire of its rule  *)
(* was committed within the cooldown: no fire is lost to a claim that was  *)
(* rolled back ("retries are not blocked by a consumed cooldown").         *)
SkippedOnlyForAFire ==
  \A j \in Jobs : pc[j] = "cooldown_skipped" =>
    \E m \in matches : m.rule = RuleOf[j] /\ m.stamp + Cooldown[m.rule] > stamp[j]

(* However often a signal is evaluated, and also once the cooldown is      *)
(* over, a rule acts on it once (the comment in EvaluateRecentJob.perform  *)
(* on reprocessing).                                                       *)
ActsOncePerSignal ==
  \A i, j \in effects : RuleOf[i] = RuleOf[j] /\ SignalOf[i] = SignalOf[j] => i = j

(* Every enqueued job ends: jobs that wait for the rule's row get it or    *)
(* find the cooldown consumed, whatever fails.                             *)
JobsSettle == \A j \in Jobs : pc[j] = "queued" ~> pc[j] \in Settled

(* FusionJob: the enqueue is atomic with the match, "no silent loss".      *)
(* Weakened to jobs that have ended.                                       *)
NoMatchOrphaned ==
  \A m \in matches : pc[m.job] \in Settled => m \in fusions

(* RuleFiringJob: failures other than a cooldown raise "so SolidQueue      *)
(* retries".                                                               *)
OtherFailuresRetried ==
  \A j \in Jobs : pc[j] = "action_failed" => attempt[j] >= MaxAttempts

-----------------------------------------------------------------------------
(* The inductive invariant behind the theorems of SignalPipelineProofs.    *)

(* While a job holds the row, the cooldown it found over stays over.       *)
ClaimStands ==
  \A j \in Jobs : pc[j] = "acting" => CooldownOver(RuleOf[j], stamp[j])

(* last_fired_at is the time of the latest match.                          *)
LastFiredIsLatest ==
  \A m \in matches : lastFired[m.rule] # None /\ m.stamp <= lastFired[m.rule]

FiringInv ==
  /\ TypeOK
  /\ ClaimStands
  /\ LastFiredIsLatest
  /\ FireIsAtomic
  /\ CooldownRespected
  /\ SkippedOnlyForAFire
=============================================================================
