------------------------------ MODULE Scheduler ------------------------------
(***************************************************************************)
(* The speculative-work scheduler (scheduler.py): one _State per process,  *)
(* shared by the live path (critical_path around classification and the    *)
(* live reply) and by the speculative path (speculative_slot around the    *)
(* pre-drafted replies).                                                   *)
(*                                                                         *)
(* Every action is one turn of the event loop: what a coroutine does       *)
(* between two suspensions.  `async with self._lock' never suspends (no    *)
(* holder of the lock awaits), so enter_critical and exit_critical are one *)
(* step each.  acquire_speculative suspends at idle.wait() and at          *)
(* sem.acquire() only, and both matter: a coroutine that set() or          *)
(* release() has woken runs LATER, and the flag may have been cleared      *)
(* again by then.                                                          *)
(***************************************************************************)
EXTENDS Integers, SequencesExt

CONSTANTS
    LiveCalls,   \* callers of critical_path
    SpecCalls,   \* callers of speculative_slot
    Budget       \* settings.speculative_budget

ASSUME BudgetAssumption == Budget \in Int
ASSUME CallsAssumption  == IsFiniteSet(LiveCalls) /\ IsFiniteSet(SpecCalls)

\* Semaphore(max(1, speculative_budget))
Permits == IF Budget < 1 THEN 1 ELSE Budget

VARIABLES
    live,            \* the live calls inside critical_path
    criticalActive,  \* _State._critical_active
    idle,            \* _State._idle, the event's flag
    value,           \* _State._sem, the semaphore's counter
    waiters,         \* the semaphore's queue; a waiter leaves it when it RUNS
    pc               \* where each speculative call is suspended

vars == <<live, criticalActive, idle, value, waiters, pc>>

(***************************************************************************)
(* out         not in speculative_slot                                     *)
(* waitIdle    suspended in idle.wait()                                    *)
(* woken       its idle.wait() is over, the coroutine has not run yet      *)
(* waitPermit  suspended in sem.acquire()                                  *)
(* granted     a release() passed it a permit, it has not run yet          *)
(* calling     inside the body: the model call is in progress              *)
(***************************************************************************)
Stages == {"out", "waitIdle", "woken", "waitPermit", "granted", "calling"}

In(stage) == {s \in SpecCalls : pc[s] = stage}

\* The calls that own a permit.
Holders == In("granted") \cup In("calling")

Before(a, b) ==
    \E i, j \in DOMAIN waiters : i < j /\ waiters[i] = a /\ waiters[j] = b

SmallerOf(m, n) == IF m < n THEN m ELSE n

\* The queue without s, which is in it (deque.remove).
Without(s) ==
    RemoveAt(waiters, CHOOSE i \in DOMAIN waiters : waiters[i] = s)

(***************************************************************************)
(* s moves on to `stage' and leaves `free' permits in the semaphore, which *)
(* passes one to each of the first calls queued for it, at most atMost of  *)
(* them (Semaphore._wake_up_next).                                         *)
(***************************************************************************)
PassPermits(s, stage, free, atMost) ==
    LET blocked == In("waitPermit") \ {s} IN
    \E W \in SUBSET blocked :
        /\ Cardinality(W) = SmallerOf(atMost, Cardinality(blocked))
        /\ \A a \in W, b \in blocked \ W : Before(a, b)
        /\ value' = free - Cardinality(W)
        /\ pc' = [t \in SpecCalls |->
                    IF t = s THEN stage ELSE IF t \in W THEN "granted" ELSE pc[t]]

-----------------------------------------------------------------------------
Init ==
    /\ live = {}
    /\ criticalActive = 0
    /\ idle = TRUE
    /\ value = Permits
    /\ waiters = <<>>
    /\ pc = [s \in SpecCalls |-> "out"]

EnterCritical(c) ==
    /\ c \notin live
    /\ live' = live \cup {c}
    /\ criticalActive' = criticalActive + 1
    /\ idle' = FALSE
    /\ UNCHANGED <<value, waiters, pc>>

\* Mutant of ExitCritical: the flag goes up and nobody is told.
ExitCriticalUnheard(c) ==
    /\ c \in live
    /\ live' = live \ {c}
    /\ criticalActive' = criticalActive - 1
    /\ idle' = (live' = {})
    /\ UNCHANGED <<value, waiters, pc>>

\* The last live call out sets the event, which wakes every idle.wait().
ExitCritical(c) ==
    /\ c \in live
    /\ live' = live \ {c}
    /\ IF criticalActive - 1 <= 0
       THEN /\ criticalActive' = 0
            /\ idle' = TRUE
            /\ pc' = [s \in SpecCalls |-> IF pc[s] = "waitIdle" THEN "woken" ELSE pc[s]]
       ELSE /\ criticalActive' = criticalActive - 1
            /\ UNCHANGED <<idle, pc>>
    /\ UNCHANGED <<value, waiters>>

-----------------------------------------------------------------------------
\* Semaphore.locked(): no permit left, or somebody is already queued.
Locked == value = 0 \/ waiters # <<>>

(***************************************************************************)
(* sem.acquire() and the re-check of the flag, up to the next suspension.  *)
(* A permit taken without suspending while the flag is down is given back  *)
(* at once, and the call waits for the flag again.                         *)
(***************************************************************************)
TryPermit(s) ==
    /\ IF Locked
       THEN /\ waiters' = Append(waiters, s)
            /\ pc' = [pc EXCEPT ![s] = "waitPermit"]
            /\ UNCHANGED value
       ELSE /\ value' = IF idle THEN value - 1 ELSE value
            /\ pc' = [pc EXCEPT ![s] = IF idle THEN "calling" ELSE "waitIdle"]
            /\ UNCHANGED waiters
    /\ UNCHANGED <<live, criticalActive, idle>>

\* acquire_speculative is entered while a live call is in progress.
HoldForCritical(s) ==
    /\ pc[s] = "out"
    /\ ~idle
    /\ pc' = [pc EXCEPT ![s] = "waitIdle"]
    /\ UNCHANGED <<live, criticalActive, idle, value, waiters>>

\* acquire_speculative is entered with the flag up: idle.wait() returns at once.
AcquireSpeculative(s) ==
    /\ pc[s] = "out"
    /\ idle
    /\ TryPermit(s)

\* idle.wait() returns to a woken call, whatever the flag says by now.
ResumeFromIdle(s) ==
    /\ pc[s] = "woken"
    /\ TryPermit(s)

\* Mutant of ResumeGranted: the flag is not checked again after sem.acquire().
ResumeGrantedNoRecheck(s) ==
    /\ pc[s] = "granted"
    /\ waiters' = Without(s)
    /\ PassPermits(s, "calling", value, value)
    /\ UNCHANGED <<live, criticalActive, idle>>

\* Mutant of ResumeGranted: a permit given back wakes nobody.
ResumeGrantedSilent(s) ==
    /\ pc[s] = "granted"
    /\ waiters' = Without(s)
    /\ IF idle THEN PassPermits(s, "calling", value, 0)
               ELSE PassPermits(s, "waitIdle", value + 1, 0)
    /\ UNCHANGED <<live, criticalActive, idle>>

(***************************************************************************)
(* A queued call runs with the permit it was passed.  It leaves the queue, *)
(* wakes others if permits are free, and re-checks the flag: up, it starts *)
(* its model call; down, it releases the permit and waits for the flag.    *)
(***************************************************************************)
ResumeGranted(s) ==
    /\ pc[s] = "granted"
    /\ waiters' = Without(s)
    /\ IF idle THEN PassPermits(s, "calling", value, value)
               ELSE PassPermits(s, "waitIdle", value + 1, value + 1)
    /\ UNCHANGED <<live, criticalActive, idle>>

\* The body ends, by return or exception: __aexit__ releases, waking at most one.
ReleaseSpeculative(s) ==
    /\ pc[s] = "calling"
    /\ PassPermits(s, "out", value + 1, 1)
    /\ UNCHANGED <<live, criticalActive, idle, waiters>>

-----------------------------------------------------------------------------
(***************************************************************************)
(* A task may be cancelled (supervisor.run expects it) wherever it is      *)
(* suspended.  In idle.wait() it just leaves.  In sem.acquire() it leaves  *)
(* the queue, puts back the permit it was passed but never ran with, and   *)
(* wakes whoever a free permit can wake.  A cancelled model call is a      *)
(* ReleaseSpeculative.                                                     *)
(***************************************************************************)
CancelIdle(s) ==
    /\ pc[s] \in {"waitIdle", "woken"}
    /\ pc' = [pc EXCEPT ![s] = "out"]
    /\ UNCHANGED <<live, criticalActive, idle, value, waiters>>

CancelQueued(s) ==
    /\ pc[s] \in {"waitPermit", "granted"}
    /\ waiters' = Without(s)
    /\ LET free == IF pc[s] = "granted" THEN value + 1 ELSE value
       IN  PassPermits(s, "out", free, free)
    /\ UNCHANGED <<live, criticalActive, idle>>

-----------------------------------------------------------------------------
Next ==
    \/ \E c \in LiveCalls : EnterCritical(c) \/ ExitCritical(c)
    \/ \E s \in SpecCalls :
          \/ HoldForCritical(s)   \/ AcquireSpeculative(s)
          \/ ResumeFromIdle(s)    \/ ResumeGranted(s)
          \/ ReleaseSpeculative(s)
          \/ CancelIdle(s)        \/ CancelQueued(s)

Spec == Init /\ [][Next]_vars

(***************************************************************************)
(* The event loop runs every ready coroutine, and a model call ends (it    *)
(* answers, fails, or times out in the client).  Nothing says that live    *)
(* calls stop arriving.                                                    *)
(***************************************************************************)
Fairness ==
    \A s \in SpecCalls :
        /\ WF_vars(ResumeFromIdle(s))
        /\ WF_vars(ResumeGranted(s))
        /\ WF_vars(ReleaseSpeculative(s))

FairSpec == Spec /\ Fairness

-----------------------------------------------------------------------------
TypeOK ==
    /\ live \subseteq LiveCalls
    /\ criticalActive \in Nat
    /\ idle \in BOOLEAN
    /\ value \in Nat
    /\ waiters \in Seq(SpecCalls)
    /\ pc \in [SpecCalls -> Stages]

(***************************************************************************)
(* No permit is lost or minted, across hand-overs, give-backs and          *)
(* cancellations: what the semaphore holds and what calls own always add   *)
(* up to the budget.                                                       *)
(***************************************************************************)
PermitsConserved == value + Cardinality(Holders) = Permits

(***************************************************************************)
(* The event flag is up exactly when no live call is inside critical_path, *)
(* and the counter counts them.                                            *)
(***************************************************************************)
FlagTracksLive ==
    /\ criticalActive = Cardinality(live)
    /\ idle <=> live = {}

(***************************************************************************)
(* A permit never lies in the semaphore while a call is queued for one,    *)
(* unless a call that was already passed a permit is about to run and will *)
(* wake it: no wake-up is lost.                                            *)
(***************************************************************************)
NoLostWakeup ==
    value > 0 /\ In("waitPermit") # {} => In("granted") # {}

(***************************************************************************)
(* The queue holds exactly the calls suspended in sem.acquire(), once each.*)
(***************************************************************************)
QueueMatchesStages ==
    /\ {waiters[i] : i \in DOMAIN waiters} = In("waitPermit") \cup In("granted")
    /\ \A i, j \in DOMAIN waiters : waiters[i] = waiters[j] => i = j

(***************************************************************************)
(* The scheduler implements the gate: the budget and "no speculative call  *)
(* starts while a live one is in progress" (scheduler.py's own words).     *)
(***************************************************************************)
Gate == INSTANCE SpeculationGate WITH
            Limit <- Permits, calling <- In("calling")

GateSafety == Gate!GateSpec

(***************************************************************************)
(* Once live traffic stops, every speculative call that waits gets its     *)
(* turn (or is cancelled): holding back is not starvation.                 *)
(***************************************************************************)
SpeculationResumes ==
    <>[](live = {}) =>
        \A s \in SpecCalls : pc[s] # "out" ~> pc[s] \in {"calling", "out"}
=============================================================================
