------------------------------ MODULE Schedule ------------------------------
(***************************************************************************)
(* One OnSchedule of a capability (core/schedule.ts, Capability.OnSchedule *)
(* in core/capability.ts): a callback run at an interval in the watch pod, *)
(* a number of times, with what is left of it kept in the schedule store   *)
(* so that it outlives the pod.                                            *)
(*                                                                         *)
(* Time is what has passed and what is left: timers hold the ticks they    *)
(* still have to wait, entries of the store the age of their lastTimestamp,*)
(* both cut off at the duration, beyond which they make no difference. A   *)
(* timer never fires early, and may fire late.                             *)
(***************************************************************************)
EXTENDS Naturals, Sequences

CONSTANTS
  Duration,     \* what getDuration makes of every and unit, in ticks
  Limits,       \* what completions may be in the module's code
  Unlimited,    \* completions is undefined
  StartTime,    \* the ticks from the first start to startTime; 0 for none
  TimerLimit,   \* the longest delay a Node timer takes, 2^31 - 1 ms
  Absent,       \* no entry in the store
  MaxRestarts,  \* bound on restarts of the pod
  MaxLosses     \* bound on batches of writes the store loses

ASSUME DurationAssumption == Duration \in Nat \ {0} /\ TimerLimit \in Nat \ {0}
ASSUME ScheduleAssumption ==
  /\ Unlimited \notin Nat /\ Limits \subseteq Nat \cup {Unlimited}
  /\ StartTime \in Nat /\ MaxRestarts \in Nat /\ MaxLosses \in Nat

VARIABLES
  limit,        \* completions in the module's code
  timer,        \* the timer of the schedule: what it is, and the ticks left
  completions,  \* this.completions
  startsIn,     \* the ticks left to startTime
  stored,       \* the entry of the schedule in the store resource
  unsent,       \* the last write of it that is not in the resource yet, or << >>
  sinceRun,     \* history: ticks since the last run
  ran,          \* history: number of runs, when they are limited
  restarts, losses

vars == <<limit, timer, completions, startsIn, stored, unsent, sinceRun, ran, restarts, losses>>

\* unready: the store is not ready. delay: setTimeout before start. interval: the
\* setInterval of start. stopped: no timer.
TimerKind == {"unready", "delay", "interval", "stopped"}

Entry == [completions : Nat \cup {Unlimited}, age : 0..Duration]

Least(a, b) == IF a < b THEN a ELSE b
Less(n) == IF n = 0 THEN 0 ELSE n - 1

\* Node, external: a delay that does not fit 32 bits becomes the shortest one.
Armed(kind, ticks) ==
  [kind |-> kind, left |-> IF ticks > TimerLimit THEN 1 ELSE ticks]
Unset(kind) == [kind |-> kind, left |-> 0]

Init ==
  /\ limit \in Limits
  /\ timer = Unset("unready")
  /\ completions = limit
  /\ startsIn = StartTime
  /\ stored = Absent
  /\ unsent = << >>
  /\ sinceRun = Duration
  /\ ran = 0
  /\ restarts = 0 /\ losses = 0

\* The delay of setupInterval: after a restart what is left of the interval, at
\* first the time to startTime, which an entry with a lastTimestamp overrides.
DelayBeforeStart ==
  IF stored # Absent THEN Duration - stored.age ELSE startsIn

\* Mutant of Ready: a schedule that is overdue runs at once.
ReadyToRun ==
  /\ timer.kind = "unready"
  /\ completions' = IF stored = Absent THEN limit ELSE stored.completions
  /\ timer' = IF DelayBeforeStart > 0 THEN Armed("delay", DelayBeforeStart)
                                      ELSE Armed("interval", 0)
  /\ UNCHANGED <<limit, startsIn, stored, unsent, sinceRun, ran, restarts, losses>>

\* The schedule store is ready: setStore, which reads the entry and sets the timer.
Ready ==
  /\ timer.kind = "unready"
  /\ completions' = IF stored = Absent THEN limit ELSE stored.completions
  /\ timer' = IF DelayBeforeStart > 0 THEN Armed("delay", DelayBeforeStart)
                                      ELSE Armed("interval", Duration)
  /\ UNCHANGED <<limit, startsIn, stored, unsent, sinceRun, ran, restarts, losses>>

\* The timeout of setupInterval: start.
Start ==
  /\ timer.kind = "delay" /\ timer.left = 0
  /\ timer' = Armed("interval", Duration)
  /\ UNCHANGED <<limit, completions, startsIn, stored, unsent, sinceRun, ran, restarts, losses>>

Decremented(n) == IF n = Unlimited THEN n ELSE n - 1

\* Mutant of Run: completions is not counted down.
RunUncounted ==
  /\ timer.kind = "interval" /\ timer.left = 0 /\ completions # 0
  /\ timer' = Armed("interval", Duration)
  /\ unsent' = <<[completions |-> completions, age |-> 0]>>
  /\ sinceRun' = 0
  /\ ran' = IF limit = Unlimited \/ ran > limit THEN ran ELSE ran + 1
  /\ UNCHANGED <<limit, completions, startsIn, stored, restarts, losses>>

\* Mutant of Run: the timer is a setTimeout.
RunOnce ==
  /\ timer.kind = "interval" /\ timer.left = 0 /\ completions # 0
  /\ timer' = Unset("stopped")
  /\ completions' = Decremented(completions)
  /\ unsent' = <<[completions |-> completions', age |-> 0]>>
  /\ sinceRun' = 0
  /\ ran' = IF limit = Unlimited THEN ran ELSE ran + 1
  /\ UNCHANGED <<limit, startsIn, stored, restarts, losses>>

\* The interval: run, count down, save. Node sets the interval again when it fires.
Run ==
  /\ timer.kind = "interval" /\ timer.left = 0
  /\ completions # 0
  /\ timer' = Armed("interval", Duration)
  /\ completions' = Decremented(completions)
  /\ unsent' = <<[completions |-> completions', age |-> 0]>>
  /\ sinceRun' = 0
  /\ ran' = IF limit = Unlimited THEN ran ELSE ran + 1
  /\ UNCHANGED <<limit, startsIn, stored, restarts, losses>>

\* The interval when no runs are left: stop, which removes the entry.
Stop ==
  /\ timer.kind = "interval" /\ timer.left = 0
  /\ completions = 0
  /\ timer' = Unset("stopped")
  /\ unsent' = <<Absent>>
  /\ UNCHANGED <<limit, completions, startsIn, stored, sinceRun, ran, restarts, losses>>

\* The store sends its cache: the last write stays.
Persist ==
  /\ unsent # << >>
  /\ stored' = Head(unsent)
  /\ unsent' = << >>
  /\ UNCHANGED <<limit, timer, completions, startsIn, sinceRun, ran, restarts, losses>>

\* The patch fails, and the cache with it.
Lose ==
  /\ unsent # << >> /\ losses < MaxLosses
  /\ unsent' = << >>
  /\ losses' = losses + 1
  /\ UNCHANGED <<limit, timer, completions, startsIn, stored, sinceRun, ran, restarts>>

\* The pod starts over. A run that throws does not come back to be counted: it
\* ends the process, as any uncaught exception.
Restart(run) ==
  /\ restarts < MaxRestarts
  /\ restarts' = restarts + 1
  /\ run => timer.kind = "interval" /\ timer.left = 0 /\ completions # 0
  /\ sinceRun' = IF run THEN 0 ELSE sinceRun
  /\ ran' = IF run /\ limit # Unlimited THEN ran + 1 ELSE ran
  /\ timer' = Unset("unready")
  /\ completions' = limit
  /\ unsent' = << >>
  /\ UNCHANGED <<limit, startsIn, stored, losses>>

Older(e) == IF e = Absent THEN e ELSE [e EXCEPT !.age = Least(@ + 1, Duration)]

\* A write is sent before the next run: caches are sent every 4 s, and runs are 10 s
\* apart at least.
SentInTime ==
  \A i \in DOMAIN unsent : unsent[i] # Absent => unsent[i].age + 1 < Duration

Tick ==
  /\ SentInTime
  /\ timer' = [timer EXCEPT !.left = Less(@)]
  /\ startsIn' = Less(startsIn)
  /\ stored' = Older(stored)
  /\ unsent' = [i \in DOMAIN unsent |-> Older(unsent[i])]
  /\ sinceRun' = Least(sinceRun + 1, Duration)
  /\ UNCHANGED <<limit, completions, ran, restarts, losses>>

Next ==
  \/ Ready \/ Start \/ Run \/ Stop \/ Persist \/ Lose
  \/ \E run \in BOOLEAN : Restart(run)
  \/ Tick

Spec == Init /\ [][Next]_vars

\* Time passes, timers fire, the store becomes ready and sends its writes.
\* Nothing makes the pod start over or a patch fail.
Fairness == WF_vars(Ready) /\ WF_vars(Start) /\ WF_vars(Run) /\ WF_vars(Stop)
            /\ WF_vars(Persist) /\ WF_vars(Tick)
FairSpec == Spec /\ Fairness

(***************************************************************************)
(* Properties.                                                             *)
(***************************************************************************)

\* Timers, entries and counters keep their ranges.
TypeOK ==
  /\ limit \in Limits
  /\ timer \in [kind : TimerKind, left : Nat]
  /\ completions \in Nat \cup {Unlimited}
  /\ startsIn \in Nat
  /\ stored \in Entry \cup {Absent}
  /\ unsent \in Seq(Entry \cup {Absent}) /\ Len(unsent) <= 1
  /\ sinceRun \in 0..Duration
  /\ ran \in Nat /\ restarts \in 0..MaxRestarts /\ losses \in 0..MaxLosses

\* Two runs are never less than the duration apart, whatever restarts and lost
\* writes there are between them: what is left of an interval is waited for
\* before a whole one begins.
RunsApart == [][Run \/ Restart(TRUE) => sinceRun = Duration]_vars

\* Lost writes alone never make a schedule run more often than it should: what is
\* left to run is kept in the pod, and read from the store only by the next one.
OverrunsOnlyAfterRestart ==
  limit # Unlimited /\ ran > limit => restarts > 0

\* A schedule with a number of completions comes to its end, and stays there; one
\* without runs again and again. Restarts and lost writes end neither too early.
RunsItsCourse ==
  /\ <>[](limit # Unlimited => timer.kind = "stopped")
  /\ []<>(limit = Unlimited => sinceRun = 0)
=============================================================================
