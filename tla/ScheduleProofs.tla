--------------------------- MODULE ScheduleProofs ---------------------------
(***************************************************************************)
(* Proofs about Schedule, for any duration a Node timer takes, any number  *)
(* of completions, and any bounds; and about StoreStartup, the start of    *)
(* the stores of which schedules need one, for any pods, capabilities,     *)
(* items and bounds.                                                       *)
(***************************************************************************)
EXTENDS Schedule, StoreStartup, SequenceTheorems, TLAPS

\* A write is a sequence of one entry, or of none.
Writes(E) == {<< >>} \cup {<<e>> : e \in E}

TypeInv ==
  /\ limit \in Limits
  /\ timer \in [kind : TimerKind, left : Nat]
  /\ completions \in Nat \cup {Unlimited}
  /\ startsIn \in Nat
  /\ stored \in Entry \cup {Absent}
  /\ unsent \in Writes(Entry \cup {Absent})
  /\ sinceRun \in 0..Duration
  /\ ran \in Nat /\ restarts \in 0..MaxRestarts /\ losses \in 0..MaxLosses

\* While the interval is set, what is left of it and what has passed since the last
\* run make up a whole interval.
Spaced == timer.kind = "interval" => timer.left + sinceRun >= Duration

IInv == TypeInv /\ Spaced

\* An entry that gets older stays an entry.
LEMMA OlderType ==
  ASSUME NEW e \in Entry \cup {Absent} PROVE Older(e) \in Entry \cup {Absent}
<1>1. CASE e = Absent
  BY <1>1 DEF Older
<1>2. CASE e # Absent
  BY <1>2, DurationAssumption DEF Older, Entry, Least
<1> QED BY <1>1, <1>2

\* Timers are set to a number of ticks, to the whole of it when they can wait so long.
LEMMA ArmedType ==
  ASSUME NEW kind \in TimerKind, NEW ticks \in Nat
  PROVE  /\ Armed(kind, ticks) \in [kind : TimerKind, left : Nat]
         /\ Armed(kind, ticks).kind = kind
         /\ ticks <= TimerLimit => Armed(kind, ticks).left = ticks
BY DurationAssumption DEF Armed

\* The delay before the start is a number of ticks.
LEMMA DelayType == ASSUME TypeInv PROVE DelayBeforeStart \in Nat
<1>1. CASE stored = Absent
  BY <1>1 DEF DelayBeforeStart, TypeInv
<1>2. CASE stored # Absent
  <2>1. stored.age \in 0..Duration
    BY <1>2 DEF TypeInv, Entry
  <2> QED BY <1>2, <2>1, DurationAssumption DEF DelayBeforeStart
<1> QED BY <1>1, <1>2

\* The start.
LEMMA InitIInv == Init => IInv
<1> SUFFICES ASSUME Init PROVE IInv
  OBVIOUS
<1>1. TypeInv
  BY DurationAssumption, ScheduleAssumption DEF Init, TypeInv, Unset, TimerKind, Writes
<1>2. Spaced
  BY DurationAssumption DEF Init, Unset, Spaced
<1> QED BY <1>1, <1>2 DEF IInv

\* Every step keeps the types.
LEMMA StepType == TypeInv /\ [Next]_vars => TypeInv'
<1> SUFFICES ASSUME TypeInv, [Next]_vars PROVE TypeInv'
  OBVIOUS
<1> USE DEF TimerKind
<1>1. CASE Ready
  <2>1. DelayBeforeStart \in Nat /\ Duration \in Nat
    BY DelayType, DurationAssumption
  <2>2. timer' \in [kind : TimerKind, left : Nat]
    BY <1>1, <2>1, ArmedType DEF Ready
  <2>3. completions' \in Nat \cup {Unlimited}
    BY <1>1, ScheduleAssumption DEF Ready, TypeInv, Entry
  <2> QED BY <1>1, <2>2, <2>3 DEF Ready, TypeInv
<1>2. CASE Start
  <2>1. timer' \in [kind : TimerKind, left : Nat]
    BY <1>2, ArmedType, DurationAssumption DEF Start
  <2> QED BY <1>2, <2>1 DEF Start, TypeInv
<1>3. CASE Run
  <2>1. timer' \in [kind : TimerKind, left : Nat]
    BY <1>3, ArmedType, DurationAssumption DEF Run
  <2>2. completions' \in Nat \cup {Unlimited}
    BY <1>3 DEF Run, TypeInv, Decremented
  <2>3. [completions |-> completions', age |-> 0] \in Entry
    BY <2>2, DurationAssumption DEF Entry
  <2> QED BY <1>3, <2>1, <2>2, <2>3, DurationAssumption DEF Run, TypeInv, Writes
<1>4. CASE Stop
  <2>1. unsent' \in Writes(Entry \cup {Absent})
    BY <1>4 DEF Stop, Writes
  <2>2. timer' \in [kind : TimerKind, left : Nat]
    BY <1>4 DEF Stop, Unset
  <2> QED BY <1>4, <2>1, <2>2 DEF Stop, TypeInv
<1>5. CASE Persist
  <2>1. PICK e \in Entry \cup {Absent} : unsent = <<e>>
    BY <1>5 DEF Persist, TypeInv, Writes
  <2>2. stored' = e /\ unsent' = << >>
    BY <1>5, <2>1 DEF Persist
  <2> QED BY <1>5, <2>2 DEF Persist, TypeInv, Writes
<1>6. CASE Lose
  BY <1>6, ScheduleAssumption DEF Lose, TypeInv, Writes
<1>7. ASSUME NEW run \in BOOLEAN, Restart(run) PROVE TypeInv'
  <2>1. timer' \in [kind : TimerKind, left : Nat] /\ unsent' \in Writes(Entry \cup {Absent})
    BY <1>7 DEF Restart, Unset, Writes
  <2>2. sinceRun' \in 0..Duration /\ ran' \in Nat /\ restarts' \in 0..MaxRestarts
    BY <1>7, DurationAssumption, ScheduleAssumption DEF Restart, TypeInv
  <2>3. completions' \in Nat \cup {Unlimited}
    BY <1>7, ScheduleAssumption DEF Restart, TypeInv
  <2> QED BY <1>7, <2>1, <2>2, <2>3 DEF Restart, TypeInv
<1>8. CASE Tick
  <2>1. timer' \in [kind : TimerKind, left : Nat]
    BY <1>8 DEF Tick, TypeInv, Less
  <2>2. stored' \in Entry \cup {Absent}
    BY <1>8, OlderType DEF Tick, TypeInv
  <2>3. unsent' \in Writes(Entry \cup {Absent})
    <3>1. CASE unsent = << >>
      BY <1>8, <3>1 DEF Tick, Writes
    <3>2. ASSUME NEW e \in Entry \cup {Absent}, unsent = <<e>>
          PROVE  unsent' \in Writes(Entry \cup {Absent})
      <4>1. unsent' = <<Older(e)>>
        BY <1>8, <3>2 DEF Tick
      <4> QED BY <4>1, OlderType DEF Writes
    <3>3. unsent = << >> \/ \E e \in Entry \cup {Absent} : unsent = <<e>>
      <4>1. unsent \in Writes(Entry \cup {Absent})
        BY DEF TypeInv
      <4> QED BY <4>1, Zenon DEF Writes
    <3> QED BY <3>1, <3>2, <3>3
  <2>4. startsIn' \in Nat /\ sinceRun' \in 0..Duration
    BY <1>8, DurationAssumption DEF Tick, TypeInv, Less, Least
  <2> QED BY <1>8, <2>1, <2>2, <2>3, <2>4 DEF Tick, TypeInv
<1>9. CASE UNCHANGED vars
  BY <1>9 DEF vars, TypeInv
<1> QED BY <1>1, <1>2, <1>3, <1>4, <1>5, <1>6, <1>7, <1>8, <1>9 DEF Next

\* Every step keeps runs apart, when the duration is one a Node timer takes.
LEMMA StepSpaced ==
  ASSUME Duration <= TimerLimit, IInv, [Next]_vars PROVE Spaced'
<1> USE DurationAssumption DEF IInv
<1>0. timer.left \in Nat /\ sinceRun \in 0..Duration
  BY DEF TypeInv
<1>1. CASE Ready \/ Start \/ Run
  <2>1. timer'.kind = "interval" => timer'.left = Duration
    <3>1. DelayBeforeStart \in Nat
      BY DelayType
    <3> QED BY <1>1, <3>1, ArmedType DEF Ready, Start, Run, TimerKind
  <2>2. sinceRun' \in 0..Duration
    BY <1>0, <1>1 DEF Ready, Start, Run
  <2> QED BY <2>1, <2>2 DEF Spaced
<1>2. CASE Stop
  BY <1>2 DEF Stop, Unset, Spaced
<1>3. CASE Persist \/ Lose \/ UNCHANGED vars
  BY <1>3 DEF Persist, Lose, vars, Spaced
<1>4. ASSUME NEW run \in BOOLEAN, Restart(run) PROVE Spaced'
  BY <1>4 DEF Restart, Unset, Spaced
<1>5. CASE Tick
  <2>1. timer'.kind = timer.kind /\ timer'.left = Less(timer.left)
    BY <1>5 DEF Tick, TypeInv
  <2>2. sinceRun' = Least(sinceRun + 1, Duration)
    BY <1>5 DEF Tick
  <2> QED BY <1>0, <2>1, <2>2 DEF Spaced, Less, Least
<1> QED BY <1>1, <1>2, <1>3, <1>4, <1>5 DEF Next

\* Timers, entries and counters keep their types.
THEOREM TypeCorrect == Spec => []TypeOK
<1>1. TypeInv => TypeOK
  <2> SUFFICES ASSUME TypeInv PROVE TypeOK
    OBVIOUS
  <2>1. unsent \in Seq(Entry \cup {Absent}) /\ Len(unsent) <= 1
    <3>1. unsent \in Writes(Entry \cup {Absent})
      BY DEF TypeInv
    <3>2. CASE unsent = << >>
      BY <3>2
    <3>3. ASSUME NEW e \in Entry \cup {Absent}, unsent = <<e>>
          PROVE  unsent \in Seq(Entry \cup {Absent}) /\ Len(unsent) <= 1
      BY <3>3
    <3>4. unsent = << >> \/ \E e \in Entry \cup {Absent} : unsent = <<e>>
      BY <3>1, Zenon DEF Writes
    <3> QED BY <3>2, <3>3, <3>4
  <2> QED BY <2>1 DEF TypeInv, TypeOK
<1>2. Init => TypeInv
  BY InitIInv DEF IInv
<1> QED BY <1>1, <1>2, StepType, PTL DEF Spec

\* Two runs of a schedule are never less than the duration apart, however often the
\* pod starts over and whatever the store loses in between.
THEOREM RunsAreApart ==
  ASSUME Duration <= TimerLimit PROVE Spec => RunsApart
<1>1. IInv /\ [Next]_vars => IInv'
  BY StepType, StepSpaced DEF IInv
<1>2. IInv /\ [Next]_vars => [Run \/ Restart(TRUE) => sinceRun = Duration]_vars
  <2> SUFFICES ASSUME IInv, Run \/ Restart(TRUE) PROVE sinceRun = Duration
    OBVIOUS
  <2>1. timer.kind = "interval" /\ timer.left = 0
    BY DEF Run, Restart
  <2> QED BY <2>1, DurationAssumption DEF IInv, Spaced, TypeInv
<1> QED BY InitIInv, <1>1, <1>2, PTL DEF Spec, RunsApart

\* As long as the pod has not started over, what has run and what is left to run
\* make up the number of completions.
Counted ==
  restarts = 0 /\ limit # Unlimited =>
    /\ completions \in Nat /\ ran + completions = limit
    /\ timer.kind = "unready" => stored = Absent /\ unsent = << >> /\ ran = 0

\* Every step keeps count.
LEMMA StepCounted ==
  ASSUME TypeInv, Counted, [Next]_vars PROVE Counted'
<1> SUFFICES ASSUME restarts' = 0, limit' # Unlimited
             PROVE  /\ completions' \in Nat /\ ran' + completions' = limit'
                    /\ timer'.kind = "unready" =>
                         stored' = Absent /\ unsent' = << >> /\ ran' = 0
  BY DEF Counted
<1>0. ran \in Nat /\ restarts \in Nat /\ limit \in Nat \cup {Unlimited}
  BY ScheduleAssumption DEF TypeInv
<1>1. CASE Ready
  <2>1. timer'.kind # "unready"
    BY <1>1, DelayType, ArmedType, DurationAssumption DEF Ready, TimerKind
  <2> QED BY <1>0, <1>1, <2>1 DEF Ready, Counted
<1>2. CASE Start
  <2>1. timer'.kind # "unready"
    BY <1>2, ArmedType, DurationAssumption DEF Start, TimerKind
  <2> QED BY <1>2, <2>1 DEF Start, Counted
<1>3. CASE Run
  <2>1. timer'.kind # "unready"
    BY <1>3, ArmedType, DurationAssumption DEF Run, TimerKind
  <2> QED BY <1>0, <1>3, <2>1, ScheduleAssumption DEF Run, Counted, Decremented
<1>4. CASE Stop
  BY <1>4 DEF Stop, Counted, Unset
<1>5. CASE Persist
  BY <1>5 DEF Persist, Counted
<1>6. CASE Lose
  BY <1>6 DEF Lose, Counted
<1>7. ASSUME NEW run \in BOOLEAN, Restart(run) PROVE FALSE
  BY <1>0, <1>7 DEF Restart
<1>8. CASE Tick
  <2>1. timer'.kind = timer.kind
    BY <1>8 DEF Tick, TypeInv
  <2>2. stored = Absent => stored' = Absent
    BY <1>8 DEF Tick, Older
  <2>3. unsent = << >> => unsent' = << >>
    BY <1>8 DEF Tick
  <2> QED BY <1>8, <2>1, <2>2, <2>3 DEF Tick, Counted
<1>9. CASE UNCHANGED vars
  BY <1>9 DEF vars, Counted
<1> QED BY <1>1, <1>2, <1>3, <1>4, <1>5, <1>6, <1>7, <1>8, <1>9 DEF Next

\* A schedule overruns only when its pod has started over: what is left to run is
\* not read back from the store before, whatever the store has lost.
THEOREM OverrunsNeedRestart == Spec => []OverrunsOnlyAfterRestart
<1>1. Init => TypeInv /\ Counted
  <2>1. Init => TypeInv
    BY InitIInv DEF IInv
  <2>2. Init => Counted
    BY ScheduleAssumption DEF Init, Counted
  <2> QED BY <2>1, <2>2
<1>2. TypeInv /\ Counted /\ [Next]_vars => TypeInv' /\ Counted'
  BY StepType, StepCounted
<1>3. TypeInv /\ Counted => OverrunsOnlyAfterRestart
  BY ScheduleAssumption DEF TypeInv, Counted, OverrunsOnlyAfterRestart
<1> QED BY <1>1, <1>2, <1>3, PTL DEF Spec

(***************************************************************************)
(* The start of the stores, the one of the schedules among them.           *)
(***************************************************************************)

Old(o) == OldKey(o[1], o[2])
New(o) == NewKey(o[1], o[2])
Keys == {Old(o) : o \in OwnedItem} \cup {New(o) : o \in OwnedItem}

\* No capability's name begins with that of another, and no item's with the version.
OwnKeys ==
  /\ \A n, m \in Name : IsPrefix(n, m) => n = m
  /\ \A i \in Item : i # << >> => i[1] # "v2"

\* What keys are made of: parts of names, and of what comes between them.
Part == STRING \cup {"-", "v2"}

LEMMA PartFacts ==
  "-" \in Part /\ "v2" \in Part /\ Name \subseteq Seq(Part) /\ Item \subseteq Seq(Part)
<1>1. "-" \in Part /\ "v2" \in Part
  BY Zenon DEF Part
<1>2. STRING \subseteq Part
  BY Zenon DEF Part
<1>3. \A s \in Seq(STRING) : s \in Seq(Part)
  BY <1>2, SeqMonotonic, Zenon
<1>4. Name \subseteq Seq(STRING) /\ Item \subseteq Seq(STRING)
  BY StartupAssumption, Zenon
<1> QED BY <1>1, <1>3, <1>4, Zenon

\* What one sequence that begins another has in common with it.
LEMMA PrefixFacts ==
  ASSUME NEW s \in Seq(Part), NEW t \in Seq(Part)
  PROVE  IsPrefix(s, t) <=> Len(s) <= Len(t) /\ \A i \in 1..Len(s) : s[i] = t[i]
<1>1. PICK n \in Nat, m \in Nat : n = Len(s) /\ m = Len(t)
  OBVIOUS
<1>2. CASE n <= m
  <2>1. PICK u, v : u = SubSeq(s, 1, n) /\ v = SubSeq(t, 1, n)
    OBVIOUS
  <2>2. /\ u \in Seq(Part) /\ Len(u) = n /\ \A i \in 1..n : u[i] = s[i]
        /\ v \in Seq(Part) /\ Len(v) = n /\ \A i \in 1..n : v[i] = t[i]
    BY <1>1, <1>2, <2>1
  <2>3. u = v <=> \A i \in 1..n : s[i] = t[i]
    <3>1. ASSUME \A i \in 1..n : s[i] = t[i] PROVE u = v
      <4>1. \A i \in 1..n : u[i] = v[i]
        BY <2>2, <3>1
      <4> QED BY <2>2, <4>1, SeqEqual
    <3> QED BY <2>2, <3>1
  <2> QED BY <1>1, <1>2, <2>1, <2>3 DEF IsPrefix
<1>3. CASE ~(n <= m)
  BY <1>1, <1>3 DEF IsPrefix
<1> QED BY <1>2, <1>3

\* What joining two sequences makes.
LEMMA JoinFacts ==
  ASSUME NEW s \in Seq(Part), NEW t \in Seq(Part)
  PROVE  /\ s \o t \in Seq(Part) /\ Len(s \o t) = Len(s) + Len(t)
         /\ \A j \in 1..Len(s) : (s \o t)[j] = s[j]
         /\ \A j \in 1..Len(t) : (s \o t)[Len(s) + j] = t[j]
<1>1. PICK x : x = s \o t
  OBVIOUS
<1>2. PICK n \in Nat, m \in Nat : n = Len(s) /\ m = Len(t)
  OBVIOUS
<1>3. /\ x \in Seq(Part) /\ Len(x) = n + m
      /\ \A i \in 1..(n + m) : x[i] = IF i <= n THEN s[i] ELSE t[i - n]
  BY <1>1, <1>2, ConcatProperties
<1>4. ASSUME NEW j \in 1..n PROVE x[j] = s[j]
  BY <1>3
<1>5. ASSUME NEW j \in 1..m PROVE x[n + j] = t[j]
  <2>1. n + j \in 1..(n + m) /\ ~(n + j <= n) /\ (n + j) - n = j
    OBVIOUS
  <2> QED BY <1>3, <2>1
<1> QED BY <1>1, <1>2, <1>3, <1>4, <1>5

\* What the keys of an item are, part by part.
LEMMA OldFacts ==
  ASSUME NEW n \in Seq(Part), NEW i \in Seq(Part)
  PROVE  /\ OldKey(n, i) \in Seq(Part) /\ Len(OldKey(n, i)) = Len(n) + 1 + Len(i)
         /\ \A j \in 1..Len(n) : OldKey(n, i)[j] = n[j]
         /\ OldKey(n, i)[Len(n) + 1] = "-"
         /\ \A j \in 1..Len(i) : OldKey(n, i)[Len(n) + 1 + j] = i[j]
<1>0. "-" \in Part /\ "v2" \in Part
  BY PartFacts, Zenon
<1>1. PICK k : k = n \o <<"-">>
  OBVIOUS
<1>2. PICK l \in Nat, h \in Nat : l = Len(n) /\ h = Len(i)
  OBVIOUS
<1>3. /\ k \in Seq(Part) /\ Len(k) = l + 1 /\ k[l + 1] = "-"
      /\ \A j \in 1..l : k[j] = n[j]
  <2>1. PICK t : t = <<"-">>
    OBVIOUS
  <2>2. t \in Seq(Part) /\ Len(t) = 1 /\ t[1] = "-"
    BY <1>0, <2>1
  <2> QED BY <1>1, <1>2, <2>1, <2>2, JoinFacts
<1>4. PICK x : x = k \o i
  OBVIOUS
<1>5. /\ x \in Seq(Part) /\ Len(x) = l + 1 + h
      /\ \A j \in 1..(l + 1) : x[j] = k[j]
      /\ \A j \in 1..h : x[l + 1 + j] = i[j]
  <2>1. /\ x \in Seq(Part) /\ Len(x) = Len(k) + Len(i)
        /\ \A j \in 1..Len(k) : x[j] = k[j]
        /\ \A j \in 1..Len(i) : x[Len(k) + j] = i[j]
    BY <1>3, <1>4, JoinFacts, Zenon
  <2> QED BY <1>2, <1>3, <2>1, Zenon
<1>6. l + 1 \in 1..(l + 1) /\ \A j \in 1..l : j \in 1..(l + 1)
  OBVIOUS
<1>7. x[l + 1] = "-" /\ \A j \in 1..l : x[j] = n[j]
  BY <1>3, <1>5, <1>6
<1>8. x = OldKey(n, i)
  BY <1>1, <1>4 DEF OldKey
<1> QED BY <1>2, <1>5, <1>7, <1>8, Zenon

LEMMA NewFacts ==
  ASSUME NEW n \in Seq(Part), NEW i \in Seq(Part)
  PROVE  /\ NewKey(n, i) \in Seq(Part) /\ Len(NewKey(n, i)) = Len(n) + 3 + Len(i)
         /\ \A j \in 1..Len(n) : NewKey(n, i)[j] = n[j]
         /\ NewKey(n, i)[Len(n) + 1] = "-" /\ NewKey(n, i)[Len(n) + 2] = "v2"
         /\ \A j \in 1..Len(i) : NewKey(n, i)[Len(n) + 3 + j] = i[j]
<1>0. "-" \in Part /\ "v2" \in Part
  BY PartFacts, Zenon
<1>1. PICK k : k = n \o <<"-", "v2", "-">>
  OBVIOUS
<1>2. PICK l \in Nat, h \in Nat : l = Len(n) /\ h = Len(i)
  OBVIOUS
<1>3. /\ k \in Seq(Part) /\ Len(k) = l + 3 /\ k[l + 1] = "-" /\ k[l + 2] = "v2"
      /\ \A j \in 1..l : k[j] = n[j]
  <2>1. PICK t : t = <<"-", "v2", "-">>
    OBVIOUS
  <2>2. t \in Seq(Part) /\ Len(t) = 3 /\ t[1] = "-" /\ t[2] = "v2"
    BY <1>0, <2>1
  <2> QED BY <1>1, <1>2, <2>1, <2>2, JoinFacts
<1>4. PICK x : x = k \o i
  OBVIOUS
<1>5. /\ x \in Seq(Part) /\ Len(x) = l + 3 + h
      /\ \A j \in 1..(l + 3) : x[j] = k[j]
      /\ \A j \in 1..h : x[l + 3 + j] = i[j]
  <2>1. /\ x \in Seq(Part) /\ Len(x) = Len(k) + Len(i)
        /\ \A j \in 1..Len(k) : x[j] = k[j]
        /\ \A j \in 1..Len(i) : x[Len(k) + j] = i[j]
    BY <1>3, <1>4, JoinFacts, Zenon
  <2> QED BY <1>2, <1>3, <2>1, Zenon
<1>6. {l + 1, l + 2} \subseteq 1..(l + 3) /\ \A j \in 1..l : j \in 1..(l + 3)
  OBVIOUS
<1>7. x[l + 1] = "-" /\ x[l + 2] = "v2" /\ \A j \in 1..l : x[j] = n[j]
  BY <1>3, <1>5, <1>6
<1>8. x = NewKey(n, i)
  BY <1>1, <1>4 DEF NewKey
<1> QED BY <1>2, <1>5, <1>7, <1>8, Zenon

\* A key begins with one name only.
LEMMA OneName ==
  ASSUME OwnKeys, NEW n \in Name, NEW m \in Name, NEW k \in Seq(Part),
         IsPrefix(n, k), IsPrefix(m, k)
  PROVE  n = m
<1>1. n \in Seq(Part) /\ m \in Seq(Part)
  BY PartFacts
<1>2. /\ Len(n) <= Len(k) /\ \A j \in 1..Len(n) : n[j] = k[j]
      /\ Len(m) <= Len(k) /\ \A j \in 1..Len(m) : m[j] = k[j]
  BY <1>1, PrefixFacts
<1>3. ASSUME NEW a \in Seq(Part), NEW b \in Seq(Part), Len(a) <= Len(b),
             \A j \in 1..Len(a) : a[j] = k[j], \A j \in 1..Len(b) : b[j] = k[j]
      PROVE  IsPrefix(a, b)
  <2>1. PICK x \in Nat, y \in Nat : x = Len(a) /\ y = Len(b)
    OBVIOUS
  <2>2. \A j \in 1..x : a[j] = b[j]
    BY <1>3, <2>1
  <2> QED BY <1>3, <2>1, <2>2, PrefixFacts
<1>4. Len(n) <= Len(m) \/ Len(m) <= Len(n)
  BY <1>1
<1>5. IsPrefix(n, m) \/ IsPrefix(m, n)
  BY <1>1, <1>2, <1>3, <1>4, Zenon
<1> QED BY <1>5 DEF OwnKeys

\* What migrateAndSetupWatch makes of an old key, and of a new one.
LEMMA OldKeyFacts ==
  ASSUME OwnKeys, NEW n \in Name, NEW i \in Item
  PROVE  /\ OldKey(n, i) \in Seq(Part) /\ IsPrefix(n, OldKey(n, i))
         /\ ~IsPrefix(n \o <<"-", "v2">>, OldKey(n, i))
         /\ Sliced(n, OldKey(n, i)) = i
<1>1. n \in Seq(Part) /\ i \in Seq(Part)
  BY PartFacts
<1>2. PICK l \in Nat, h \in Nat, k \in {OldKey(n, i)} :
        l = Len(n) /\ h = Len(i) /\ k = OldKey(n, i)
  BY <1>1
<1>3. /\ k \in Seq(Part) /\ Len(k) = l + 1 + h
      /\ \A j \in 1..l : k[j] = n[j]
      /\ \A j \in 1..h : k[l + 1 + j] = i[j]
  BY <1>1, <1>2, OldFacts, Zenon
<1>4. IsPrefix(n, k)
  <2>1. l <= l + 1 + h
    OBVIOUS
  <2> QED BY <1>1, <1>2, <1>3, <2>1, PrefixFacts
<1>5. ~IsPrefix(n \o <<"-", "v2">>, k)
  <2>1. PICK t, x : t = <<"-", "v2">> /\ x = n \o t
    OBVIOUS
  <2>2. t \in Seq(Part) /\ Len(t) = 2 /\ t[2] = "v2"
    <3>1. "-" \in Part /\ "v2" \in Part
      BY PartFacts, Zenon
    <3> QED BY <2>1, <3>1
  <2>3. x \in Seq(Part) /\ Len(x) = l + 2 /\ x[l + 2] = "v2"
    BY <1>1, <1>2, <2>1, <2>2, JoinFacts
  <2>4. ASSUME IsPrefix(x, k) PROVE FALSE
    <3>1. l + 2 <= l + 1 + h /\ \A j \in 1..(l + 2) : x[j] = k[j]
      BY <1>3, <2>3, <2>4, PrefixFacts
    <3>2. h >= 1 /\ 1 \in 1..h /\ l + 2 \in 1..(l + 2) /\ l + 1 + 1 = l + 2
      BY <3>1
    <3>3. i[1] = "v2"
      BY <1>3, <2>3, <3>1, <3>2
    <3>4. i # << >>
      BY <1>2, <3>2
    <3> QED BY <3>3, <3>4, Zenon DEF OwnKeys
  <2> QED BY <2>1, <2>4
<1>6. Sliced(n, k) = i
  <2>1. PICK x : x = SubSeq(k, l + 2, l + 1 + h)
    OBVIOUS
  <2>2. \A j \in (l + 2)..(l + 1 + h) : k[j] \in Part
    <3>1. \A j \in (l + 2)..(l + 1 + h) : j \in 1..(l + 1 + h)
      OBVIOUS
    <3>2. DOMAIN k = 1..(l + 1 + h)
      BY <1>3
    <3> QED BY <1>3, <3>1, <3>2
  <2>3. l + 2 \in Int /\ l + 1 + h \in Int
    OBVIOUS
  <2>4. /\ x \in Seq(Part)
        /\ Len(x) = IF l + 2 <= l + 1 + h THEN (l + 1 + h) - (l + 2) + 1 ELSE 0
        /\ \A j \in 1..((l + 1 + h) - (l + 2) + 1) : x[j] = k[(l + 2) + j - 1]
    BY <2>1, <2>2, <2>3, SubSeqProperties
  <2>5. (l + 1 + h) - (l + 2) + 1 = h /\ \A j \in 1..h : (l + 2) + j - 1 = l + 1 + j
    OBVIOUS
  <2>6. Len(x) = h
    BY <2>4
  <2>7. \A j \in 1..h : x[j] = i[j]
    BY <1>3, <2>4, <2>5
  <2>8. x = i
    BY <1>1, <1>2, <2>4, <2>6, <2>7, SeqEqual
  <2> QED BY <1>2, <1>3, <2>1, <2>8 DEF Sliced
<1> QED BY <1>2, <1>3, <1>4, <1>5, <1>6

LEMMA NewKeyFacts ==
  ASSUME NEW n \in Name, NEW i \in Item
  PROVE  /\ NewKey(n, i) \in Seq(Part) /\ IsPrefix(n, NewKey(n, i))
         /\ IsPrefix(n \o <<"-", "v2">>, NewKey(n, i))
<1>1. n \in Seq(Part) /\ i \in Seq(Part)
  BY PartFacts
<1>2. PICK l \in Nat, h \in Nat, k \in {NewKey(n, i)} :
        l = Len(n) /\ h = Len(i) /\ k = NewKey(n, i)
  BY <1>1
<1>3. /\ k \in Seq(Part) /\ Len(k) = l + 3 + h
      /\ \A j \in 1..l : k[j] = n[j]
      /\ k[l + 1] = "-" /\ k[l + 2] = "v2"
  BY <1>1, <1>2, NewFacts, Zenon
<1>4. IsPrefix(n, k)
  <2>1. l <= l + 3 + h
    OBVIOUS
  <2> QED BY <1>1, <1>2, <1>3, <2>1, PrefixFacts
<1>5. IsPrefix(n \o <<"-", "v2">>, k)
  <2>1. PICK t, x : t = <<"-", "v2">> /\ x = n \o t
    OBVIOUS
  <2>2. t \in Seq(Part) /\ Len(t) = 2 /\ t[1] = "-" /\ t[2] = "v2"
    <3>1. "-" \in Part /\ "v2" \in Part
      BY PartFacts, Zenon
    <3> QED BY <2>1, <3>1
  <2>3. /\ x \in Seq(Part) /\ Len(x) = l + 2 /\ x[l + 1] = "-" /\ x[l + 2] = "v2"
        /\ \A j \in 1..l : x[j] = n[j]
    BY <1>1, <1>2, <2>1, <2>2, JoinFacts
  <2>4. \A j \in 1..(l + 2) : j \in 1..l \/ j = l + 1 \/ j = l + 2
    OBVIOUS
  <2>5. \A j \in 1..(l + 2) : x[j] = k[j]
    BY <1>3, <2>3, <2>4, Zenon
  <2>6. l + 2 <= l + 3 + h
    OBVIOUS
  <2> QED BY <1>3, <2>1, <2>3, <2>5, <2>6, PrefixFacts
<1> QED BY <1>2, <1>3, <1>4, <1>5

\* Two items have keys of their own, and an item's old key is not its new one.
LEMMA KeysDiffer ==
  ASSUME OwnKeys, NEW o \in OwnedItem, NEW q \in OwnedItem
  PROVE  /\ Old(o) = Old(q) => o = q
         /\ New(o) = New(q) => o = q
         /\ Old(o) # New(q)
<1>1. o[1] \in Name /\ o[2] \in Item /\ q[1] \in Name /\ q[2] \in Item
  BY DEF OwnedItem
<1>2. o = <<o[1], o[2]>> /\ q = <<q[1], q[2]>>
  BY DEF OwnedItem
<1>3. PICK n \in Name, i \in Item, m \in Name, j \in Item :
        n = o[1] /\ i = o[2] /\ m = q[1] /\ j = q[2]
  BY <1>1
<1>4. n \in Seq(Part) /\ i \in Seq(Part) /\ m \in Seq(Part) /\ j \in Seq(Part)
  BY PartFacts
<1>5. OldKey(n, i) = OldKey(m, j) => n = m /\ i = j
  <2> SUFFICES ASSUME OldKey(n, i) = OldKey(m, j) PROVE n = m /\ i = j
    OBVIOUS
  <2>1. n = m
    BY OldKeyFacts, OneName
  <2> QED BY <2>1, OldKeyFacts
<1>6. OldKey(n, i) # NewKey(m, j)
  <2> SUFFICES ASSUME OldKey(n, i) = NewKey(m, j) PROVE FALSE
    OBVIOUS
  <2>1. n = m
    BY OldKeyFacts, NewKeyFacts, OneName
  <2> QED BY <2>1, OldKeyFacts, NewKeyFacts
<1>7. NewKey(n, i) = NewKey(m, j) => n = m /\ i = j
  <2> SUFFICES ASSUME NewKey(n, i) = NewKey(m, j) PROVE n = m /\ i = j
    OBVIOUS
  <2>1. n = m
    BY NewKeyFacts, OneName
  <2>2. PICK l \in Nat, h \in Nat, g \in Nat, k \in {NewKey(n, i)} :
          l = Len(n) /\ h = Len(i) /\ g = Len(j) /\ k = NewKey(n, i)
    BY <1>4
  <2>3. /\ Len(k) = l + 3 + h /\ \A x \in 1..h : k[l + 3 + x] = i[x]
        /\ Len(k) = l + 3 + g /\ \A x \in 1..g : k[l + 3 + x] = j[x]
    <3>1. k = NewKey(n, j)
      BY <2>1, <2>2
    <3>2. Len(k) = l + 3 + h /\ \A x \in 1..h : k[l + 3 + x] = i[x]
      <4>1. /\ Len(NewKey(n, i)) = Len(n) + 3 + Len(i)
            /\ \A x \in 1..Len(i) : NewKey(n, i)[Len(n) + 3 + x] = i[x]
        BY <1>4, NewFacts, Zenon
      <4>2. l = Len(n) /\ h = Len(i) /\ k = NewKey(n, i)
        BY <2>2
      <4> QED BY <4>1, <4>2, Zenon
    <3>3. Len(k) = l + 3 + g /\ \A x \in 1..g : k[l + 3 + x] = j[x]
      <4>1. /\ Len(NewKey(n, j)) = Len(n) + 3 + Len(j)
            /\ \A x \in 1..Len(j) : NewKey(n, j)[Len(n) + 3 + x] = j[x]
        BY <1>4, NewFacts, Zenon
      <4>2. l = Len(n) /\ g = Len(j)
        BY <2>2
      <4> QED BY <3>1, <4>1, <4>2, Zenon
    <3> QED BY <3>2, <3>3
  <2>4. h = g
    BY <2>3
  <2>5. i = j
    BY <1>4, <2>2, <2>3, <2>4, SeqEqual
  <2> QED BY <2>1, <2>5
<1> QED BY <1>2, <1>3, <1>5, <1>6, <1>7, Zenon DEF Old, New

(***************************************************************************)
(* What a migration does to a resource.                                    *)
(***************************************************************************)

\* The items that resource s moves of d, those of its capabilities under their old keys,
\* and what becomes of one.
Held(s, d) == {o \in OwnedItem : o[1] \in NamesOf(s) /\ Old(o) \in DOMAIN d}
Move(o, d) == [remove |-> {Old(o)}, add |-> New(o), value |-> d[Old(o)]]
AllMoved(s, d) == Held(s, d) = {}

FoundIn(d, o) ==
  IF New(o) \in DOMAIN d THEN d[New(o)]
  ELSE IF Old(o) \in DOMAIN d THEN d[Old(o)] ELSE NoValue

\* The keys of d are keys of items, each under one of its two.
Sound(d) ==
  /\ DOMAIN d \subseteq Keys
  /\ \A o \in OwnedItem : Old(o) \notin DOMAIN d \/ New(o) \notin DOMAIN d

\* The migration of what has been read moves every item that is under its old key.
LEMMA MigrationMoves ==
  ASSUME OwnKeys, NEW s \in Store, NEW d, DOMAIN d \subseteq Keys
  PROVE  Migration(s, d) = {Move(o, d) : o \in Held(s, d)}
<1>0. NamesOf(s) \subseteq Name
  BY StartupAssumption DEF NamesOf
<1>1. ASSUME NEW n \in NamesOf(s), NEW k \in KeysToMove(n, d)
      PROVE  \E o \in Held(s, d) : k = Old(o) /\ n = o[1] /\ Sliced(n, k) = o[2]
  <2>1. k \in DOMAIN d /\ IsPrefix(n, k) /\ ~IsPrefix(n \o <<"-", "v2">>, k)
    BY DEF KeysToMove
  <2>2. PICK o \in OwnedItem : k = Old(o) \/ k = New(o)
    BY <2>1 DEF Keys
  <2>3. o[1] \in Name /\ o[2] \in Item
    BY DEF OwnedItem
  <2>4. n = o[1]
    <3>1. k \in Seq(Part) /\ IsPrefix(o[1], k)
      <4>1. CASE k = Old(o)
        BY <2>3, <4>1, OldKeyFacts, Zenon DEF Old
      <4>2. CASE k = New(o)
        BY <2>3, <4>2, NewKeyFacts, Zenon DEF New
      <4> QED BY <2>2, <4>1, <4>2
    <3>2. n \in Name
      BY <1>0
    <3> QED BY <2>1, <2>3, <3>1, <3>2, OneName, Zenon
  <2>5. k = Old(o)
    BY <2>1, <2>2, <2>3, <2>4, NewKeyFacts, Zenon DEF New
  <2>6. Sliced(n, k) = o[2]
    BY <2>3, <2>4, <2>5, OldKeyFacts, Zenon DEF Old
  <2> QED BY <2>1, <2>2, <2>4, <2>5, <2>6 DEF Held
<1>2. ASSUME NEW o \in Held(s, d)
      PROVE  /\ o[1] \in NamesOf(s) /\ Old(o) \in KeysToMove(o[1], d)
             /\ Sliced(o[1], Old(o)) = o[2]
  <2>1. o \in OwnedItem /\ o[1] \in NamesOf(s) /\ Old(o) \in DOMAIN d
    BY DEF Held
  <2>2. o[1] \in Name /\ o[2] \in Item
    BY <2>1 DEF OwnedItem
  <2>3. /\ IsPrefix(o[1], Old(o)) /\ ~IsPrefix(o[1] \o <<"-", "v2">>, Old(o))
        /\ Sliced(o[1], Old(o)) = o[2]
    BY <2>2, OldKeyFacts, Zenon DEF Old
  <2> QED BY <2>1, <2>2, <2>3 DEF KeysToMove
<1>3. ASSUME NEW m \in Migration(s, d) PROVE m \in {Move(o, d) : o \in Held(s, d)}
  <2>0. PICK n \in NamesOf(s) : \E k \in KeysToMove(n, d) :
          m = [remove |-> {OldKey(n, Sliced(n, k))}, add |-> NewKey(n, Sliced(n, k)),
               value |-> d[k]]
    BY Zenon DEF Migration
  <2>1. PICK k \in KeysToMove(n, d) :
          m = [remove |-> {OldKey(n, Sliced(n, k))}, add |-> NewKey(n, Sliced(n, k)),
               value |-> d[k]]
    BY <2>0
  <2>2. PICK o \in Held(s, d) : k = Old(o) /\ n = o[1] /\ Sliced(n, k) = o[2]
    BY <1>1
  <2>3. m = Move(o, d)
    BY <2>1, <2>2, Zenon DEF Move, Old, New
  <2> QED BY <2>3
<1>4. ASSUME NEW o \in Held(s, d) PROVE Move(o, d) \in Migration(s, d)
  <2>1. PICK n \in NamesOf(s), k \in DOMAIN d :
          /\ k \in KeysToMove(n, d)
          /\ n = o[1] /\ k = Old(o) /\ Sliced(n, k) = o[2]
    BY <1>2 DEF KeysToMove
  <2>2. Move(o, d) = [remove |-> {OldKey(n, Sliced(n, k))},
                      add |-> NewKey(n, Sliced(n, k)), value |-> d[k]]
    BY <2>1, Zenon DEF Move, Old, New
  <2>3. PICK f : f = [remove |-> {OldKey(n, Sliced(n, k))},
                      add |-> NewKey(n, Sliced(n, k)), value |-> d[k]]
    OBVIOUS
  <2>4. f \in {[remove |-> {OldKey(n, Sliced(n, x))}, add |-> NewKey(n, Sliced(n, x)),
                value |-> d[x]] : x \in KeysToMove(n, d)}
    BY <2>1, <2>3, Zenon
  <2>5. f \in UNION {{[remove |-> {OldKey(y, Sliced(y, x))}, add |-> NewKey(y, Sliced(y, x)),
                       value |-> d[x]] : x \in KeysToMove(y, d)} : y \in NamesOf(s)}
    BY <2>4
  <2>6. f \in Migration(s, d)
    BY <2>5, Zenon DEF Migration
  <2> QED BY <2>2, <2>3, <2>6
<1> QED BY <1>3, <1>4

\* What was read is what is there: every item keeps its value, under its new key.
LEMMA MovesAll ==
  ASSUME OwnKeys, NEW s \in Store, NEW d, Sound(d),
         NEW e, e = Moved(Migration(s, d), d)
  PROVE  /\ Sound(e) /\ AllMoved(s, e)
         /\ \A o \in OwnedItem : FoundIn(e, o) = FoundIn(d, o)
<1>1. Migration(s, d) = {Move(o, d) : o \in Held(s, d)}
  BY MigrationMoves DEF Sound
<1>2. PICK moves, gone, put :
        /\ moves = Migration(s, d)
        /\ gone = {Old(o) : o \in Held(s, d)} /\ put = {New(o) : o \in Held(s, d)}
  OBVIOUS
<1>3. \A o \in Held(s, d) :
        LET m == Move(o, d) IN m.remove = {Old(o)} /\ m.add = New(o) /\ m.value = d[Old(o)]
  BY DEF Move
<1>4. UNION {m.remove : m \in moves} = gone /\ {m.add : m \in moves} = put
  BY <1>1, <1>2, <1>3
<1>5. gone \subseteq DOMAIN d
  BY <1>2 DEF Held
<1>6. /\ DOMAIN e = (DOMAIN d \ gone) \cup put
      /\ \A k \in put : e[k] = (CHOOSE m \in moves : m.add = k).value
      /\ \A k \in DOMAIN d \ gone : k \notin put => e[k] = d[k]
  <2>1. e = Moved(moves, d)
    BY <1>2
  <2>2. UNION {m.remove : m \in moves} \subseteq DOMAIN d
    BY <1>4, <1>5, Zenon
  <2>3. e = [k \in (DOMAIN d \ UNION {m.remove : m \in moves}) \cup {m.add : m \in moves} |->
               IF k \in {m.add : m \in moves} THEN (CHOOSE m \in moves : m.add = k).value
                                             ELSE d[k]]
    BY <2>1, <2>2, Zenon DEF Moved
  <2>4. /\ DOMAIN e = (DOMAIN d \ UNION {m.remove : m \in moves}) \cup {m.add : m \in moves}
        /\ \A k \in {m.add : m \in moves} : e[k] = (CHOOSE m \in moves : m.add = k).value
        /\ \A k \in DOMAIN d \ UNION {m.remove : m \in moves} :
              k \notin {m.add : m \in moves} => e[k] = d[k]
    BY <2>3, Zenon
  <2> QED BY <1>4, <2>4, Zenon
<1>7. ASSUME NEW o \in Held(s, d)
      PROVE  (CHOOSE m \in moves : m.add = New(o)).value = d[Old(o)]
  <2>1. PICK x : x = Move(o, d) /\ x \in moves /\ x.add = New(o)
    BY <1>1, <1>2, <1>3
  <2>2. PICK c : c = CHOOSE m \in moves : m.add = New(o)
    OBVIOUS
  <2>3. c \in moves /\ c.add = New(o)
    BY <2>1, <2>2, Zenon
  <2>4. PICK q \in Held(s, d) : c = Move(q, d)
    BY <1>1, <1>2, <2>3
  <2>5. New(q) = New(o)
    BY <1>3, <2>3, <2>4
  <2>6. q = o
    BY <2>5, KeysDiffer DEF Held
  <2>7. c.value = d[Old(o)]
    BY <1>3, <2>4, <2>6
  <2> QED BY <2>2, <2>7
<1>8. DOMAIN e = (DOMAIN d \ gone) \cup put
  BY <1>6, Zenon
<1>9. ASSUME NEW o \in OwnedItem
      PROVE  /\ o \in Held(s, d) => /\ Old(o) \notin DOMAIN e
                                    /\ New(o) \in DOMAIN e /\ e[New(o)] = d[Old(o)]
             /\ o \notin Held(s, d) => /\ New(o) \in DOMAIN e <=> New(o) \in DOMAIN d
                                       /\ New(o) \in DOMAIN d => e[New(o)] = d[New(o)]
                                       /\ Old(o) \in DOMAIN e <=> Old(o) \in DOMAIN d
                                       /\ Old(o) \in DOMAIN d => e[Old(o)] = d[Old(o)]
  <2>1. Old(o) \notin put /\ New(o) \notin gone
    BY <1>2, KeysDiffer, Zenon DEF Held
  <2>2. New(o) \in put <=> o \in Held(s, d)
    <3>1. ASSUME New(o) \in put PROVE o \in Held(s, d)
      <4>1. PICK q \in Held(s, d) : New(o) = New(q)
        BY <1>2, <3>1
      <4> QED BY <4>1, KeysDiffer DEF Held
    <3> QED BY <1>2, <3>1
  <2>3. Old(o) \in gone <=> o \in Held(s, d)
    <3>1. ASSUME Old(o) \in gone PROVE o \in Held(s, d)
      <4>1. PICK q \in Held(s, d) : Old(o) = Old(q)
        BY <1>2, <3>1
      <4> QED BY <4>1, KeysDiffer DEF Held
    <3> QED BY <1>2, <3>1
  <2>6. o \notin Held(s, d) /\ Old(o) \in DOMAIN d => e[Old(o)] = d[Old(o)]
    BY <1>6, <2>1, <2>3, Zenon
  <2>4. o \in Held(s, d) => e[New(o)] = d[Old(o)]
    <3>1. ASSUME o \in Held(s, d) PROVE e[New(o)] = d[Old(o)]
      <4>1. New(o) \in put /\ New(o) \in (DOMAIN d \ gone) \cup put
        BY <2>2, <3>1
      <4>2. e[New(o)] = (CHOOSE m \in moves : m.add = New(o)).value
        BY <1>6, <4>1, Zenon
      <4> QED BY <1>7, <3>1, <4>2
    <3> QED BY <3>1
  <2>5. o \notin Held(s, d) /\ New(o) \in DOMAIN d => e[New(o)] = d[New(o)]
    BY <1>6, <2>1, <2>2, Zenon
  <2> QED BY <1>8, <2>1, <2>2, <2>3, <2>4, <2>5, <2>6
<1>10. DOMAIN e \subseteq Keys
  BY <1>2, <1>8 DEF Sound, Keys, Held
<1>11. Sound(e) /\ AllMoved(s, e)
  BY <1>9, <1>10 DEF Sound, AllMoved, Held
<1>12. ASSUME NEW o \in OwnedItem PROVE FoundIn(e, o) = FoundIn(d, o)
  <2>1. CASE o \in Held(s, d)
    BY <1>9, <2>1 DEF FoundIn, Sound, Held
  <2>2. CASE o \notin Held(s, d)
    BY <1>9, <2>2 DEF FoundIn, Held
  <2> QED BY <2>1, <2>2
<1> QED BY <1>11, <1>12

\* Everything is moved already: the patch is refused, or has nothing to do.
LEMMA MovesNothing ==
  ASSUME OwnKeys, NEW s \in Store, NEW d, AllMoved(s, d), NEW read, DOMAIN read \subseteq Keys,
         NEW e, e = Moved(Migration(s, read), d)
  PROVE  DOMAIN e = DOMAIN d /\ \A k \in DOMAIN d : e[k] = d[k]
<1>1. PICK moves : moves = Migration(s, read) /\ moves = {Move(o, read) : o \in Held(s, read)}
  BY MigrationMoves
<1>2. CASE Held(s, read) = {}
  <2>1. moves = {}
    BY <1>1, <1>2
  <2>2. UNION {m.remove : m \in moves} = {} /\ {m.add : m \in moves} = {}
    BY <2>1
  <2>3. e = [k \in DOMAIN d |-> d[k]]
    BY <1>1, <2>2 DEF Moved
  <2> QED BY <2>3
<1>3. ASSUME NEW o \in Held(s, read) PROVE e = d
  <2>1. Move(o, read) \in moves /\ Move(o, read).remove = {Old(o)}
    BY <1>1 DEF Move
  <2>2. Old(o) \in UNION {m.remove : m \in moves}
    BY <2>1
  <2>3. Old(o) \notin DOMAIN d
    BY DEF AllMoved, Held
  <2>4. ~(UNION {m.remove : m \in moves} \subseteq DOMAIN d)
    BY <2>2, <2>3
  <2> QED BY <1>1, <2>4, Zenon DEF Moved
<1> QED BY <1>2, <1>3

(***************************************************************************)
(* The resources and the pods that start on them.                          *)
(***************************************************************************)

\* Of the requests of a start, only the creation of a resource may fail: a migration
\* that fails is not made up for.
OnlyApplyFails == Failing \subseteq Store \X {"apply"}

StartTypes ==
  /\ StartupTypeOK
  /\ DOMAIN exists = Store /\ DOMAIN data = Store /\ DOMAIN copy = Controller

LEMMA StoreOf == ASSUME NEW c \in Controller PROVE c[2] \in Store
BY DEF Controller

LEMMA InitStartTypes == StartupInit => StartTypes
<1> SUFFICES ASSUME StartupInit PROVE StartTypes
  OBVIOUS
<1>1. PICK held \in [Store -> SUBSET OwnedItem], new \in SUBSET OwnedItem, v \in Value :
        /\ \A s \in Store : ~exists[s] => held[s] = {}
        /\ want = [s \in Store |->
             [o \in OwnedItem |-> IF o \in held[s] THEN v ELSE NoValue]]
        /\ data = [s \in Store |->
             [k \in {IF o \in new THEN New(o) ELSE Old(o) : o \in held[s]} |-> v]]
  BY Zenon DEF StartupInit, Old, New
<1>2. exists \in [Store -> BOOLEAN]
  BY DEF StartupInit
<1>3. want \in [Store -> [OwnedItem -> Value \cup {NoValue}]] /\ DOMAIN data = Store
  BY <1>1
<1>4. ASSUME NEW s \in Store, ~exists[s] PROVE data[s] = Empty
  BY <1>1, <1>4 DEF Empty
<1>5. /\ stage \in [Controller -> Stage] /\ \A c \in Controller : stage[c] = "start"
      /\ DOMAIN copy = Controller
  BY DEF StartupInit, Stage
<1>6. failures \in 0..MaxFailures /\ starts \in 0..MaxStarts /\ writes \in 0..MaxWrites
  BY StartupAssumption DEF StartupInit
<1> QED BY <1>2, <1>3, <1>4, <1>5, <1>6 DEF StartTypes, StartupTypeOK

\* A step of a start: it may read the resource or create it, or move its keys.
LEMMA ReachTypes ==
  ASSUME StartTypes, NEW c \in Controller, NEW there \in Stage, Reaches(c, there),
         there \in {"labelling", "migrating", "watching", "ready"} => exists'[c[2]],
         exists' = exists \/ exists' = [exists EXCEPT ![c[2]] = TRUE],
         data' = data \/ (exists[c[2]] /\ \E e : data' = [data EXCEPT ![c[2]] = e]),
         copy' = copy \/ \E e : copy' = [copy EXCEPT ![c] = e],
         failures' \in 0..MaxFailures, UNCHANGED <<want, starts, writes>>
  PROVE  StartTypes'
<1>1. PICK s \in Store : s = c[2]
  BY StoreOf
<1>2. /\ stage' \in [Controller -> Stage] /\ stage'[c] = there
      /\ \A b \in Controller : b # c => stage'[b] = stage[b]
  BY DEF Reaches, StartTypes, StartupTypeOK
<1>3. /\ DOMAIN exists' = Store /\ \A r \in Store : exists[r] => exists'[r]
      /\ \A r \in Store : exists'[r] \in BOOLEAN
  <2>1. CASE exists' = exists
    BY <2>1 DEF StartTypes, StartupTypeOK
  <2>2. CASE exists' = [exists EXCEPT ![c[2]] = TRUE]
    BY <1>1, <2>2 DEF StartTypes, StartupTypeOK
  <2> QED BY <2>1, <2>2
<1>4. DOMAIN data' = Store /\ \A r \in Store : ~exists'[r] => data'[r] = Empty
  <2>1. CASE data' = data
    BY <1>3, <2>1 DEF StartTypes, StartupTypeOK
  <2>2. ASSUME NEW e, exists[c[2]], data' = [data EXCEPT ![c[2]] = e]
        PROVE  DOMAIN data' = Store /\ \A r \in Store : ~exists'[r] => data'[r] = Empty
    <3>1. DOMAIN data' = Store /\ \A r \in Store : r # s => data'[r] = data[r]
      BY <1>1, <2>2 DEF StartTypes
    <3>2. exists'[s]
      BY <1>1, <1>3, <2>2
    <3> QED BY <1>3, <3>1, <3>2 DEF StartTypes, StartupTypeOK
  <2> QED BY <2>1, <2>2
<1>5. DOMAIN copy' = Controller
  BY DEF StartTypes
<1>6. ASSUME NEW b \in Controller,
             stage'[b] \in {"labelling", "migrating", "watching", "ready"}
      PROVE  exists'[b[2]]
  <2>1. CASE b = c
    BY <1>2, <1>6, <2>1
  <2>2. CASE b # c
    BY <1>2, <1>3, <1>6, <2>2, StoreOf DEF StartTypes, StartupTypeOK
  <2> QED BY <2>1, <2>2
<1> QED BY <1>2, <1>3, <1>4, <1>5, <1>6 DEF StartTypes, StartupTypeOK

LEMMA StepStartTypes ==
  ASSUME StartTypes, [StartupNext]_startupVars PROVE StartTypes'
<1>0. {MaxFailures, MaxStarts, MaxWrites} \subseteq Nat
  BY StartupAssumption
<1>f. ASSUME NEW c, NEW r, Fail(c, r) PROVE failures' \in 0..MaxFailures
  BY <1>0, <1>f DEF Fail, StartTypes, StartupTypeOK
<1>u. UNCHANGED failures => failures' \in 0..MaxFailures
  BY DEF StartTypes, StartupTypeOK
<1>1. ASSUME NEW c \in Controller, Get(c) PROVE StartTypes'
  <2>1. /\ UNCHANGED <<exists, data, want, starts, writes>> /\ failures' \in 0..MaxFailures
        /\ \/ exists[c[2]] /\ Reaches(c, "labelling")
           \/ Reaches(c, "creating")
        /\ copy' = copy \/ \E e : copy' = [copy EXCEPT ![c] = e]
    BY <1>1, <1>f, <1>u DEF Get
  <2> QED BY <2>1, ReachTypes DEF Stage
<1>2. ASSUME NEW c \in Controller, Label(c) PROVE StartTypes'
  <2>1. /\ UNCHANGED <<exists, data, copy, want, starts, writes>> /\ failures' \in 0..MaxFailures
        /\ exists[c[2]] /\ (Reaches(c, "migrating") \/ Reaches(c, "creating"))
    BY <1>2, <1>f, <1>u DEF Label, StartTypes, StartupTypeOK
  <2> QED BY <2>1, ReachTypes DEF Stage
<1>3. ASSUME NEW c \in Controller, Migrate(c) PROVE StartTypes'
  <2>1. /\ UNCHANGED <<exists, copy, want, starts, writes>> /\ failures' \in 0..MaxFailures
        /\ exists[c[2]] /\ Reaches(c, "watching")
        /\ data' = data \/ \E e : data' = [data EXCEPT ![c[2]] = e]
    BY <1>3, <1>f, <1>u DEF Migrate, StartTypes, StartupTypeOK
  <2> QED BY <2>1, ReachTypes DEF Stage
<1>4. ASSUME NEW c \in Controller, Create(c) PROVE StartTypes'
  <2>1. /\ UNCHANGED <<data, copy, want, starts, writes>> /\ failures' \in 0..MaxFailures
        /\ \/ exists' = [exists EXCEPT ![c[2]] = TRUE] /\ Reaches(c, "watching")
           \/ exists' = exists /\ Reaches(c, "stuck")
    BY <1>4, <1>f, <1>u DEF Create
  <2>2. exists' = [exists EXCEPT ![c[2]] = TRUE] => exists'[c[2]]
    BY StoreOf DEF StartTypes
  <2> QED BY <2>1, <2>2, ReachTypes DEF Stage
<1>5. ASSUME NEW c \in Controller, Deliver(c) PROVE StartTypes'
  <2>1. /\ UNCHANGED <<exists, data, copy, want, starts, writes>> /\ failures' \in 0..MaxFailures
        /\ exists[c[2]] /\ Reaches(c, "ready")
    BY <1>5, <1>u DEF Deliver, StartTypes, StartupTypeOK
  <2> QED BY <2>1, ReachTypes DEF Stage
<1>6. ASSUME NEW c \in Controller, NEW o \in OwnedItem, NEW e, NEW x \in Value \cup {NoValue},
             stage[c] = "ready", writes < MaxWrites, writes' = writes + 1,
             data' = [data EXCEPT ![c[2]] = e], want' = [want EXCEPT ![c[2]][o] = x],
             UNCHANGED <<exists, stage, copy, failures, starts>>
      PROVE  StartTypes'
  <2>1. PICK s \in Store : s = c[2] /\ exists[s]
    BY <1>6, StoreOf DEF StartTypes, StartupTypeOK
  <2>2. DOMAIN data' = Store /\ \A r \in Store : ~exists[r] => data'[r] = Empty
    BY <1>6, <2>1 DEF StartTypes, StartupTypeOK
  <2>3. want' \in [Store -> [OwnedItem -> Value \cup {NoValue}]]
    <3>1. PICK w : w = [want[s] EXCEPT ![o] = x]
      OBVIOUS
    <3>2. w \in [OwnedItem -> Value \cup {NoValue}]
      BY <3>1 DEF StartTypes, StartupTypeOK
    <3>3. want' = [want EXCEPT ![s] = w]
      BY <1>6, <2>1, <3>1, Zenon
    <3> QED BY <3>2, <3>3 DEF StartTypes, StartupTypeOK
  <2>4. writes' \in 0..MaxWrites
    BY <1>0, <1>6 DEF StartTypes, StartupTypeOK
  <2> QED BY <1>6, <2>2, <2>3, <2>4 DEF StartTypes, StartupTypeOK
<1>7. ASSUME NEW c \in Controller, NEW o \in OwnedItem, NEW v \in Value, Put(c, o, v)
      PROVE  StartTypes'
  BY <1>6, <1>7 DEF Put
<1>8. ASSUME NEW c \in Controller, NEW o \in OwnedItem, Drop(c, o) PROVE StartTypes'
  BY <1>6, <1>8 DEF Drop
<1>9. ASSUME NEW p \in Pod, StartOver(p), starts' \in 0..MaxStarts PROVE StartTypes'
  <2>1. /\ stage' \in [Controller -> Stage]
        /\ \A c \in Controller : stage'[c] = stage[c] \/ stage'[c] = "start"
    BY <1>9 DEF StartOver, StartTypes, StartupTypeOK, Stage
  <2>2. DOMAIN copy' = Controller /\ UNCHANGED <<exists, data, want, failures, writes>>
    BY <1>9 DEF StartOver
  <2> QED BY <1>9, <2>1, <2>2 DEF StartTypes, StartupTypeOK
<1>10. ASSUME NEW p \in Pod, RestartPod(p) \/ ProbeFails(p) PROVE StartTypes'
  <2>1. StartOver(p) /\ starts' \in 0..MaxStarts
    BY <1>0, <1>10 DEF RestartPod, ProbeFails, StartTypes, StartupTypeOK
  <2> QED BY <1>9, <2>1
<1>11. CASE UNCHANGED startupVars
  BY <1>11 DEF startupVars, StartTypes, StartupTypeOK
<1> QED BY <1>1, <1>2, <1>3, <1>4, <1>5, <1>7, <1>8, <1>10, <1>11 DEF StartupNext

\* The items of a resource are what was made of them last.
Items(s) == Sound(data[s]) /\ \A o \in OwnedItem : FoundIn(data[s], o) = want[s][o]

\* Until a controller has got past the migration it holds what the resource still is,
\* unless another's migration has moved every item since; from then on, none is left
\* to move.
Migrating(c) ==
  /\ stage[c] \in {"labelling", "migrating"} =>
       DOMAIN copy[c] \subseteq Keys /\ (copy[c] = data[c[2]] \/ AllMoved(c[2], data[c[2]]))
  /\ stage[c] \notin {"start", "labelling", "migrating"} => AllMoved(c[2], data[c[2]])

StartInv ==
  /\ StartTypes
  /\ \A s \in Store : Items(s)
  /\ \A c \in Controller : Migrating(c)

LEMMA InitStartInv ==
  ASSUME OwnKeys PROVE StartupInit => StartInv
<1> SUFFICES ASSUME StartupInit PROVE StartInv
  OBVIOUS
<1>1. PICK held \in [Store -> SUBSET OwnedItem], new \in SUBSET OwnedItem, v \in Value :
        /\ want = [s \in Store |->
             [o \in OwnedItem |-> IF o \in held[s] THEN v ELSE NoValue]]
        /\ data = [s \in Store |->
             [k \in {IF o \in new THEN New(o) ELSE Old(o) : o \in held[s]} |-> v]]
  BY Zenon DEF StartupInit, Old, New
<1>2. ASSUME NEW s \in Store PROVE Items(s)
  <2>1. PICK d, h : d = data[s] /\ h = held[s] /\ h \subseteq OwnedItem
    OBVIOUS
  <2>2. d = [k \in {IF o \in new THEN New(o) ELSE Old(o) : o \in h} |-> v]
    BY <1>1, <2>1
  <2>3. /\ DOMAIN d = {IF o \in new THEN New(o) ELSE Old(o) : o \in h}
        /\ \A k \in DOMAIN d : d[k] = v
    BY <2>2
  <2>4. ASSUME NEW o \in OwnedItem
        PROVE  /\ New(o) \in DOMAIN d <=> o \in h /\ o \in new
               /\ Old(o) \in DOMAIN d <=> o \in h /\ o \notin new
    <3>1. ASSUME NEW q \in h, (IF q \in new THEN New(q) ELSE Old(q)) = New(o)
          PROVE  q = o /\ q \in new
      BY <2>1, <3>1, KeysDiffer
    <3>2. ASSUME NEW q \in h, (IF q \in new THEN New(q) ELSE Old(q)) = Old(o)
          PROVE  q = o /\ q \notin new
      BY <2>1, <3>2, KeysDiffer
    <3>3. o \in h => (IF o \in new THEN New(o) ELSE Old(o)) \in DOMAIN d
      BY <2>3
    <3>4. New(o) \in DOMAIN d => o \in h /\ o \in new
      BY <2>3, <3>1
    <3>5. Old(o) \in DOMAIN d => o \in h /\ o \notin new
      BY <2>3, <3>2
    <3> QED BY <3>3, <3>4, <3>5
  <2>5. DOMAIN d \subseteq Keys
    BY <2>1, <2>3 DEF Keys
  <2>6. Sound(d)
    BY <2>4, <2>5 DEF Sound
  <2>7. ASSUME NEW o \in OwnedItem PROVE FoundIn(d, o) = want[s][o]
    <3>1. want[s][o] = IF o \in h THEN v ELSE NoValue
      BY <1>1, <2>1
    <3> QED BY <2>3, <2>4, <3>1 DEF FoundIn
  <2> QED BY <2>1, <2>6, <2>7 DEF Items
<1>3. \A c \in Controller : Migrating(c)
  BY DEF StartupInit, Migrating
<1> QED BY <1>2, <1>3, InitStartTypes DEF StartInv

\* A step that changes no resource, nor what is wanted.
LEMMA ItemsStay ==
  ASSUME StartInv, UNCHANGED <<data, want>> PROVE \A s \in Store : Items(s)'
BY DEF StartInv, Items

\* Controller c gets past another stage of its start.
LEMMA ReachKeeps ==
  ASSUME StartInv, StartTypes', UNCHANGED <<data, want>>,
         NEW c \in Controller, NEW there, Reaches(c, there), NEW read,
         copy' = [copy EXCEPT ![c] = read] \/ (copy' = copy /\ read = copy[c]),
         there \in {"labelling", "migrating"} =>
           DOMAIN read \subseteq Keys /\ (read = data[c[2]] \/ AllMoved(c[2], data[c[2]])),
         there \notin {"labelling", "migrating"} => AllMoved(c[2], data[c[2]])
  PROVE  StartInv'
<1>1. /\ stage'[c] = there /\ \A b \in Controller : b # c => stage'[b] = stage[b]
      /\ copy'[c] = read /\ \A b \in Controller : b # c => copy'[b] = copy[b]
  BY DEF Reaches, StartInv, StartTypes, StartupTypeOK
<1>2. ASSUME NEW b \in Controller PROVE Migrating(b)'
  <2>1. CASE b = c
    BY <1>1, <2>1 DEF Migrating
  <2>2. CASE b # c
    BY <1>1, <2>2 DEF StartInv, Migrating
  <2> QED BY <2>1, <2>2
<1> QED BY <1>2, ItemsStay DEF StartInv

\* Resource s becomes e, in which nothing is under its old key.
LEMMA ResourceKeeps ==
  ASSUME StartInv, StartTypes', NEW s \in Store, NEW e, Sound(e), AllMoved(s, e),
         data' = [data EXCEPT ![s] = e], UNCHANGED copy,
         \A o \in OwnedItem : FoundIn(e, o) = want'[s][o],
         \A r \in Store : r # s => want'[r] = want[r],
         \A c \in Controller :
           stage'[c] = stage[c] \/ (c[2] = s /\ stage'[c] = "watching")
  PROVE  StartInv'
<1>1. data'[s] = e /\ \A r \in Store : r # s => data'[r] = data[r]
  BY DEF StartInv, StartTypes
<1>2. ASSUME NEW r \in Store PROVE Items(r)'
  <2>1. CASE r = s
    BY <1>1, <2>1 DEF Items
  <2>2. CASE r # s
    BY <1>1, <2>2 DEF StartInv, Items
  <2> QED BY <2>1, <2>2
<1>3. ASSUME NEW c \in Controller PROVE Migrating(c)'
  <2>1. c[2] \in Store /\ Migrating(c)
    BY StoreOf DEF StartInv
  <2>2. CASE c[2] = s
    BY <1>1, <2>1, <2>2 DEF Migrating
  <2>3. CASE c[2] # s
    BY <1>1, <2>1, <2>3 DEF Migrating
  <2> QED BY <2>2, <2>3
<1> QED BY <1>2, <1>3 DEF StartInv

\* The patch of the migration moves everything, or there is nothing left to move.
LEMMA MigrateKeeps ==
  ASSUME OwnKeys, OnlyApplyFails, StartInv, StartTypes',
         NEW c \in Controller, Migrate(c)
  PROVE  StartInv'
<1>1. PICK s \in Store : s = c[2]
  BY StoreOf
<1>2. PICK d, read, e : d = data[s] /\ read = copy[c] /\ e = Moved(Migration(s, read), d)
  OBVIOUS
<1>3. ~Fail(c, "migrate")
  BY DEF Fail, OnlyApplyFails
<1>4. /\ data' = [data EXCEPT ![s] = e] /\ Reaches(c, "watching") /\ UNCHANGED <<copy, want>>
      /\ stage[c] = "migrating"
  <2>1. data' = [data EXCEPT ![c[2]] = Moved(Migration(c[2], copy[c]), data[c[2]])]
    BY <1>3 DEF Migrate
  <2> QED BY <1>1, <1>2, <2>1, Zenon DEF Migrate
<1>5. /\ Sound(d) /\ DOMAIN read \subseteq Keys /\ (read = d \/ AllMoved(s, d))
      /\ \A o \in OwnedItem : FoundIn(d, o) = want[s][o]
  BY <1>1, <1>2, <1>4 DEF StartInv, Items, Migrating
<1>6. Sound(e) /\ AllMoved(s, e) /\ \A o \in OwnedItem : FoundIn(e, o) = FoundIn(d, o)
  <2>1. CASE read = d
    <3>1. Sound(d) /\ s \in Store /\ e = Moved(Migration(s, d), d)
      BY <1>1, <1>2, <1>5, <2>1
    <3> QED BY <3>1, MovesAll, Zenon
  <2>2. CASE AllMoved(s, d)
    <3>0. e = Moved(Migration(s, read), d) /\ DOMAIN read \subseteq Keys /\ s \in Store
      BY <1>1, <1>2, <1>5
    <3>1. DOMAIN e = DOMAIN d /\ \A k \in DOMAIN d : e[k] = d[k]
      BY <2>2, <3>0, MovesNothing
    <3>2. Sound(e) /\ AllMoved(s, e)
      BY <1>5, <2>2, <3>1 DEF Sound, AllMoved, Held
    <3>3. \A o \in OwnedItem : FoundIn(e, o) = FoundIn(d, o)
      BY <3>1 DEF FoundIn
    <3> QED BY <3>2, <3>3
  <2> QED BY <1>5, <2>1, <2>2
<1>7. \A b \in Controller : stage'[b] = stage[b] \/ (b[2] = s /\ stage'[b] = "watching")
  BY <1>1, <1>4 DEF Reaches, StartInv, StartTypes, StartupTypeOK
<1> QED BY <1>4, <1>5, <1>6, <1>7, ResourceKeeps

\* A write of a capability that is ready.
LEMMA PutKeeps ==
  ASSUME OwnKeys, StartInv, StartTypes', NEW c \in Controller,
         NEW o \in OwnedItem, NEW v \in Value, Put(c, o, v)
  PROVE  StartInv'
<1>0. PICK s \in Store : s = c[2]
  BY StoreOf
<1>1. PICK d, e : /\ s = c[2] /\ d = data[s]
                  /\ e = [k \in DOMAIN d \cup {New(o)} |-> IF k = New(o) THEN v ELSE d[k]]
  BY <1>0
<1>2. /\ data' = [data EXCEPT ![s] = e] /\ want' = [want EXCEPT ![s][o] = v]
      /\ UNCHANGED <<stage, copy>>
  BY <1>1, Zenon DEF Put, New
<1>3. /\ AllMoved(s, d) /\ Sound(d) /\ \A q \in OwnedItem : FoundIn(d, q) = want[s][q]
      /\ Old(o) \notin DOMAIN d
  BY <1>1 DEF Put, StartInv, Items, Migrating, AllMoved, Held
<1>4. /\ DOMAIN e = DOMAIN d \cup {New(o)} /\ e[New(o)] = v
      /\ \A k \in DOMAIN d : k # New(o) => e[k] = d[k]
  BY <1>1
<1>5. \A q \in OwnedItem : Old(q) # New(o) /\ (q # o => New(q) # New(o))
  BY KeysDiffer
<1>6. Sound(e) /\ AllMoved(s, e)
  BY <1>3, <1>4, <1>5 DEF Sound, AllMoved, Held, Keys
<1>7. /\ want'[s][o] = v /\ \A q \in OwnedItem : q # o => want'[s][q] = want[s][q]
      /\ \A r \in Store : r # s => want'[r] = want[r]
  BY <1>2 DEF StartInv, StartTypes, StartupTypeOK
<1>8. ASSUME NEW q \in OwnedItem PROVE FoundIn(e, q) = want'[s][q]
  <2>1. CASE q = o
    BY <1>4, <1>7, <2>1 DEF FoundIn
  <2>2. CASE q # o
    <3>1. FoundIn(e, q) = FoundIn(d, q)
      BY <1>4, <1>5, <2>2 DEF FoundIn
    <3> QED BY <1>3, <1>7, <2>2, <3>1
  <2> QED BY <2>1, <2>2
<1> QED BY <1>2, <1>6, <1>7, <1>8, ResourceKeeps

LEMMA DropKeeps ==
  ASSUME OwnKeys, StartInv, StartTypes', NEW c \in Controller,
         NEW o \in OwnedItem, Drop(c, o)
  PROVE  StartInv'
<1>0. PICK s \in Store : s = c[2]
  BY StoreOf
<1>1. PICK d, e : /\ s = c[2] /\ d = data[s]
                  /\ e = [k \in DOMAIN d \ {New(o)} |-> d[k]]
  BY <1>0
<1>2. /\ data' = [data EXCEPT ![s] = e] /\ want' = [want EXCEPT ![s][o] = NoValue]
      /\ UNCHANGED <<stage, copy>>
  BY <1>1, Zenon DEF Drop, New
<1>3. /\ AllMoved(s, d) /\ Sound(d) /\ \A q \in OwnedItem : FoundIn(d, q) = want[s][q]
      /\ Old(o) \notin DOMAIN d
  BY <1>1 DEF Drop, StartInv, Items, Migrating, AllMoved, Held
<1>4. DOMAIN e = DOMAIN d \ {New(o)} /\ \A k \in DOMAIN d : k # New(o) => e[k] = d[k]
  BY <1>1
<1>5. \A q \in OwnedItem : Old(q) # New(o) /\ (q # o => New(q) # New(o))
  BY KeysDiffer
<1>6. Sound(e) /\ AllMoved(s, e)
  BY <1>3, <1>4, <1>5 DEF Sound, AllMoved, Held, Keys
<1>7. /\ want'[s][o] = NoValue /\ \A q \in OwnedItem : q # o => want'[s][q] = want[s][q]
      /\ \A r \in Store : r # s => want'[r] = want[r]
  BY <1>2 DEF StartInv, StartTypes, StartupTypeOK
<1>8. ASSUME NEW q \in OwnedItem PROVE FoundIn(e, q) = want'[s][q]
  <2>1. CASE q = o
    BY <1>3, <1>4, <1>7, <2>1 DEF FoundIn
  <2>2. CASE q # o
    <3>1. FoundIn(e, q) = FoundIn(d, q)
      BY <1>4, <1>5, <2>2 DEF FoundIn
    <3> QED BY <1>3, <1>7, <2>2, <3>1
  <2> QED BY <2>1, <2>2
<1> QED BY <1>2, <1>6, <1>7, <1>8, ResourceKeeps

LEMMA StepStartInv ==
  ASSUME OwnKeys, OnlyApplyFails, StartInv, [StartupNext]_startupVars
  PROVE  StartInv'
<1>0. StartTypes'
  BY StepStartTypes DEF StartInv
<1>f. ASSUME NEW c, NEW r \in {"get", "label", "migrate"}, Fail(c, r) PROVE FALSE
  BY <1>f DEF Fail, OnlyApplyFails
<1>1. ASSUME NEW c \in Controller, Get(c) PROVE StartInv'
  <2>1. c[2] \in Store /\ stage[c] = "start" /\ UNCHANGED <<exists, data, want>>
    BY <1>1, StoreOf DEF Get
  <2>2. CASE exists[c[2]] /\ copy' = [copy EXCEPT ![c] = data[c[2]]] /\ Reaches(c, "labelling")
    <3>1. DOMAIN data[c[2]] \subseteq Keys
      BY <2>1 DEF StartInv, Items, Sound
    <3> QED BY <1>0, <2>1, <2>2, <3>1, ReachKeeps
  <2>3. CASE ~exists[c[2]] /\ Reaches(c, "creating") /\ UNCHANGED copy
    <3>1. data[c[2]] = Empty
      BY <2>1, <2>3 DEF StartInv, StartTypes, StartupTypeOK
    <3>2. AllMoved(c[2], data[c[2]])
      BY <3>1 DEF AllMoved, Held, Empty
    <3> QED BY <1>0, <2>1, <2>3, <3>2, ReachKeeps
  <2> QED BY <1>1, <1>f, <2>2, <2>3 DEF Get
<1>2. ASSUME NEW c \in Controller, Label(c) PROVE StartInv'
  <2>1. /\ Reaches(c, "migrating") /\ UNCHANGED <<data, copy, want>>
        /\ DOMAIN copy[c] \subseteq Keys /\ (copy[c] = data[c[2]] \/ AllMoved(c[2], data[c[2]]))
    BY <1>2, <1>f DEF Label, StartInv, Migrating
  <2> QED BY <1>0, <2>1, ReachKeeps
<1>3. ASSUME NEW c \in Controller, Create(c) \/ Deliver(c) PROVE StartInv'
  <2>1. UNCHANGED <<data, copy, want>> /\ AllMoved(c[2], data[c[2]])
    BY <1>3 DEF Create, Deliver, StartInv, Migrating
  <2>2. PICK there \in {"watching", "stuck", "ready"} : Reaches(c, there)
    BY <1>3 DEF Create, Deliver
  <2> QED BY <1>0, <2>1, <2>2, ReachKeeps
<1>4. ASSUME NEW p \in Pod, RestartPod(p) \/ ProbeFails(p) PROVE StartInv'
  <2>1. StartOver(p)
    BY <1>4 DEF RestartPod, ProbeFails
  <2>2. ASSUME NEW c \in Controller PROVE Migrating(c)'
    <3>1. \/ stage'[c] = "start"
          \/ stage'[c] = stage[c] /\ copy'[c] = copy[c]
      BY <2>1 DEF StartOver
    <3>2. UNCHANGED data
      BY <2>1 DEF StartOver
    <3> QED BY <3>1, <3>2 DEF StartInv, Migrating
  <2>3. UNCHANGED <<data, want>>
    BY <2>1 DEF StartOver
  <2> QED BY <1>0, <2>2, <2>3, ItemsStay DEF StartInv
<1>5. CASE UNCHANGED startupVars
  <2>1. \A c \in Controller : Migrating(c)'
    BY <1>5 DEF startupVars, StartInv, Migrating
  <2>2. UNCHANGED <<data, want>>
    BY <1>5 DEF startupVars
  <2> QED BY <1>0, <2>1, <2>2, ItemsStay DEF StartInv
<1> QED BY <1>0, <1>1, <1>2, <1>3, <1>4, <1>5, MigrateKeeps, PutKeeps, DropKeeps DEF StartupNext

\* Resources, stages and counters keep their types, whatever fails and whatever names
\* capabilities and items have: a resource is there once a controller has read it or
\* watches it, and what is not there holds nothing.
THEOREM StartTypeCorrect == StartupSpec => []StartupTypeOK
<1>1. StartTypes /\ [StartupNext]_startupVars => StartTypes'
  BY StepStartTypes
<1>2. StartTypes => StartupTypeOK
  BY DEF StartTypes
<1> QED BY InitStartTypes, <1>1, <1>2, PTL DEF StartupSpec

LEMMA Starting ==
  ASSUME OwnKeys, OnlyApplyFails PROVE StartupSpec => []StartInv
<1>1. StartInv /\ [StartupNext]_startupVars => StartInv'
  BY StepStartInv
<1> QED BY InitStartInv, <1>1, PTL DEF StartupSpec

\* No migration loses an item, brings one back or sets one back, however many pods
\* start, start over and write between its steps.
THEOREM ItemsAreKept ==
  ASSUME OwnKeys, OnlyApplyFails PROVE StartupSpec => []Kept
<1>1. StartInv => Kept
  BY DEF StartInv, Items, FoundIn, Old, New, Kept, Found
<1> QED BY <1>1, Starting, PTL

\* A pod is ready only when every item of its capabilities can be read under its new key.
THEOREM ReadyPodsHaveAll ==
  ASSUME OwnKeys, OnlyApplyFails PROVE StartupSpec => []ReadyHasAll
<1>1. StartInv => ReadyHasAll
  <2> SUFFICES ASSUME StartInv, NEW c \in Controller, stage[c] = "ready",
                      NEW o \in NamesOf(c[2]) \X Item, want[c[2]][o] # NoValue
               PROVE  New(o) \in DOMAIN data[c[2]]
    BY Zenon DEF ReadyHasAll, New
  <2>2. o \in OwnedItem /\ o[1] \in NamesOf(c[2])
    BY StartupAssumption DEF NamesOf, OwnedItem
  <2>1. /\ c[2] \in Store /\ Old(o) \notin DOMAIN data[c[2]]
        /\ FoundIn(data[c[2]], o) = want[c[2]][o]
    BY <2>2, StoreOf DEF StartInv, Items, Migrating, AllMoved, Held
  <2> QED BY <2>1 DEF FoundIn
<1> QED BY <1>1, Starting, PTL
=============================================================================
