------------------------ MODULE SamsungControlProofs ------------------------
(***************************************************************************)
(* What the operations of SamsungControl do to the TV, for any number of   *)
(* tasks, any settings and any volume: their types, whatever the viewer    *)
(* does; a power-off, as long as he does not switch the TV off by himself; *)
(* a ramp, as long as he leaves the volume and the settings alone.         *)
(***************************************************************************)
EXTENDS SamsungControl, FiniteSetTheorems, TLAPS

-----------------------------------------------------------------------------
(* Arithmetic.                                                             *)

\* Integer division rounds down.
LEMMA Quotient ==
  ASSUME NEW a \in Nat, NEW c \in Nat, c > 0
  PROVE  /\ a \div c \in Nat
         /\ c * (a \div c) <= a /\ a < c * (a \div c) + c
OBVIOUS

\* A product grows with its factor.
LEMMA ProductGrows ==
  ASSUME NEW a \in Nat, NEW b \in Nat, NEW c \in Nat, a <= b
  PROVE  a * c <= b * c
<1>1. PICK d \in Nat : b = a + d
  <2>1. b - a \in Nat /\ b = a + (b - a)
    OBVIOUS
  <2>2. QED
    BY <2>1
<1>2. b * c = a * c + d * c /\ d * c \in Nat /\ a * c \in Nat
  BY <1>1
<1>3. QED
  BY <1>2

\* What is less than m + 1 times the divisor has at most m for a quotient.
LEMMA QuotientBelow ==
  ASSUME NEW a \in Nat, NEW c \in Nat, c > 0, NEW m \in Nat, a < c * m + c
  PROVE  a \div c <= m
<1>1. a \div c \in Nat /\ c * (a \div c) <= a
  BY Quotient
<1> DEFINE q == a \div c
<1>2. SUFFICES ASSUME m + 1 <= q PROVE FALSE
  BY <1>1
<1>3. (m + 1) * c <= q * c
  BY <1>1, <1>2, ProductGrows
<1>4. (m + 1) * c = c * m + c /\ q * c = c * q
  BY <1>1
<1>5. QED
  BY <1>1, <1>3, <1>4

\* A quotient grows with the dividend.
LEMMA QuotientGrows ==
  ASSUME NEW a \in Nat, NEW b \in Nat, a <= b, NEW c \in Nat, c > 0
  PROVE  a \div c <= b \div c
<1>1. b \div c \in Nat /\ b < c * (b \div c) + c
  BY Quotient
<1>2. a < c * (b \div c) + c
  BY <1>1
<1>3. QED
  BY <1>1, <1>2, QuotientBelow

\* The quotient of a multiple.
LEMMA QuotientExact ==
  ASSUME NEW m \in Nat, NEW c \in Nat, c > 0
  PROVE  (m * c) \div c = m
<1>1. m * c \in Nat /\ m * c = c * m
  OBVIOUS
<1>2. (m * c) \div c <= m
  BY <1>1, QuotientBelow
<1> DEFINE q == (m * c) \div c
<1>3. q \in Nat /\ m * c < c * q + c
  BY <1>1, Quotient
<1>4. SUFFICES ASSUME q + 1 <= m PROVE FALSE
  BY <1>2, <1>3
<1>5. (q + 1) * c <= m * c
  BY <1>3, <1>4, ProductGrows
<1>6. (q + 1) * c = c * q + c
  BY <1>3
<1>7. QED
  BY <1>1, <1>3, <1>5, <1>6

-----------------------------------------------------------------------------
(* Types, and what each task may do.                                       *)

Operations == [op : {"none", "step", "off"},
               at : {"idle", "new", "wait", "step", "set", "press", "query", "key"},
               step : Nat, total : Totals \cup {0}, presses : Nat]

Working == {"step", "set", "press", "query", "key"}

\* A task that works on the TV has the mutex, and only a power-off asks for the
\* power state and sends the key.
LockFits ==
  \A t \in Tasks :
    /\ task[t].at \in Working => lock = t
    /\ task[t].at \in {"step", "set", "press"} => task[t].op = "step"
    /\ task[t].at \in {"query", "key"} => task[t].op = "off"
    /\ task[t].at = "idle" <=> task[t].op = "none"

\* A step that has begun is one of the total, and it sets the volume only if the
\* volume at the start of the ramp was read; nobody else reads it until it has.
StepFits ==
  \A t \in Tasks :
    /\ task[t].op = "step" => task[t].step >= 1
    /\ task[t].at \in {"set", "press"} => task[t].step <= task[t].total
    /\ task[t].at = "set" => startVolume # Unread

ControlInv == TypeOK /\ LockFits /\ StepFits

USE SamsungControlAssumption DEF tv, settings, scheduler, Idle, At, GoTo, Return

\* The presses of a step are never negative.
LEMMA PressesType ==
  ASSUME NEW step \in Nat, step >= 1, NEW of \in Nat, of > 0, typical \in Nat
  PROVE  Presses(step, of) \in Nat
<1>1. typical * step \in Nat /\ typical * (step - 1) \in Nat
  OBVIOUS
<1>2. typical * (step - 1) <= typical * step
  <2>1. typical * step = typical * (step - 1) + typical
    OBVIOUS
  <2>2. QED
    BY <1>1, <2>1
<1>3. /\ (typical * step) \div of \in Nat /\ (typical * (step - 1)) \div of \in Nat
      /\ (typical * (step - 1)) \div of <= (typical * step) \div of
  BY <1>1, <1>2, Quotient, QuotientGrows
<1>4. QED
  BY <1>3 DEF Presses

\* The volume that a step sets is one of the TV's.
LEMMA TargetType ==
  ASSUME NEW start \in 0 .. MaxVolume, NEW of \in Nat, of > 0, NEW step \in 1 .. of
  PROVE  (start * (of - step)) \div of \in 0 .. start
<1>1. start * (of - step) \in Nat /\ of * start \in Nat
  OBVIOUS
<1>2. (of - step) * start <= of * start
  BY ProductGrows
<1>3. (of - step) * start = start * (of - step)
  OBVIOUS
<1>4. start * (of - step) < of * start + of
  BY <1>1, <1>2, <1>3
<1>5. QED
  BY <1>1, <1>4, Quotient, QuotientBelow

\* At boot no task works on the TV.
LEMMA ControlInit == Init => ControlInv
<1> SUFFICES ASSUME Init
             PROVE  ControlInv
  OBVIOUS
<1>1. Idle \in Operations
  BY DEF Operations
<1>2. TypeOK
  BY <1>1 DEF Init, TypeOK, Operations
<1>3. LockFits /\ StepFits
  BY DEF Init, LockFits, StepFits, Working
<1>4. QED
  BY <1>2, <1>3 DEF ControlInv

\* The types of what a task keeps.
LEMMA TaskTypes ==
  ASSUME ControlInv, NEW t \in Tasks
  PROVE  /\ task[t] \in Operations
         /\ task[t].step \in Nat /\ task[t].total \in Nat /\ task[t].presses \in Nat
<1>1. task[t] \in Operations
  BY DEF ControlInv, TypeOK, Operations
<1>2. task[t].step \in Nat /\ task[t].presses \in Nat /\ task[t].total \in Totals \cup {0}
  BY <1>1 DEF Operations
<1>3. ASSUME NEW x \in Totals \cup {0}
      PROVE  x \in Nat
  OBVIOUS
<1>4. QED
  BY <1>1, <1>2, <1>3, Zenon

\* The scheduler creates a task for a volume step.
LEMMA IssueStepInv ==
  ASSUME ControlInv, NEW t \in Tasks, IssueStep(t)
  PROVE  ControlInv'
<1> DEFINE next == [task[t] EXCEPT !.op = "step", !.at = "new", !.step = issued + 1]
<1>1. task' = [task EXCEPT ![t] = next] /\ task[t] \in Operations
  BY DEF ControlInv, TypeOK, Operations, IssueStep
<1>2. next \in Operations
  <2>1. issued + 1 \in Nat
    BY DEF ControlInv, TypeOK
  <2>2. QED
    BY <1>1, <2>1 DEF Operations
<1>3. TypeOK'
  <2> HIDE DEF next
  <2>1. QED
    BY <1>1, <1>2 DEF ControlInv, TypeOK, Operations, IssueStep
<1>4. LockFits' /\ StepFits'
  BY <1>1 DEF ControlInv, TypeOK, LockFits, StepFits, Operations, Working, IssueStep
<1>5. QED
  BY <1>3, <1>4 DEF ControlInv

\* The sleep machine creates a task for the power-off.
LEMMA IssuePowerOffInv ==
  ASSUME ControlInv, NEW t \in Tasks, IssuePowerOff(t)
  PROVE  ControlInv'
<1> DEFINE next == [task[t] EXCEPT !.op = "off", !.at = "new"]
<1>1. task' = [task EXCEPT ![t] = next] /\ task[t] \in Operations
  BY DEF ControlInv, TypeOK, Operations, IssuePowerOff
<1>2. next \in Operations
  BY <1>1 DEF ControlInv, TypeOK, Operations
<1>3. TypeOK'
  <2> HIDE DEF next
  <2>1. QED
    BY <1>1, <1>2 DEF ControlInv, TypeOK, Operations, IssuePowerOff
<1>4. LockFits' /\ StepFits'
  BY <1>1 DEF ControlInv, TypeOK, LockFits, StepFits, Operations, Working,
     IssuePowerOff
<1>5. QED
  BY <1>3, <1>4 DEF ControlInv

\* A task reads the number of steps and waits for opMutex_.
LEMMA EnterInv ==
  ASSUME ControlInv, NEW t \in Tasks, Enter(t)
  PROVE  ControlInv'
<1> DEFINE next == [task[t] EXCEPT !.at = "wait", !.total = total]
<1>1. task' = [task EXCEPT ![t] = next] /\ task[t] \in Operations
  BY DEF ControlInv, TypeOK, Operations, Enter
<1>2. next \in Operations
  BY <1>1 DEF ControlInv, TypeOK, Operations
<1>3. TypeOK'
  <2> HIDE DEF next
  <2>1. QED
    BY <1>1, <1>2 DEF ControlInv, TypeOK, Operations, Enter
<1>4. LockFits' /\ StepFits'
  BY <1>1 DEF ControlInv, TypeOK, LockFits, StepFits, Operations, Working, Enter
<1>5. QED
  BY <1>3, <1>4 DEF ControlInv

\* opMutex_ is taken by one task, when nobody has it.
LEMMA AcquireInv ==
  ASSUME ControlInv, NEW t \in Tasks, Acquire(t)
  PROVE  ControlInv'
<1> DEFINE next == [task[t] EXCEPT !.at = IF task[t].op = "step" THEN "step" ELSE "query"]
<1>1. task' = [task EXCEPT ![t] = next] /\ task[t] \in Operations
  BY DEF ControlInv, TypeOK, Operations, Acquire
<1>2. next \in Operations
  BY <1>1 DEF ControlInv, TypeOK, Operations
<1>3. TypeOK'
  <2> HIDE DEF next
  <2>1. QED
    BY <1>1, <1>2 DEF ControlInv, TypeOK, Operations, Acquire
<1>4. LockFits' /\ StepFits'
  BY <1>1 DEF ControlInv, TypeOK, LockFits, StepFits, Operations, Working, Acquire
<1>5. QED
  BY <1>3, <1>4 DEF ControlInv

\* Without steps to spread the volume over, a step returns.
LEMMA SkipStepInv ==
  ASSUME ControlInv, NEW t \in Tasks, SkipStep(t)
  PROVE  ControlInv'
<1> DEFINE next == Idle
<1>1. task' = [task EXCEPT ![t] = next] /\ task[t] \in Operations
  BY DEF ControlInv, TypeOK, Operations, SkipStep
<1>2. next \in Operations
  BY <1>1 DEF ControlInv, TypeOK, Operations
<1>3. TypeOK'
  <2> HIDE DEF next
  <2>1. QED
    BY <1>1, <1>2 DEF ControlInv, TypeOK, Operations, SkipStep
<1>4. LockFits' /\ StepFits'
  BY <1>1 DEF ControlInv, TypeOK, LockFits, StepFits, Operations, Working, SkipStep
<1>5. QED
  BY <1>3, <1>4 DEF ControlInv

\* All presses are sent.
LEMMA PressedInv ==
  ASSUME ControlInv, NEW t \in Tasks, Pressed(t)
  PROVE  ControlInv'
<1> DEFINE next == Idle
<1>1. task' = [task EXCEPT ![t] = next] /\ task[t] \in Operations
  BY DEF ControlInv, TypeOK, Operations, Pressed
<1>2. next \in Operations
  BY <1>1 DEF ControlInv, TypeOK, Operations
<1>3. TypeOK'
  <2> HIDE DEF next
  <2>1. QED
    BY <1>1, <1>2 DEF ControlInv, TypeOK, Operations, Pressed
<1>4. LockFits' /\ StepFits'
  BY <1>1 DEF ControlInv, TypeOK, LockFits, StepFits, Operations, Working, Pressed
<1>5. QED
  BY <1>3, <1>4 DEF ControlInv

\* The key is sent, or not.
LEMMA KeyInv ==
  ASSUME ControlInv, NEW t \in Tasks, Key(t)
  PROVE  ControlInv'
<1> DEFINE next == Idle
<1>1. task' = [task EXCEPT ![t] = next] /\ task[t] \in Operations
  BY DEF ControlInv, TypeOK, Operations, Key
<1>2. next \in Operations
  BY <1>1 DEF ControlInv, TypeOK, Operations
<1>3. TypeOK'
  <2> HIDE DEF next
  <2>1. QED
    BY <1>1, <1>2 DEF ControlInv, TypeOK, Operations, Key
<1>4. LockFits' /\ StepFits'
  BY <1>1 DEF ControlInv, TypeOK, LockFits, StepFits, Operations, Working, Key
<1>5. QED
  BY <1>3, <1>4 DEF ControlInv

\* The step sets the volume, which falls to a part of what it was at the start.
LEMMA SetVolumeInv ==
  ASSUME ControlInv, NEW t \in Tasks, SetVolume(t)
  PROVE  ControlInv'
<1> DEFINE target == (startVolume * (task[t].total - task[t].step)) \div task[t].total
<1>1. task' = [task EXCEPT ![t] = Idle] /\ task[t] \in Operations /\ task[t].at = "set"
  BY DEF ControlInv, TypeOK, Operations, SetVolume
<1>2. Idle \in Operations
  BY DEF Operations
<1>3. target \in 0 .. MaxVolume
  <2>1. startVolume \in 0 .. MaxVolume
    BY <1>1 DEF ControlInv, TypeOK, StepFits
  <2>2. task[t].total \in Nat /\ task[t].step \in Nat
    BY TaskTypes
  <2>3. task[t].step >= 1 /\ task[t].step <= task[t].total
    BY <1>1 DEF ControlInv, LockFits, StepFits
  <2>4. target \in 0 .. startVolume
    BY <2>1, <2>2, <2>3, TargetType
  <2>5. QED
    BY <2>1, <2>4
<1>4. /\ volume' \in {target, volume}
      /\ UNCHANGED <<power, total, typical, ramping, issued, finished, startVolume>>
      /\ lock' = Free /\ missed' \in BOOLEAN
  BY DEF SetVolume
<1>5. TypeOK'
  <2> HIDE DEF target
  <2>1. QED
    BY <1>1, <1>2, <1>3, <1>4 DEF ControlInv, TypeOK, Operations
<1>6. LockFits' /\ StepFits'
  <2> HIDE DEF target
  <2>1. QED
    BY <1>1, <1>4 DEF ControlInv, TypeOK, LockFits, StepFits, Working
<1>7. QED
  BY <1>5, <1>6 DEF ControlInv

\* A step computes its volume and its key presses, having read the volume or
\* not.
LEMMA BeginStepInv ==
  ASSUME ControlInv, NEW t \in Tasks, BeginStep(t)
  PROVE  ControlInv'
<1> DEFINE n == IF task[t].step > task[t].total THEN task[t].total ELSE task[t].step
           place == IF startVolume' = Unread THEN "press" ELSE "set"
           next == [task[t] EXCEPT !.at = place, !.step = n,
                                   !.presses = Presses(n, task[t].total)]
<1>1. /\ task' = [task EXCEPT ![t] = next] /\ task[t] \in Operations
      /\ task[t].at = "step" /\ task[t].total > 0
  BY DEF ControlInv, TypeOK, Operations, BeginStep
<1>2. task[t].total \in Nat /\ n \in 1 .. task[t].total /\ typical \in Nat
  BY <1>1 DEF ControlInv, TypeOK, LockFits, StepFits, Operations
<1>3. Presses(n, task[t].total) \in Nat
  BY <1>1, <1>2, PressesType
<1>4. next \in Operations
  BY <1>1, <1>2, <1>3 DEF Operations
<1>5. /\ next.at \in {"press", "set"}
      /\ next.at = "set" => startVolume' # Unread
      /\ next.op = "step" /\ next.step \in 1 .. next.total
  BY <1>1, <1>2 DEF ControlInv, LockFits, Operations
<1>6. startVolume' \in 0 .. MaxVolume \cup {Unread}
  BY DEF ControlInv, TypeOK, BeginStep, ReadVolumes
<1>7. UNCHANGED <<power, volume, total, typical, ramping, issued, finished, lock, missed>>
  BY DEF BeginStep
<1> HIDE DEF next
<1>8. TypeOK'
  BY <1>1, <1>4, <1>6, <1>7 DEF ControlInv, TypeOK, Operations
<1>9. LockFits' /\ StepFits'
  <2>1. lock = t /\ \A u \in Tasks \ {t} : task'[u] = task[u] /\ task[u].at # "set"
    BY <1>1 DEF ControlInv, TypeOK, LockFits, Working
  <2>2. task'[t] = next
    BY <1>1 DEF ControlInv, TypeOK
  <2>3. LockFits'
    <3>1. SUFFICES ASSUME NEW u \in Tasks
                   PROVE  /\ task'[u].at \in Working => lock' = u
                          /\ task'[u].at \in {"step", "set", "press"} =>
                               task'[u].op = "step"
                          /\ task'[u].at \in {"query", "key"} => task'[u].op = "off"
                          /\ task'[u].at = "idle" <=> task'[u].op = "none"
      BY DEF LockFits
    <3>2. CASE u = t
      <4>1. task'[u] = next
        BY <2>2, <3>2
      <4>2. QED
        BY <1>5, <1>7, <2>1, <3>2, <4>1 DEF Working
    <3>3. CASE u # t
      BY <1>7, <2>1, <3>3 DEF ControlInv, LockFits
    <3>4. QED
      BY <3>2, <3>3
  <2>4. StepFits'
    <3>1. next.step \in Nat /\ next.step >= 1 /\ next.step <= next.total
      BY <1>2, <1>4, <1>5 DEF Operations
    <3>2. QED
      BY <1>5, <2>1, <2>2, <3>1 DEF ControlInv, StepFits
  <2>5. QED
    BY <2>3, <2>4
<1>10. QED
  BY <1>8, <1>9 DEF ControlInv

\* One press of KEY_VOLDOWN, sent or failed: the task that presses has the
\* mutex until it ends.
LEMMA PressInv ==
  ASSUME ControlInv, NEW t \in Tasks, Press(t)
  PROVE  ControlInv'
<1>1. task[t] \in Operations /\ task[t].at = "press" /\ task[t].presses > 0
  BY DEF ControlInv, TypeOK, Operations, Press
<1>2. PICK next : /\ task' = [task EXCEPT ![t] = next]
                  /\ \/ next = [task[t] EXCEPT !.presses = @ - 1] /\ lock' = lock
                     \/ next = Idle /\ lock' = Free
  BY DEF Press
<1>3. /\ next \in Operations
      /\ next.at \in {"press", "idle"} /\ next.op \in {"step", "none"}
      /\ next.at = "idle" <=> next.op = "none"
      /\ next.at = "press" => lock' = lock /\ next.step \in 1 .. next.total
  BY <1>1, <1>2 DEF ControlInv, LockFits, StepFits, Operations
<1>4. /\ lock' \in {lock, Free}
      /\ volume' = volume \/ (volume > 0 /\ volume' = volume - 1)
      /\ UNCHANGED <<power, total, typical, ramping, issued, finished, startVolume>>
  <2>1. volume' = volume \/ (volume > 0 /\ volume' = volume - 1)
    BY DEF Press
  <2>2. QED
    BY <1>2, <2>1 DEF Press
<1>5. missed' \in BOOLEAN
  BY DEF Press, ControlInv, TypeOK
<1>6. TypeOK'
  BY <1>2, <1>3, <1>4, <1>5 DEF ControlInv, TypeOK, Operations
<1>7. LockFits' /\ StepFits'
  BY <1>1, <1>2, <1>3, <1>4 DEF ControlInv, TypeOK, LockFits, StepFits, Working
<1>8. QED
  BY <1>6, <1>7 DEF ControlInv

\* A power-off asks for the power state, and goes on to the key or ends.
LEMMA QueryInv ==
  ASSUME ControlInv, NEW t \in Tasks, Query(t)
  PROVE  ControlInv'
<1>1. task[t] \in Operations /\ task[t].at = "query"
  BY DEF ControlInv, TypeOK, Operations, Query
<1>2. PICK next : /\ task' = [task EXCEPT ![t] = next]
                  /\ \/ next = [task[t] EXCEPT !.at = "key"] /\ lock' = lock
                     \/ next = Idle /\ lock' = Free
  BY <1>1 DEF Query
<1>3. /\ next \in Operations
      /\ next.at \in {"key", "idle"} /\ next.op \in {"off", "none"}
      /\ next.at = "idle" <=> next.op = "none"
      /\ next.at = "key" => lock' = lock
  BY <1>1, <1>2 DEF ControlInv, LockFits, Operations
<1>4. lock' \in {lock, Free} /\ UNCHANGED <<tv, settings, scheduler, startVolume, missed>>
  BY <1>2 DEF Query
<1>5. TypeOK'
  BY <1>2, <1>3, <1>4 DEF ControlInv, TypeOK, Operations
<1>6. LockFits' /\ StepFits'
  BY <1>1, <1>2, <1>3, <1>4 DEF ControlInv, TypeOK, LockFits, StepFits, Working
<1>7. QED
  BY <1>5, <1>6 DEF ControlInv

\* The scheduler, the settings and the viewer touch no task.
LEMMA OthersInv ==
  ASSUME ControlInv,
         BeginRamp \/ CancelRamp \/ RemoteVolume \/ ChangeSettings
           \/ \E p \in {"on", "off"} : RemotePower(p)
  PROVE  ControlInv'
<1> USE DEF BeginRamp, CancelRamp, RemoteVolume, RemotePower, ChangeSettings
<1>1. TypeOK'
  <2>1. /\ UNCHANGED <<task, lock, startVolume>>
        /\ power' \in {"on", "off"} /\ volume' \in 0 .. MaxVolume
        /\ total' \in Totals /\ typical' \in Typicals
    BY DEF ControlInv, TypeOK
  <2>2. issued' \in Nat
    BY DEF ControlInv, TypeOK
  <2>3. ramping' \in BOOLEAN /\ finished' \in BOOLEAN /\ missed' \in BOOLEAN
    BY Zenon DEF ControlInv, TypeOK
  <2>4. QED
    BY <2>1, <2>2, <2>3 DEF ControlInv, TypeOK
<1>2. LockFits' /\ StepFits'
  BY DEF ControlInv, LockFits, StepFits
<1>3. QED
  BY <1>1, <1>2 DEF ControlInv

\* Every step keeps the types and the rules of the mutex.
LEMMA ControlStep == ControlInv /\ [Next]_vars => ControlInv'
<1> SUFFICES ASSUME ControlInv, [Next]_vars
             PROVE  ControlInv'
  OBVIOUS
<1>1. ASSUME NEW t \in Tasks,
             IssueStep(t) \/ IssuePowerOff(t) \/ Acquire(t) \/ TaskStep(t)
      PROVE  ControlInv'
  BY <1>1, IssueStepInv, IssuePowerOffInv, EnterInv, AcquireInv, SkipStepInv,
     BeginStepInv,
     SetVolumeInv, PressInv, PressedInv, QueryInv, KeyInv
  DEF TaskStep
<1>2. CASE UNCHANGED vars
  BY <1>2 DEF vars, ControlInv, TypeOK, LockFits, StepFits
<1>3. QED
  BY <1>1, <1>2, OthersInv DEF Next

-----------------------------------------------------------------------------
(* The power-off.                                                          *)

\* The viewer may switch the TV on, not off.
Unattended == "off" \notin Disturbances

\* Nobody else switches the TV off between the query and the key.
KeyFits == \A t \in Tasks : task[t].at = "key" => power = "on"

PowerInv == ControlInv /\ KeyFits

\* A step of a task that leaves the power alone, and takes no other task to the key.
LEMMA PowerKept ==
  ASSUME ControlInv, KeyFits, power' = power,
         NEW t \in Tasks, NEW next, task' = [task EXCEPT ![t] = next],
         next.at = "key" => power = "on"
  PROVE  KeyFits'
BY DEF ControlInv, TypeOK, KeyFits

\* Between the query and the key the mutex keeps other tasks from the TV.
LEMMA PowerStep == PowerInv /\ Unattended /\ [Next]_vars => PowerInv'
<1> SUFFICES ASSUME PowerInv, Unattended, [Next]_vars
             PROVE  KeyFits'
  BY ControlStep DEF PowerInv
<1> USE DEF PowerInv
<1>1. ASSUME NEW t \in Tasks, Query(t)
      PROVE  KeyFits'
  <2>1. PICK next : /\ task' = [task EXCEPT ![t] = next]
                    /\ next.at = "key" => power = "on"
    BY <1>1 DEF Query, PowerStates
  <2>2. QED
    BY <1>1, <2>1, PowerKept DEF Query
<1>2. ASSUME NEW t \in Tasks, Key(t)
      PROVE  KeyFits'
  <2>1. \A u \in Tasks \ {t} : task[u].at # "key"
    BY <1>2 DEF ControlInv, LockFits, Working, Key
  <2>2. QED
    BY <1>2, <2>1 DEF ControlInv, TypeOK, KeyFits, Key
<1>3. ASSUME NEW t \in Tasks, Press(t)
      PROVE  KeyFits'
  <2>1. task[t] \in Operations /\ task[t].at = "press"
    BY <1>3, TaskTypes DEF Press
  <2>2. PICK next : /\ task' = [task EXCEPT ![t] = next] /\ power' = power
                    /\ next = [task[t] EXCEPT !.presses = @ - 1] \/ next = Idle
    BY <1>3 DEF Press
  <2>3. next.at # "key"
    BY <2>1, <2>2 DEF Operations
  <2>4. QED
    BY <2>2, <2>3, PowerKept
<1>4. ASSUME NEW t \in Tasks,
             \/ IssueStep(t) \/ IssuePowerOff(t) \/ Acquire(t) \/ Enter(t)
             \/ SkipStep(t) \/ BeginStep(t) \/ SetVolume(t) \/ Pressed(t)
      PROVE  KeyFits'
  <2>1. task \in [Tasks -> Operations]
    BY DEF ControlInv, TypeOK, Operations
  <2>2. PICK next : task' = [task EXCEPT ![t] = next] /\ power' = power
    BY <1>4, <2>1 DEF IssueStep, IssuePowerOff, Acquire, Enter, SkipStep, BeginStep,
       SetVolume, Pressed
  <2>3. task'[t].at # "key"
    <3>1. CASE IssueStep(t) \/ IssuePowerOff(t)
      BY <2>1, <3>1 DEF Operations, IssueStep, IssuePowerOff
    <3>2. CASE Acquire(t)
      BY <2>1, <3>2 DEF Operations, Acquire
    <3>3. CASE Enter(t)
      BY <2>1, <3>3 DEF Operations, Enter
    <3>4. CASE BeginStep(t)
      BY <2>1, <3>4 DEF Operations, BeginStep
    <3>5. CASE SkipStep(t) \/ SetVolume(t) \/ Pressed(t)
      BY <2>1, <3>5 DEF SkipStep, SetVolume, Pressed
    <3>6. QED
      BY <1>4, <3>1, <3>2, <3>3, <3>4, <3>5
  <2>4. QED
    BY <2>1, <2>2, <2>3, PowerKept
<1>5. ASSUME BeginRamp \/ CancelRamp \/ RemoteVolume \/ ChangeSettings
               \/ \E p \in {"on", "off"} : RemotePower(p)
      PROVE  KeyFits'
  BY <1>5 DEF KeyFits, Unattended, BeginRamp, CancelRamp, RemoteVolume, RemotePower,
     ChangeSettings
<1>6. CASE UNCHANGED vars
  BY <1>6 DEF vars, KeyFits
<1>7. QED
  BY <1>1, <1>2, <1>3, <1>4, <1>5, <1>6 DEF Next, TaskStep

-----------------------------------------------------------------------------
(* The ramp.                                                               *)

\* The viewer leaves the volume and the settings alone.
Undisturbed == "volume" \notin Disturbances /\ "settings" \notin Disturbances

Begun(t) == task[t].at \in {"set", "press"}

\* With the settings left alone, every step spreads over the same number.
TotalsFit == \A t \in Steps : task[t].at # "new" => task[t].total = total

\* The scheduler counts the steps, each is made by one task, and the second one is
\* not issued before the first has begun.
StepsFit ==
  /\ issued <= total
  /\ ramping => issued < total /\ ~finished
  /\ finished => issued = total
  /\ \A t \in Steps :
       /\ task[t].step <= issued
       /\ task[t].step = 1 /\ ~Begun(t) => issued = 1
       /\ task[t].at = "press" => task[t].presses <= Presses(task[t].step, total)
       /\ \A u \in Steps : task[t].step = task[u].step => t = u

\* The first step has begun: startVolume is of this ramp.
Started == issued > 0 /\ \A t \in Steps : task[t].step = 1 => Begun(t)

\* The volume that a step sets.
Target(n) == (startVolume * (total - n)) \div total

\* With the volume known, steps do not overlap, and each leaves its part of it.
SetMethod ==
  Started /\ startVolume # Unread =>
    /\ \A t \in Steps : task[t].step = issued /\ task[t].at # "press"
    /\ Target(issued) <= volume
    /\ Steps = {} /\ ~missed => volume = Target(issued)

\* The presses up to this step. A ramp that presses the key numbers them all, and a
\* task has those of its step, or what is left of them.
Until(n) == (typical * n) \div total + (IF n = total THEN ExtraPresses ELSE 0)
FirstOf(t) == IF task[t].at = "press" THEN Until(task[t].step) - task[t].presses + 1
                                      ELSE Until(task[t].step - 1) + 1
Numbers(t) == FirstOf(t) .. Until(task[t].step)
InHand     == UNION {Numbers(t) : t \in Steps}
Unissued   == Until(issued) + 1 .. Until(total)
Owed       == InHand \cup Unissued

\* Without it, the presses still to come are as many as the volume is high.
KeyMethod ==
  Started /\ startVolume = Unread => missed \/ volume <= Cardinality(Owed)

RampFits == TotalsFit /\ (total > 0 => StepsFit /\ SetMethod /\ KeyMethod)
RampInv  == ControlInv /\ RampFits

-----------------------------------------------------------------------------
(* The presses and the volumes of a ramp.                                  *)

\* A later step ends with a later press.
LEMMA UntilGrows ==
  ASSUME ControlInv, total > 0, NEW m \in 0 .. total, NEW n \in 0 .. total, m <= n
  PROVE  Until(m) \in Nat /\ Until(n) \in Nat /\ Until(m) <= Until(n)
<1>1. total \in Nat /\ typical \in Nat /\ m \in Nat /\ n \in Nat
  BY DEF ControlInv, TypeOK
<1>2. typical * m \in Nat /\ typical * n \in Nat /\ typical * m <= typical * n
  <2>1. m * typical <= n * typical
    BY <1>1, ProductGrows
  <2>2. m * typical = typical * m /\ n * typical = typical * n
    BY <1>1
  <2>3. typical * m \in Nat /\ typical * n \in Nat
    BY <1>1
  <2>4. QED
    BY <2>1, <2>2, <2>3
<1>3. /\ (typical * m) \div total \in Nat /\ (typical * n) \div total \in Nat
      /\ (typical * m) \div total <= (typical * n) \div total
  BY <1>1, <1>2, Quotient, QuotientGrows
<1>4. QED
  BY <1>1, <1>3 DEF Until

\* Together the steps press as often as the user told, and a little more.
LEMMA UntilEnds ==
  ASSUME ControlInv, total > 0
  PROVE  Until(0) = 0 /\ Until(total) = typical + ExtraPresses
<1>1. total \in Nat /\ typical \in Nat
  BY DEF ControlInv, TypeOK
<1>2. (typical * total) \div total = typical
  BY <1>1, QuotientExact
<1>3. (0 * total) \div total = 0
  BY <1>1, QuotientExact
<1>4. typical * 0 = 0 /\ 0 * total = 0
  BY <1>1
<1>5. QED
  BY <1>1, <1>2, <1>3, <1>4 DEF Until

\* A step presses from where the one before it ended.
LEMMA PressesUntil ==
  ASSUME ControlInv, total > 0, NEW n \in 1 .. total
  PROVE  Presses(n, total) = Until(n) - Until(n - 1)
<1>1. total \in Nat /\ typical \in Nat /\ n \in Nat /\ n - 1 # total
  BY DEF ControlInv, TypeOK
<1>2. typical * n \in Nat /\ typical * (n - 1) \in Nat
  BY <1>1
<1>3. (typical * n) \div total \in Nat /\ (typical * (n - 1)) \div total \in Nat
  BY <1>1, <1>2, Quotient
<1>4. QED
  BY <1>1, <1>3 DEF Presses, Until

\* A later step sets a lower volume, the last one silence.
LEMMA TargetFalls ==
  ASSUME ControlInv, total > 0, startVolume # Unread,
         NEW m \in 0 .. total, NEW n \in 0 .. total, m <= n
  PROVE  Target(n) \in Nat /\ Target(n) <= Target(m)
<1>1. total \in Nat /\ startVolume \in Nat /\ total - n \in Nat /\ total - m \in Nat
  BY DEF ControlInv, TypeOK
<1>2. startVolume * (total - n) <= startVolume * (total - m)
  <2>1. (total - n) * startVolume <= (total - m) * startVolume
    BY <1>1, ProductGrows
  <2>2. QED
    BY <1>1, <2>1
<1>3. startVolume * (total - n) \in Nat /\ startVolume * (total - m) \in Nat
  BY <1>1
<1>4. QED
  BY <1>1, <1>2, <1>3, Quotient, QuotientGrows DEF Target

\* The first volume is the one that was read, the last one silence.
LEMMA TargetEnds ==
  ASSUME ControlInv, total > 0, startVolume # Unread
  PROVE  Target(0) = startVolume /\ Target(total) = 0
<1>1. total \in Nat /\ startVolume \in Nat
  BY DEF ControlInv, TypeOK
<1>2. (startVolume * total) \div total = startVolume
  BY <1>1, QuotientExact
<1>3. (0 * total) \div total = 0
  BY <1>1, QuotientExact
<1>4. startVolume * 0 = 0 /\ 0 * total = 0 /\ total - 0 = total /\ total - total = 0
  BY <1>1
<1>5. QED
  BY <1>2, <1>3, <1>4 DEF Target

\* The presses of a task are of its step.
LEMMA NumbersWithin ==
  ASSUME ControlInv, total > 0, StepsFit, NEW t \in Steps
  PROVE  /\ task[t].step \in 1 .. total
         /\ FirstOf(t) \in Nat /\ FirstOf(t) > Until(task[t].step - 1)
         /\ Until(task[t].step) \in Nat /\ Until(task[t].step) <= Until(issued)
         /\ Until(task[t].step - 1) \in Nat
<1>1. t \in Tasks /\ task[t].op = "step"
  BY DEF Steps
<1>2. total \in Nat /\ issued \in Nat
  BY DEF ControlInv, TypeOK
<1>3. task[t].step \in Nat /\ task[t].presses \in Nat
  BY <1>1, TaskTypes
<1>4. task[t].step >= 1 /\ task[t].step <= issued /\ issued <= total
  BY <1>1 DEF ControlInv, StepFits, StepsFit
<1>5. /\ task[t].step \in 1 .. total /\ task[t].step - 1 \in 0 .. total
      /\ issued \in 0 .. total
  BY <1>2, <1>3, <1>4
<1>6. /\ Until(task[t].step) \in Nat /\ Until(task[t].step - 1) \in Nat
      /\ Until(task[t].step) <= Until(issued)
  BY <1>4, <1>5, UntilGrows
<1>7. task[t].at = "press" =>
        task[t].presses <= Until(task[t].step) - Until(task[t].step - 1)
  BY <1>5, PressesUntil DEF StepsFit
<1>8. QED
  BY <1>3, <1>5, <1>6, <1>7 DEF FirstOf

\* The presses of a ramp are finitely many.
LEMMA OwedFinite ==
  ASSUME ControlInv, total > 0, StepsFit
  PROVE  IsFiniteSet(Owed)
<1>1. issued \in 0 .. total /\ total \in 0 .. total
  BY DEF ControlInv, TypeOK, StepsFit
<1>2. Until(issued) \in Nat /\ Until(total) \in Nat /\ Until(issued) <= Until(total)
  BY <1>1, UntilGrows
<1>3. ASSUME NEW t \in Steps, NEW x \in Numbers(t)
      PROVE  x \in 0 .. Until(total)
  BY <1>2, <1>3, NumbersWithin DEF Numbers
<1>4. Unissued \subseteq 0 .. Until(total)
  BY <1>2 DEF Unissued
<1>5. ASSUME NEW x \in Owed
      PROVE  x \in 0 .. Until(total)
  <2>1. CASE x \in Unissued
    BY <1>4, <2>1
  <2>2. CASE x \in InHand
    <3>1. PICK t \in Steps : x \in Numbers(t)
      BY <2>2 DEF InHand
    <3>2. QED
      BY <1>3, <3>1
  <2>3. QED
    BY <2>1, <2>2 DEF Owed
<1>6. IsFiniteSet(0 .. Until(total))
  <2>1. 0 \in Int /\ Until(total) \in Int
    BY <1>2
  <2>2. QED
    BY <2>1, FS_Interval
<1>7. QED
  BY <1>5, <1>6, FS_Subset

-----------------------------------------------------------------------------
(* Every step keeps the invariant of the ramp.                             *)

\* What does not touch the steps of the ramp: no request that matters is sent, and
\* no step begins or ends.
Frame ==
  /\ UNCHANGED <<volume, total, typical, issued, finished, startVolume, missed>>
  /\ ramping' => ramping
  /\ Steps' = Steps
  /\ \A t \in Steps :
       /\ task'[t].step = task[t].step /\ task'[t].presses = task[t].presses
       /\ task'[t].at = task[t].at \/ {task'[t].at, task[t].at} \cap {"set", "press"} = {}
       /\ task'[t].at # "new" => task'[t].total = total

\* Such a step keeps the invariant.
LEMMA FrameInv ==
  ASSUME RampInv, Frame
  PROVE  RampFits'
<1> USE DEF RampInv, RampFits
<1>1. /\ volume' = volume /\ total' = total /\ typical' = typical /\ issued' = issued
      /\ finished' = finished /\ startVolume' = startVolume /\ missed' = missed
      /\ Steps' = Steps /\ (ramping' => ramping)
  BY DEF Frame
<1>2. ASSUME NEW t \in Steps
      PROVE  /\ task'[t].step = task[t].step /\ task'[t].presses = task[t].presses
             /\ Begun(t)' <=> Begun(t)
             /\ task'[t].at = "press" <=> task[t].at = "press"
             /\ task'[t].at # "new" => task'[t].total = total
  BY <1>2 DEF Frame, Begun
<1>3. TotalsFit'
  BY <1>1, <1>2 DEF TotalsFit
<1>4. SUFFICES ASSUME total > 0
               PROVE  StepsFit' /\ SetMethod' /\ KeyMethod'
  BY <1>1, <1>3
<1>5. StepsFit'
  <2>1. issued' <= total' /\ (ramping' => issued' < total' /\ ~finished')
    BY <1>1, <1>4 DEF StepsFit
  <2>2. finished' => issued' = total'
    BY <1>1, <1>4 DEF StepsFit
  <2>3. ASSUME NEW t \in Steps
        PROVE  /\ task'[t].step <= issued'
               /\ task'[t].step = 1 /\ ~Begun(t)' => issued' = 1
               /\ task'[t].at = "press" =>
                    task'[t].presses <= Presses(task[t].step, total)
               /\ \A u \in Steps : task'[t].step = task'[u].step => t = u
    BY <1>1, <1>2, <1>4, <2>3 DEF StepsFit
  <2>4. ASSUME NEW t \in Steps
        PROVE  Presses(task[t].step, total)' = Presses(task[t].step, total)
    BY <1>1, <1>2 DEF Presses
  <2>5. QED
    BY <1>1, <2>1, <2>2, <2>3, <2>4 DEF StepsFit
<1>6. Started' <=> Started
  BY <1>1, <1>2 DEF Started
<1>7. SetMethod'
  <2>1. Target(issued)' = Target(issued)
    BY <1>1 DEF Target
  <2>2. SUFFICES ASSUME Started', startVolume' # Unread
                 PROVE  /\ \A t \in Steps' : /\ task'[t].step = issued'
                                             /\ task'[t].at # "press"
                        /\ Target(issued)' <= volume'
                        /\ Steps' = {} /\ ~missed' => volume' = Target(issued)'
    BY DEF SetMethod
  <2>3. /\ \A t \in Steps : task[t].step = issued /\ task[t].at # "press"
        /\ Target(issued) <= volume
        /\ Steps = {} /\ ~missed => volume = Target(issued)
    BY <1>1, <1>4, <1>6, <2>2 DEF SetMethod
  <2>4. QED
    BY <1>1, <1>2, <2>1, <2>3
<1>8. KeyMethod'
  <2>1. ASSUME NEW n
        PROVE  Until(n)' = Until(n)
    BY <1>1 DEF Until
  <2>2. ASSUME NEW t \in Steps
        PROVE  FirstOf(t)' = FirstOf(t) /\ Numbers(t)' = Numbers(t)
    BY <1>2, <2>1 DEF FirstOf, Numbers
  <2>3. Owed' = Owed
    BY <1>1, <2>1, <2>2 DEF Owed, InHand, Unissued
  <2>4. SUFFICES ASSUME Started', startVolume' = Unread
                 PROVE  missed' \/ volume' <= Cardinality(Owed)'
    BY DEF KeyMethod
  <2>5. missed \/ volume <= Cardinality(Owed)
    BY <1>1, <1>4, <1>6, <2>4 DEF KeyMethod
  <2>6. QED
    BY <1>1, <2>3, <2>5
<1>9. QED
  BY <1>5, <1>7, <1>8

\* The scheduler gives up the rest of the ramp, or the viewer switches the TV.
LEMMA SettledInv ==
  ASSUME RampInv,
         CancelRamp \/ (\E p \in {"on", "off"} : RemotePower(p)) \/ UNCHANGED vars
  PROVE  RampFits'
<1>1. /\ UNCHANGED <<volume, total, typical, issued, finished, startVolume, missed>>
      /\ ramping' => ramping
      /\ task' = task
  BY DEF CancelRamp, RemotePower, vars
<1>2. Frame
  BY <1>1 DEF Frame, Steps, RampInv, RampFits, TotalsFit
<1>3. QED
  BY <1>2, FrameInv

\* A task is on its way to the mutex, or switches the TV off.
LEMMA FramedInv ==
  ASSUME RampInv,
         NEW t \in Tasks,
         IssuePowerOff(t) \/ Enter(t) \/ Acquire(t) \/ Query(t) \/ Key(t)
  PROVE  RampFits'
<1> DEFINE Same == /\ UNCHANGED <<volume, total, typical, issued, finished, startVolume,
                                  missed, ramping>>
                   /\ \A u \in Tasks \ {t} : task'[u] = task[u]
<1>3. ASSUME Same, task[t].op # "step", task'[t].op # "step"
      PROVE  Frame
  <2>1. Steps' = Steps /\ t \notin Steps
    BY <1>3 DEF Steps
  <2>2. ASSUME NEW u \in Steps
        PROVE  task'[u] = task[u]
    BY <1>3, <2>1, <2>2 DEF Steps
  <2>3. QED
    BY <1>3, <2>1, <2>2 DEF Frame, RampInv, RampFits, TotalsFit
<1>4. task \in [Tasks -> Operations] /\ task[t] \in Operations
  BY TaskTypes DEF RampInv, ControlInv, TypeOK, Operations
<1>5. CASE IssuePowerOff(t)
  BY <1>3, <1>4, <1>5, FrameInv DEF IssuePowerOff, Operations
<1>6. CASE Query(t)
  <2>1. task[t].op = "off"
    BY <1>6 DEF RampInv, ControlInv, LockFits, Query
  <2>2. task'[t].op \in {"off", "none"} /\ Same
    BY <1>4, <1>6, <2>1 DEF Query, Operations
  <2>3. QED
    BY <1>3, <2>1, <2>2, FrameInv
<1>7. CASE Key(t)
  <2>1. task[t].op = "off"
    BY <1>7 DEF RampInv, ControlInv, LockFits, Key
  <2>2. task'[t].op = "none" /\ Same
    BY <1>4, <1>7 DEF Key
  <2>3. QED
    BY <1>3, <2>1, <2>2, FrameInv
<1>8. CASE Enter(t) \/ Acquire(t)
  <2>1. Same
    BY <1>4, <1>8 DEF Enter, Acquire
  <2>2. /\ task'[t].op = task[t].op /\ task'[t].step = task[t].step
        /\ task'[t].presses = task[t].presses
    <3>1. CASE Enter(t)
      BY <1>4, <3>1 DEF Enter, Operations
    <3>2. CASE Acquire(t)
      BY <1>4, <3>2 DEF Acquire, Operations
    <3>3. QED
      BY <1>8, <3>1, <3>2
  <2>3. CASE task[t].op # "step"
    BY <1>3, <2>1, <2>2, <2>3, FrameInv
  <2>4. CASE task[t].op = "step"
    <3>1. /\ task[t].at \in {"new", "wait"} /\ task'[t].at \in {"wait", "step"}
          /\ task'[t].total = total
      <4>1. CASE Enter(t)
        BY <1>4, <4>1 DEF Enter, Operations
      <4>2. CASE Acquire(t)
        BY <1>4, <2>4, <4>2 DEF Acquire, Operations, RampInv, RampFits, TotalsFit,
           Steps
      <4>3. QED
        BY <1>8, <4>1, <4>2
    <3>2. Steps' = Steps
      BY <2>1, <2>2 DEF Steps
    <3>3. ASSUME NEW u \in Steps
          PROVE  /\ task'[u].step = task[u].step /\ task'[u].presses = task[u].presses
                 /\ \/ task'[u].at = task[u].at
                    \/ {task'[u].at, task[u].at} \cap {"set", "press"} = {}
                 /\ task'[u].at # "new" => task'[u].total = total
      <4>1. CASE u = t
        BY <2>2, <3>1, <4>1
      <4>2. CASE u # t
        BY <2>1, <3>3, <4>2 DEF Steps, RampInv, RampFits, TotalsFit
      <4>3. QED
        BY <4>1, <4>2
    <3>4. QED
      BY <2>1, <3>2, <3>3, FrameInv DEF Frame
  <2>5. QED
    BY <2>3, <2>4
<1>9. QED
  BY <1>5, <1>6, <1>7, <1>8

\* A ramp begins when the tasks of the last one are through.
LEMMA BeginRampInv ==
  ASSUME RampInv, BeginRamp
  PROVE  RampFits'
<1>1. /\ Steps' = {} /\ issued' = 0 /\ finished' = FALSE
      /\ total' = total /\ total \in Nat
  BY DEF BeginRamp, Steps, RampInv, ControlInv, TypeOK
<1>2. ~Started'
  BY <1>1 DEF Started
<1>3. total > 0 => StepsFit'
  BY <1>1 DEF StepsFit
<1>4. TotalsFit' /\ SetMethod' /\ KeyMethod'
  BY <1>1, <1>2 DEF TotalsFit, SetMethod, KeyMethod
<1>5. QED
  BY <1>1, <1>3, <1>4 DEF RampFits

\* Without steps to spread the volume over there is no ramp.
LEMMA SkipRampInv ==
  ASSUME RampInv, NEW t \in Tasks, SkipStep(t)
  PROVE  RampFits'
<1>1. /\ task' = [task EXCEPT ![t] = Idle] /\ total' = total /\ total \in Nat
      /\ task \in [Tasks -> Operations]
  BY DEF SkipStep, RampInv, ControlInv, TypeOK, Operations
<1>2. t \in Steps /\ total = 0
  <2>1. task[t].op = "step" /\ task[t].at # "new" /\ task[t].total = 0
    BY DEF SkipStep, RampInv, ControlInv, LockFits
  <2>2. QED
    BY <2>1 DEF Steps, RampInv, RampFits, TotalsFit
<1>3. ASSUME NEW u \in Steps'
      PROVE  u \in Steps /\ task'[u] = task[u]
  BY <1>1, <1>3 DEF Steps
<1>4. TotalsFit'
  BY <1>1, <1>3 DEF TotalsFit, RampInv, RampFits
<1>5. QED
  BY <1>1, <1>2, <1>4 DEF RampFits

\* What a step of one task leaves to the others.
LEMMA OtherTasks ==
  ASSUME ControlInv, NEW t \in Tasks, NEW next, task' = [task EXCEPT ![t] = next],
         UNCHANGED <<total, typical>>
  PROVE  /\ task'[t] = next
         /\ \A u \in Tasks \ {t} : /\ task'[u] = task[u]
                                   /\ u \in Steps' <=> u \in Steps
                                   /\ Begun(u)' <=> Begun(u)
                                   /\ Numbers(u)' = Numbers(u)
<1>1. task'[t] = next /\ \A u \in Tasks \ {t} : task'[u] = task[u]
  BY DEF ControlInv, TypeOK
<1>2. ASSUME NEW u \in Tasks \ {t}
      PROVE  /\ u \in Steps' <=> u \in Steps
             /\ Begun(u)' <=> Begun(u)
  BY <1>1, <1>2 DEF Steps, Begun
<1>3. ASSUME NEW n
      PROVE  Until(n)' = Until(n)
  BY DEF Until
<1>4. ASSUME NEW u \in Tasks \ {t}
      PROVE  Numbers(u)' = Numbers(u)
  BY <1>1, <1>3, <1>4 DEF Numbers, FirstOf
<1>5. QED
  BY <1>1, <1>2, <1>4

\* A step that has begun belongs to a ramp that has.
LEMMA StartedByStep ==
  ASSUME RampInv, total > 0, NEW t \in Steps, Begun(t)
  PROVE  Started
<1>1. /\ t \in Tasks /\ issued \in Nat /\ task[t].step \in Nat
      /\ task[t].step >= 1 /\ task[t].step <= issued
  BY TaskTypes DEF RampInv, RampFits, ControlInv, TypeOK, StepFits, StepsFit, Steps
<1>2. ASSUME NEW u \in Steps, task[u].step = 1, ~Begun(u)
      PROVE  FALSE
  <2>1. issued = 1
    BY <1>2 DEF RampInv, RampFits, StepsFit
  <2>2. task[t].step = 1
    BY <1>1, <2>1
  <2>3. QED
    BY <1>2, <2>2 DEF RampInv, RampFits, StepsFit
<1>3. QED
  BY <1>1, <1>2 DEF Started

\* A step that ends leaves the other steps as they are.
LEMMA EndedInv ==
  ASSUME RampInv, total > 0, NEW t \in Steps, Begun(t),
         task' = [task EXCEPT ![t] = Idle],
         UNCHANGED <<total, typical, ramping, issued, finished, startVolume>>
  PROVE  Steps' = Steps \ {t} /\ TotalsFit' /\ StepsFit'
<1> USE DEF RampInv, RampFits
<1>1. t \in Tasks
  BY DEF Steps
<1>2. /\ task'[t] = Idle
      /\ \A u \in Tasks \ {t} : /\ task'[u] = task[u] /\ Begun(u)' <=> Begun(u)
                                /\ u \in Steps' <=> u \in Steps
  BY <1>1, OtherTasks
<1>3. Steps' = Steps \ {t}
  <2>1. t \notin Steps'
    BY <1>2 DEF Steps
  <2>2. QED
    BY <1>2, <2>1 DEF Steps
<1>4. ASSUME NEW u \in Steps'
      PROVE  /\ u \in Steps /\ task'[u] = task[u]
             /\ Begun(u)' <=> Begun(u)
             /\ Presses(task[u].step, total)' = Presses(task[u].step, total)
  <2>1. u \in Tasks \ {t}
    BY <1>3, <1>4 DEF Steps
  <2>2. Presses(task[u].step, total)' = Presses(task[u].step, total)
    BY <1>2, <2>1 DEF Presses
  <2>3. QED
    BY <1>2, <1>3, <2>1, <2>2
<1>5. TotalsFit'
  BY <1>4 DEF TotalsFit
<1>6. StepsFit'
  <2>1. issued' <= total' /\ (ramping' => issued' < total' /\ ~finished')
    BY DEF StepsFit
  <2>2. finished' => issued' = total'
    BY DEF StepsFit
  <2>3. QED
    BY <1>4, <2>1, <2>2 DEF StepsFit
<1>7. QED
  BY <1>3, <1>5, <1>6

\* All presses of a step are sent.
LEMMA PressedRampInv ==
  ASSUME RampInv, NEW t \in Tasks, Pressed(t)
  PROVE  RampFits'
<1>1. /\ task' = [task EXCEPT ![t] = Idle] /\ task[t].presses = 0 /\ task[t].at = "press"
      /\ volume' = volume /\ missed' = missed /\ startVolume' = startVolume
      /\ total' = total /\ typical' = typical /\ issued' = issued
      /\ ramping' = ramping /\ finished' = finished
  BY DEF Pressed
<1>2. t \in Steps /\ Begun(t)
  BY <1>1 DEF RampInv, ControlInv, LockFits, Steps, Begun
<1>3. total \in Nat /\ total > 0
  <2>1. task[t].step >= 1 /\ task[t].step <= task[t].total /\ task[t].total = total
    BY <1>1, <1>2 DEF RampInv, RampFits, TotalsFit, ControlInv, LockFits, StepFits
  <2>2. QED
    BY <2>1, TaskTypes DEF RampInv
<1>4. Steps' = Steps \ {t} /\ TotalsFit' /\ StepsFit'
  BY <1>1, <1>2, <1>3, EndedInv
<1>5. Started /\ startVolume = Unread
  BY <1>1, <1>2, <1>3, StartedByStep DEF RampInv, RampFits, SetMethod
<1>6. SetMethod'
  BY <1>1, <1>5 DEF SetMethod
<1>7. Owed' = Owed
  <2>1. Numbers(t) = {}
    <3>1. FirstOf(t) = Until(task[t].step) + 1 /\ Until(task[t].step) \in Nat
      BY <1>1, <1>2, <1>3, NumbersWithin DEF FirstOf, RampInv, RampFits
    <3>2. QED
      BY <3>1 DEF Numbers
  <2>2. ASSUME NEW u \in Steps \ {t}
        PROVE  Numbers(u)' = Numbers(u)
    BY <1>1, <2>2, OtherTasks DEF Steps, RampInv
  <2>3. InHand' = InHand
    BY <1>4, <2>1, <2>2 DEF InHand
  <2>4. Unissued' = Unissued
    BY <1>1 DEF Unissued, Until
  <2>5. QED
    BY <2>3, <2>4 DEF Owed
<1>8. KeyMethod'
  <2>1. missed \/ volume <= Cardinality(Owed)
    BY <1>3, <1>5 DEF RampInv, RampFits, KeyMethod
  <2>2. missed' \/ volume' <= Cardinality(Owed)'
    BY <1>1, <1>7, <2>1
  <2>3. QED
    BY <2>2 DEF KeyMethod
<1>9. QED
  BY <1>4, <1>6, <1>8 DEF RampFits

\* A step has set the volume, unless the request failed.
LEMMA SetVolumeRampInv ==
  ASSUME RampInv, NEW t \in Tasks, SetVolume(t)
  PROVE  RampFits' /\ volume' <= volume
<1>1. /\ task' = [task EXCEPT ![t] = Idle] /\ task[t].at = "set"
      /\ startVolume' = startVolume /\ total' = total /\ typical' = typical
      /\ issued' = issued /\ ramping' = ramping /\ finished' = finished
  BY DEF SetVolume
<1>2. t \in Steps /\ Begun(t)
  BY <1>1 DEF RampInv, ControlInv, LockFits, Steps, Begun
<1>3. task[t].total = total /\ total \in Nat /\ total > 0
  <2>1. task[t].step >= 1 /\ task[t].step <= task[t].total /\ task[t].total = total
    BY <1>1, <1>2 DEF RampInv, RampFits, TotalsFit, ControlInv, LockFits, StepFits
  <2>2. QED
    BY <2>1, TaskTypes DEF RampInv
<1>4. Steps' = Steps \ {t} /\ TotalsFit' /\ StepsFit'
  BY <1>1, <1>2, <1>3, EndedInv
<1>5. startVolume # Unread /\ Started
  BY <1>1, <1>2, <1>3, StartedByStep DEF RampInv, ControlInv, StepFits
<1>6. /\ \A u \in Steps : task[u].step = issued
      /\ Target(issued) <= volume
  BY <1>3, <1>5 DEF RampInv, RampFits, SetMethod
<1>7. Steps' = {}
  BY <1>2, <1>3, <1>4, <1>6 DEF RampInv, RampFits, StepsFit
<1>8. volume' = Target(issued) \/ (missed' /\ volume' = volume)
  <2>1. (startVolume * (task[t].total - task[t].step)) \div task[t].total = Target(issued)
    BY <1>2, <1>3, <1>6 DEF Target
  <2>2. power \in {"on", "off"}
    BY DEF RampInv, ControlInv, TypeOK
  <2>3. QED
    BY <2>1, <2>2 DEF SetVolume
<1>9. Target(issued) \in Nat /\ Target(issued)' = Target(issued)
  <2>1. issued \in 0 .. total
    BY <1>3 DEF RampInv, RampFits, StepsFit, ControlInv, TypeOK
  <2>2. QED
    BY <1>1, <1>3, <1>5, <2>1, TargetFalls DEF RampInv, Target
<1>10. volume' <= volume /\ Target(issued) <= volume'
  BY <1>6, <1>8, <1>9 DEF RampInv, ControlInv, TypeOK
<1>11. SetMethod'
  <2>1. ~missed' => volume' = Target(issued)'
    BY <1>8, <1>9
  <2>2. Target(issued)' <= volume'
    BY <1>9, <1>10
  <2>3. QED
    BY <1>7, <2>1, <2>2 DEF SetMethod
<1>12. KeyMethod'
  BY <1>1, <1>5 DEF KeyMethod
<1>13. QED
  BY <1>4, <1>10, <1>11, <1>12 DEF RampFits

\* A press that the TV has accepted: one of the presses to come is made.
LEMMA PressMade ==
  ASSUME RampInv, total > 0, NEW t \in Steps, task[t].at = "press", task[t].presses > 0,
         task' = [task EXCEPT ![t] = [task[t] EXCEPT !.presses = @ - 1]],
         UNCHANGED <<total, typical, issued>>
  PROVE  /\ Steps' = Steps
         /\ FirstOf(t) \in Owed /\ Owed' = Owed \ {FirstOf(t)}
<1> USE DEF RampInv, RampFits
<1>1. /\ t \in Tasks /\ task[t] \in Operations
      /\ task[t].presses \in Nat /\ task[t].op = "step"
  BY TaskTypes DEF Steps
<1>2. /\ task'[t] = [task[t] EXCEPT !.presses = @ - 1]
      /\ \A u \in Tasks \ {t} : /\ u \in Steps' <=> u \in Steps
                                /\ Numbers(u)' = Numbers(u)
  BY <1>1, OtherTasks
<1>3. /\ task'[t].op = "step" /\ task'[t].step = task[t].step /\ task'[t].at = "press"
      /\ task'[t].presses = task[t].presses - 1
  BY <1>1, <1>2 DEF Operations
<1>4. Steps' = Steps
  BY <1>1, <1>2, <1>3 DEF Steps
<1>5. /\ Until(task[t].step) \in Nat /\ Until(task[t].step) <= Until(issued)
      /\ FirstOf(t) \in Nat /\ FirstOf(t) > Until(task[t].step - 1)
      /\ task[t].step \in 1 .. total
      /\ issued \in 0 .. total /\ Until(issued) \in Nat
  <2>1. issued \in 0 .. total
    BY DEF StepsFit, ControlInv, TypeOK
  <2>2. QED
    BY <2>1, NumbersWithin, UntilGrows
<1>6. FirstOf(t) = Until(task[t].step) - task[t].presses + 1
  BY DEF FirstOf
<1>7. FirstOf(t) \in Numbers(t) /\ Numbers(t)' = Numbers(t) \ {FirstOf(t)}
  <2>1. Until(task[t].step)' = Until(task[t].step)
    BY <1>3 DEF Until
  <2>2. FirstOf(t)' = FirstOf(t) + 1
    BY <1>1, <1>3, <1>5, <1>6, <2>1 DEF FirstOf
  <2>3. Numbers(t) = FirstOf(t) .. Until(task[t].step)
    BY DEF Numbers
  <2>4. Numbers(t)' = FirstOf(t) + 1 .. Until(task[t].step)
    BY <1>3, <2>1, <2>2 DEF Numbers
  <2>5. FirstOf(t) <= Until(task[t].step)
    BY <1>1, <1>5, <1>6
  <2>6. QED
    BY <1>5, <2>3, <2>4, <2>5
<1>8. ASSUME NEW u \in Steps \ {t}
      PROVE  FirstOf(t) \notin Numbers(u)
  <2>1. task[u].step # task[t].step
    BY <1>8 DEF StepsFit
  <2>2. /\ task[u].step \in 1 .. total
        /\ Until(task[u].step) \in Nat
        /\ FirstOf(u) \in Nat /\ FirstOf(u) > Until(task[u].step - 1)
        /\ Until(task[u].step - 1) \in Nat
    BY <1>8, NumbersWithin
  <2>3. total \in Nat
    BY DEF ControlInv, TypeOK
  <2>4. CASE task[u].step < task[t].step
    <3>1. task[u].step \in 0 .. total /\ task[t].step - 1 \in 0 .. total
      BY <1>5, <2>2, <2>3
    <3>2. task[u].step <= task[t].step - 1
      BY <1>5, <2>2, <2>4
    <3>3. /\ Until(task[u].step) <= Until(task[t].step - 1)
          /\ Until(task[t].step - 1) \in Nat
      BY <3>1, <3>2, UntilGrows
    <3>4. QED
      BY <1>5, <2>2, <3>3 DEF Numbers
  <2>5. CASE task[u].step > task[t].step
    <3>1. task[t].step \in 0 .. total /\ task[u].step - 1 \in 0 .. total
      BY <1>5, <2>2, <2>3
    <3>2. task[t].step <= task[u].step - 1
      BY <1>5, <2>2, <2>5
    <3>3. Until(task[t].step) <= Until(task[u].step - 1)
      BY <3>1, <3>2, UntilGrows
    <3>4. FirstOf(t) <= Until(task[t].step)
      BY <1>1, <1>5, <1>6
    <3>5. QED
      BY <1>5, <2>2, <3>3, <3>4 DEF Numbers
  <2>6. QED
    BY <1>5, <2>1, <2>2, <2>4, <2>5
<1>9. FirstOf(t) \notin Unissued /\ Unissued' = Unissued
  <2>1. FirstOf(t) <= Until(issued)
    BY <1>1, <1>5, <1>6
  <2>2. QED
    BY <1>5, <2>1 DEF Unissued, Until
<1>10. InHand' = InHand \ {FirstOf(t)}
  <2>1. \A u \in Steps : Numbers(u)' = Numbers(u) \ {FirstOf(t)}
    BY <1>2, <1>7, <1>8 DEF Steps
  <2>2. QED
    BY <1>4, <2>1 DEF InHand
<1>11. FirstOf(t) \in InHand
  BY <1>7 DEF InHand
<1>12. QED
  BY <1>4, <1>9, <1>10, <1>11 DEF Owed

\* One press of KEY_VOLDOWN: it is missed, or the volume and the presses to come go
\* down together.
LEMMA PressRampInv ==
  ASSUME RampInv, NEW t \in Tasks, Press(t)
  PROVE  RampFits' /\ volume' <= volume
<1>1. /\ task[t].at = "press" /\ task[t].presses > 0
      /\ startVolume' = startVolume /\ total' = total /\ typical' = typical
      /\ issued' = issued /\ ramping' = ramping /\ finished' = finished
  BY DEF Press
<1>2. /\ t \in Steps /\ Begun(t) /\ task[t] \in Operations
      /\ volume \in Nat /\ task[t].presses \in Nat
  BY <1>1, TaskTypes DEF RampInv, ControlInv, TypeOK, LockFits, Steps, Begun
<1>3. total \in Nat /\ total > 0
  <2>1. task[t].step >= 1 /\ task[t].step <= task[t].total /\ task[t].total = total
    BY <1>1, <1>2 DEF RampInv, RampFits, TotalsFit, ControlInv, LockFits, StepFits
  <2>2. QED
    BY <2>1, TaskTypes DEF RampInv
<1>4. Started /\ startVolume = Unread
  BY <1>1, <1>2, <1>3, StartedByStep DEF RampInv, RampFits, SetMethod
<1>5. SetMethod'
  BY <1>1, <1>4 DEF SetMethod
<1>6. CASE missed' = TRUE /\ Return(t) /\ UNCHANGED volume
  <2>1. KeyMethod'
    BY <1>6 DEF KeyMethod
  <2>2. TotalsFit' /\ StepsFit'
    BY <1>1, <1>2, <1>3, <1>6, EndedInv
  <2>3. QED
    BY <1>2, <1>5, <1>6, <2>1, <2>2 DEF RampFits
<1>7. ASSUME NEW sent \in Answers,
             volume' = IF sent /\ power = "on" /\ volume > 0 THEN volume - 1 ELSE volume,
             missed' = (missed \/ ~sent \/ power = "off"),
             task' = [task EXCEPT ![t].presses = @ - 1]
      PROVE  RampFits' /\ volume' <= volume
  <2>1. task' = [task EXCEPT ![t] = [task[t] EXCEPT !.presses = @ - 1]]
    BY <1>7
  <2>2. /\ Steps' = Steps
        /\ FirstOf(t) \in Owed /\ Owed' = Owed \ {FirstOf(t)}
    BY <1>1, <1>2, <1>3, <2>1, PressMade
  <2>3. /\ task'[t] = [task[t] EXCEPT !.presses = @ - 1]
        /\ \A u \in Tasks \ {t} : task'[u] = task[u]
    BY <2>1, <1>1, OtherTasks DEF RampInv
  <2>4. ASSUME NEW u \in Steps
        PROVE  /\ task'[u].step = task[u].step /\ task'[u].total = task[u].total
               /\ task'[u].at = task[u].at /\ task'[u].presses <= task[u].presses
    <3>1. CASE u = t
      BY <1>2, <2>3, <3>1 DEF Operations
    <3>2. CASE u # t
      <4>1. u \in Tasks
        BY DEF Steps
      <4>2. task[u].presses \in Nat
        BY <4>1, TaskTypes DEF RampInv
      <4>3. QED
        BY <2>3, <3>2, <4>1, <4>2
    <3>3. QED
      BY <3>1, <3>2
  <2>5. TotalsFit'
    BY <1>1, <2>2, <2>4 DEF RampInv, RampFits, TotalsFit
  <2>6. StepsFit'
    <3>1. ASSUME NEW u \in Steps
          PROVE  task'[u].at = "press" =>
                   task'[u].presses <= Presses(task'[u].step, total')
      <4>1. u \in Tasks
        BY DEF Steps
      <4>2. /\ task[u].presses \in Nat /\ task'[u].presses \in Nat
            /\ task[u].step \in 1 .. total
        <5>1. task'[u].presses \in Nat
          BY <4>1, PressInv DEF RampInv, ControlInv, TypeOK
        <5>2. QED
          BY <1>3, <4>1, <5>1, TaskTypes, NumbersWithin DEF RampInv, RampFits
      <4>3. Presses(task[u].step, total) \in Nat
        BY <1>3, <4>2, PressesType DEF RampInv, ControlInv, TypeOK
      <4>4. Presses(task'[u].step, total') = Presses(task[u].step, total)
        BY <1>1, <2>4
      <4>5. QED
        BY <1>3, <2>4, <4>2, <4>3, <4>4 DEF RampInv, RampFits, StepsFit
    <3>2. issued' <= total' /\ (ramping' => issued' < total' /\ ~finished')
      BY <1>1, <1>3 DEF RampInv, RampFits, StepsFit
    <3>3. finished' => issued' = total'
      BY <1>1, <1>3 DEF RampInv, RampFits, StepsFit
    <3>4. ASSUME NEW u \in Steps
          PROVE  /\ task'[u].step <= issued'
                 /\ task'[u].step = 1 /\ ~Begun(u)' => issued' = 1
                 /\ \A v \in Steps : task'[u].step = task'[v].step => u = v
      BY <1>1, <1>3, <2>4, <3>4 DEF RampInv, RampFits, StepsFit, Begun
    <3>5. ASSUME NEW u \in Steps
          PROVE  Presses(task'[u].step, total') = Presses(task[u].step, total)'
      BY <1>1, <2>4 DEF Presses
    <3>6. QED
      BY <2>2, <3>1, <3>2, <3>3, <3>4, <3>5 DEF StepsFit
  <2>7. KeyMethod'
    <3>1. SUFFICES ASSUME ~missed'
                   PROVE  volume' <= Cardinality(Owed)'
      BY DEF KeyMethod
    <3>2. ~missed /\ sent /\ power = "on"
      BY <1>7, <3>1 DEF RampInv, ControlInv, TypeOK
    <3>3. volume <= Cardinality(Owed)
      BY <1>3, <1>4, <3>2 DEF RampInv, RampFits, KeyMethod
    <3>4. IsFiniteSet(Owed)
      BY <1>3, OwedFinite DEF RampInv, RampFits
    <3>5. /\ Cardinality(Owed \ {FirstOf(t)}) = Cardinality(Owed) - 1
          /\ Cardinality(Owed \ {FirstOf(t)}) \in Nat
      BY <2>2, <3>4, FS_RemoveElement, FS_CardinalityType
    <3>6. Cardinality(Owed)' = Cardinality(Owed) - 1 /\ Cardinality(Owed)' \in Nat
      BY <2>2, <3>5
    <3>7. volume' = IF volume > 0 THEN volume - 1 ELSE volume
      BY <1>7, <3>2
    <3>8. Cardinality(Owed) \in Nat
      BY <3>4, FS_CardinalityType
    <3>9. QED
      BY <1>2, <3>3, <3>6, <3>7, <3>8
  <2>8. volume' <= volume
    BY <1>2, <1>7
  <2>9. QED
    BY <1>5, <2>5, <2>6, <2>7, <2>8 DEF RampFits
<1>8. QED
  BY <1>6, <1>7 DEF Press

\* A task for the next step takes over its presses.
LEMMA IssueRampInv ==
  ASSUME RampInv, NEW t \in Tasks, IssueStep(t)
  PROVE  RampFits'
<1> USE DEF RampInv, RampFits
<1>1. /\ ramping /\ task[t] = Idle /\ InTime
      /\ issued' = issued + 1 /\ ramping' = (issued' < total) /\ finished' = ~ramping'
      /\ volume' = volume /\ startVolume' = startVolume /\ missed' = missed
      /\ total' = total /\ typical' = typical
  BY DEF IssueStep
<1>2. issued \in Nat /\ total \in Nat /\ typical \in Nat
  BY DEF ControlInv, TypeOK
<1>3. /\ task'[t].op = "step" /\ task'[t].at = "new" /\ task'[t].step = issued + 1
      /\ \A u \in Tasks \ {t} : /\ task'[u] = task[u]
                                /\ Begun(u)' <=> Begun(u)
                                /\ u \in Steps' <=> u \in Steps
                                /\ Numbers(u)' = Numbers(u)
  <2>1. task' = [task EXCEPT ![t] = [task[t] EXCEPT !.op = "step", !.at = "new",
                                                    !.step = issued + 1]]
    BY DEF IssueStep
  <2>2. /\ task'[t] = [task[t] EXCEPT !.op = "step", !.at = "new", !.step = issued + 1]
        /\ \A u \in Tasks \ {t} : /\ task'[u] = task[u]
                                  /\ Begun(u)' <=> Begun(u)
                                  /\ u \in Steps' <=> u \in Steps
                                  /\ Numbers(u)' = Numbers(u)
    BY <1>1, <2>1, OtherTasks
  <2>3. task[t] \in Operations
    BY TaskTypes
  <2>4. QED
    BY <2>2, <2>3 DEF Operations
<1>4. t \notin Steps /\ Steps' = Steps \cup {t}
  BY <1>1, <1>3 DEF Steps
<1>5. TotalsFit'
  <2>1. ASSUME NEW u \in Steps
        PROVE  task'[u] = task[u]
    <3>1. u \in Tasks \ {t}
      BY <1>4 DEF Steps
    <3>2. QED
      BY <1>3, <3>1
  <2>2. QED
    BY <1>1, <1>3, <1>4, <2>1 DEF TotalsFit
<1>6. SUFFICES ASSUME total > 0
               PROVE  StepsFit' /\ SetMethod' /\ KeyMethod'
  BY <1>1, <1>5
<1>7. issued < total
  BY <1>1, <1>6 DEF StepsFit
<1>8. ASSUME NEW u \in Steps
      PROVE  /\ task'[u] = task[u] /\ u # t /\ Numbers(u)' = Numbers(u)
             /\ Begun(u)' <=> Begun(u)
             /\ task[u].step \in Nat /\ task[u].step >= 1 /\ task[u].step <= issued
  <2>1. u \in Tasks \ {t} /\ task[u].op = "step"
    BY <1>4 DEF Steps
  <2>2. task[u].step \in Nat
    BY <2>1, TaskTypes
  <2>3. task[u].step >= 1
    BY <2>1 DEF ControlInv, StepFits
  <2>4. task[u].step <= issued
    BY <1>6 DEF StepsFit
  <2>5. task'[u] = task[u] /\ Numbers(u)' = Numbers(u) /\ (Begun(u)' <=> Begun(u))
    BY <1>3, <2>1
  <2>6. QED
    BY <2>1, <2>2, <2>3, <2>4, <2>5
<1>9. ASSUME NEW u \in Steps, task[u].step = 1
      PROVE  Begun(u)
  <2>1. SUFFICES ASSUME ~Begun(u)
                 PROVE  FALSE
    OBVIOUS
  <2>2. issued = 1
    BY <1>6, <1>9, <2>1 DEF StepsFit
  <2>3. PICK v \in Steps : task[v].at = "press"
    BY <1>1 DEF InTime
  <2>4. task[v].step = 1
    BY <1>8, <2>2
  <2>5. v = u
    BY <1>6, <1>9, <2>4 DEF StepsFit
  <2>6. QED
    BY <2>1, <2>3, <2>5 DEF Begun
<1>10. StepsFit'
  <2>1. issued' <= total'
    BY <1>1, <1>2, <1>7
  <2>2. /\ ramping' => issued' < total' /\ ~finished'
        /\ finished' => issued' = total'
    <3>1. CASE issued + 1 < total
      BY <1>1, <3>1
    <3>2. CASE issued + 1 = total
      <4>1. ~(issued' < total)
        BY <1>1, <1>2, <3>2
      <4>2. QED
        BY <1>1, <3>2, <4>1
    <3>3. QED
      BY <1>2, <1>7, <3>1, <3>2
  <2>3. ASSUME NEW u \in Steps
        PROVE  Presses(task[u].step, total)' = Presses(task[u].step, total)
    BY <1>1, <1>8 DEF Presses
  <2>4. ASSUME NEW u \in Steps'
        PROVE  /\ task'[u].step <= issued'
               /\ task'[u].step = 1 /\ ~Begun(u)' => issued' = 1
               /\ task'[u].at = "press" =>
                    task'[u].presses <= Presses(task[u].step, total)'
               /\ \A v \in Steps' : task'[u].step = task'[v].step => u = v
    <3>1. CASE u = t
      <4>1. \A v \in Steps : task'[v].step < issued + 1
        BY <1>2, <1>8
      <4>2. QED
        BY <1>1, <1>2, <1>3, <1>4, <3>1, <4>1
    <3>2. CASE u # t
      <4>1. u \in Steps
        BY <1>4, <3>2
      <4>2. task'[u].step # issued + 1 /\ task'[u].step <= issued
        BY <1>2, <1>8, <4>1
      <4>3. task'[u].step = 1 => Begun(u)'
        BY <1>8, <1>9, <4>1
      <4>4. task'[u].at = "press" => task'[u].presses <= Presses(task[u].step, total)
        BY <1>6, <1>8, <4>1 DEF StepsFit
      <4>5. \A v \in Steps : task'[u].step = task'[v].step => u = v
        BY <1>6, <1>8, <4>1 DEF StepsFit
      <4>6. QED
        BY <1>1, <1>2, <1>3, <1>4, <1>8, <2>3, <4>1, <4>2, <4>3, <4>4, <4>5
    <3>3. QED
      BY <3>1, <3>2
  <2>5. QED
    BY <2>1, <2>2, <2>4 DEF StepsFit
<1>11. ASSUME Started'
       PROVE  issued > 0 /\ Started
  <2>1. issued # 0
    <3>1. SUFFICES ASSUME issued = 0
                   PROVE  FALSE
      OBVIOUS
    <3>2. task'[t].step = 1 /\ ~Begun(t)' /\ t \in Steps'
      BY <1>3, <1>4, <3>1 DEF Begun
    <3>3. QED
      BY <1>11, <3>2 DEF Started
  <2>2. QED
    BY <1>2, <1>9, <2>1 DEF Started
<1>12. SetMethod'
  <2>1. SUFFICES ASSUME Started', startVolume' # Unread
                 PROVE  /\ \A u \in Steps' : /\ task'[u].step = issued'
                                             /\ task'[u].at # "press"
                        /\ Target(issued)' <= volume'
                        /\ Steps' = {} /\ ~missed' => volume' = Target(issued)'
    BY DEF SetMethod
  <2>2. Started /\ startVolume # Unread
    BY <1>1, <1>11, <2>1
  <2>3. Target(issued) <= volume /\ \A u \in Steps : task[u].at # "press"
    BY <1>6, <2>2 DEF SetMethod
  <2>4. Steps = {}
    BY <1>1, <2>3 DEF InTime
  <2>5. Target(issued)' = Target(issued + 1)
    BY <1>1 DEF Target
  <2>6. /\ Target(issued + 1) <= Target(issued)
        /\ Target(issued) \in Nat /\ Target(issued + 1) \in Nat
    <3>1. issued \in 0 .. total /\ issued + 1 \in 0 .. total /\ issued <= issued + 1
      BY <1>2, <1>7
    <3>2. QED
      BY <1>6, <2>2, <3>1, TargetFalls
  <2>7. volume \in Nat
    BY DEF ControlInv, TypeOK
  <2>8. Target(issued)' <= volume'
    BY <1>1, <2>3, <2>5, <2>6, <2>7
  <2>9. QED
    BY <1>1, <1>3, <1>4, <2>4, <2>8
<1>13. KeyMethod'
  <2>1. ASSUME NEW n
        PROVE  Until(n)' = Until(n)
    BY <1>1 DEF Until
  <2>2. /\ Until(issued) \in Nat /\ Until(issued + 1) \in Nat /\ Until(total) \in Nat
        /\ Until(issued) <= Until(issued + 1) /\ Until(issued + 1) <= Until(total)
    <3>1. /\ issued \in 0 .. total /\ issued + 1 \in 0 .. total /\ total \in 0 .. total
          /\ issued <= issued + 1 /\ issued + 1 <= total
      BY <1>2, <1>7
    <3>2. QED
      BY <1>6, <3>1, UntilGrows
  <2>3. Numbers(t)' = Until(issued) + 1 .. Until(issued + 1)
    <3>1. (issued + 1) - 1 = issued
      BY <1>2
    <3>2. QED
      BY <1>3, <2>1, <3>1 DEF Numbers, FirstOf
  <2>4. Unissued' = Until(issued + 1) + 1 .. Until(total)
    BY <1>1, <2>1 DEF Unissued
  <2>5. Unissued = Numbers(t)' \cup Unissued'
    <3> DEFINE a == Until(issued)
               b == Until(issued + 1)
               c == Until(total)
    <3>1. a \in Nat /\ b \in Nat /\ c \in Nat /\ a <= b /\ b <= c
      BY <2>2
    <3> HIDE DEF a, b, c
    <3>2. a + 1 .. c = (a + 1 .. b) \cup (b + 1 .. c)
      BY <3>1
    <3> USE DEF a, b, c
    <3>3. QED
      BY <2>3, <2>4, <3>2 DEF Unissued
  <2>6. InHand' = InHand \cup Numbers(t)'
    BY <1>4, <1>8 DEF InHand
  <2>7. Owed' = Owed
    BY <2>5, <2>6 DEF Owed
  <2>8. SUFFICES ASSUME Started', startVolume' = Unread
                 PROVE  missed' \/ volume' <= Cardinality(Owed)'
    BY DEF KeyMethod
  <2>9. missed \/ volume <= Cardinality(Owed)
    BY <1>1, <1>6, <1>11, <2>8 DEF KeyMethod
  <2>10. QED
    BY <1>1, <2>7, <2>9
<1>14. QED
  BY <1>10, <1>12, <1>13

\* The first step reads the volume, and all the presses are to come; the others go
\* by what it read.
LEMMA BeginRampStepInv ==
  ASSUME RampInv, NEW t \in Tasks, BeginStep(t)
  PROVE  RampFits'
<1> USE DEF RampInv, RampFits
<1>1. /\ task[t].at = "step" /\ task[t].total > 0
      /\ issued' = issued /\ ramping' = ramping /\ finished' = finished
      /\ volume' = volume /\ missed' = missed /\ total' = total /\ typical' = typical
  BY DEF BeginStep
<1>2. /\ issued \in Nat /\ total \in Nat /\ typical \in Nat /\ volume \in Nat
      /\ volume <= MaxVolume
  BY DEF ControlInv, TypeOK
<1>3. /\ t \in Steps /\ task[t] \in Operations /\ ~Begun(t)
      /\ task[t].total = total /\ total > 0
  <2>1. t \in Steps
    BY <1>1 DEF ControlInv, LockFits, Steps
  <2>2. QED
    BY <1>1, <2>1, TaskTypes DEF TotalsFit, Begun
<1>4. /\ task[t].step \in 1 .. total
      /\ task[t].step <= issued /\ issued <= total
  BY <1>3, NumbersWithin DEF StepsFit
<1> DEFINE n == task[t].step
           place == IF startVolume' = Unread THEN "press" ELSE "set"
           next == [task[t] EXCEPT !.at = place, !.step = n,
                                   !.presses = Presses(n, total)]
<1>5. task' = [task EXCEPT ![t] = next]
  <2>1. ~(task[t].step > task[t].total)
    BY <1>2, <1>3, <1>4
  <2>2. QED
    BY <1>3, <2>1 DEF BeginStep
<1>6. /\ task'[t] = next
      /\ \A u \in Tasks \ {t} : /\ task'[u] = task[u]
                                /\ Begun(u)' <=> Begun(u)
                                /\ u \in Steps' <=> u \in Steps
                                /\ Numbers(u)' = Numbers(u)
  <2> HIDE DEF next
  <2>1. QED
    BY <1>1, <1>5, OtherTasks
<1>7. /\ task'[t].op = "step" /\ task'[t].step = task[t].step
      /\ task'[t].total = total /\ task'[t].presses = Presses(n, total)
      /\ task'[t].at \in {"set", "press"}
      /\ task'[t].at = "press" <=> startVolume' = Unread
      /\ Begun(t)'
  <2>1. task[t].op = "step"
    BY <1>3 DEF Steps
  <2>2. QED
    BY <1>3, <1>6, <2>1 DEF Operations, Begun
<1> HIDE DEF next
<1>8. Steps' = Steps
  BY <1>3, <1>6, <1>7 DEF Steps
<1>9. ASSUME NEW u \in Steps \ {t}
      PROVE  /\ u \in Steps /\ task'[u] = task[u]
             /\ Begun(u)' <=> Begun(u)
             /\ Numbers(u)' = Numbers(u)
  <2>1. u \in Tasks \ {t}
    BY DEF Steps
  <2>2. QED
    BY <1>6, <2>1
<1>10. TotalsFit'
  <2>1. ASSUME NEW u \in Steps, task'[u].at # "new"
        PROVE  task'[u].total = total
    <3>1. CASE u = t
      BY <1>7, <3>1
    <3>2. CASE u # t
      <4>1. u \in Steps \ {t}
        BY <3>2
      <4>2. QED
        BY <1>9, <2>1, <4>1 DEF TotalsFit
    <3>3. QED
      BY <3>1, <3>2
  <2>2. QED
    BY <1>1, <1>8, <2>1 DEF TotalsFit
<1>11. ASSUME NEW u \in Steps
       PROVE  task'[u].step = task[u].step
  <2>1. CASE u = t
    BY <1>7, <2>1
  <2>2. CASE u # t
    <3>1. u \in Steps \ {t}
      BY <2>2
    <3>2. QED
      BY <1>9, <3>1
  <2>3. QED
    BY <2>1, <2>2
<1>12. ASSUME NEW m
       PROVE  Presses(m, total)' = Presses(m, total) /\ Until(m)' = Until(m)
  BY <1>1 DEF Presses, Until
<1>13. StepsFit'
  <2>1. issued' <= total' /\ (ramping' => issued' < total' /\ ~finished')
    BY <1>1, <1>3 DEF StepsFit
  <2>2. finished' => issued' = total'
    BY <1>1, <1>3 DEF StepsFit
  <2>3. Presses(n, total) \in Nat
    BY <1>2, <1>3, <1>4, PressesType
  <2>4. ASSUME NEW u \in Steps
        PROVE  /\ task'[u].step <= issued'
               /\ task'[u].step = 1 /\ ~Begun(u)' => issued' = 1
               /\ task'[u].at = "press" =>
                    task'[u].presses <= Presses(task[u].step, total)
               /\ \A v \in Steps : task'[u].step = task'[v].step => u = v
    <3>1. CASE u = t
      BY <1>1, <1>3, <1>4, <1>7, <1>11, <2>3, <3>1 DEF StepsFit
    <3>2. CASE u # t
      <4>1. task'[u] = task[u] /\ (Begun(u)' <=> Begun(u))
        <5>1. u \in Steps \ {t}
          BY <3>2
        <5>2. QED
          BY <1>9, <5>1
      <4>2. /\ task[u].step <= issued
            /\ task[u].step = 1 /\ ~Begun(u) => issued = 1
            /\ task[u].at = "press" => task[u].presses <= Presses(task[u].step, total)
            /\ \A v \in Steps : task[u].step = task[v].step => u = v
        BY <1>3 DEF StepsFit
      <4>3. QED
        BY <1>1, <1>11, <4>1, <4>2
    <3>3. QED
      BY <3>1, <3>2
  <2>5. ASSUME NEW u \in Steps
        PROVE  Presses(task[u].step, total)' = Presses(task[u].step, total)
    BY <1>1, <1>11 DEF Presses
  <2>6. QED
    BY <1>8, <2>1, <2>2, <2>4, <2>5 DEF StepsFit
<1>14. issued \in 0 .. total /\ issued > 0
  BY <1>2, <1>4
<1>15. CASE task[t].step = 1
  <2>1. issued = 1 /\ Steps = {t}
    <3>1. issued = 1
      BY <1>3, <1>15 DEF StepsFit
    <3>2. ASSUME NEW u \in Steps
          PROVE  u = t
      BY <1>3, <1>15, <3>1, NumbersWithin DEF StepsFit
    <3>3. QED
      BY <1>3, <3>1, <3>2
  <2>2. startVolume' \in {volume, Unread}
    BY <1>15 DEF BeginStep, ReadVolumes
  <2>3. SetMethod'
    <3>1. SUFFICES ASSUME startVolume' # Unread
                   PROVE  /\ \A u \in Steps' : /\ task'[u].step = issued'
                                               /\ task'[u].at # "press"
                          /\ Target(issued)' <= volume'
                          /\ Steps' # {}
      BY DEF SetMethod
    <3>2. startVolume' = volume
      BY <2>2, <3>1
    <3>3. Target(issued)' = (volume * (total - 1)) \div total
      BY <1>1, <2>1, <3>2 DEF Target
    <3>4. (volume * (total - 1)) \div total \in 0 .. volume
      <4>1. volume \in 0 .. MaxVolume /\ 1 \in 1 .. total
        BY <1>2, <1>3
      <4>2. QED
        BY <1>2, <1>3, <4>1, TargetType
    <3>5. QED
      BY <1>1, <1>2, <1>7, <1>8, <1>15, <2>1, <3>1, <3>3, <3>4
  <2>4. KeyMethod'
    <3>1. SUFFICES ASSUME startVolume' = Unread
                   PROVE  volume' <= Cardinality(Owed)'
      BY DEF KeyMethod
    <3>2. /\ Until(0) = 0 /\ Until(total) = typical + ExtraPresses
          /\ Until(1) \in Nat /\ Until(1) <= Until(total) /\ 0 <= Until(1)
      <4>1. 0 \in 0 .. total /\ 1 \in 0 .. total /\ total \in 0 .. total /\ 1 <= total
        BY <1>2, <1>3
      <4>2. QED
        BY <1>3, <4>1, UntilGrows, UntilEnds
    <3>3. Presses(1, total) = Until(1)
      <4>1. 1 \in 1 .. total /\ 1 - 1 = 0
        BY <1>2, <1>3
      <4>2. Presses(1, total) = Until(1) - Until(1 - 1)
        BY <1>3, <4>1, PressesUntil
      <4>3. QED
        BY <3>2, <4>1, <4>2
    <3>4. Numbers(t)' = 1 .. Until(1)
      <4>1. /\ task'[t].step = 1 /\ task'[t].at = "press"
            /\ task'[t].presses = Until(1)
        BY <1>7, <1>15, <3>1, <3>3
      <4>2. Until(task[t].step)' = Until(1)
        BY <1>12, <4>1 DEF Until
      <4>3. FirstOf(t)' = 1
        BY <3>2, <4>1, <4>2 DEF FirstOf
      <4>4. QED
        BY <4>2, <4>3 DEF Numbers
    <3>5. InHand' = 1 .. Until(1)
      BY <1>8, <2>1, <3>4 DEF InHand
    <3>6. Unissued' = Until(1) + 1 .. Until(total)
      BY <1>1, <1>12, <2>1 DEF Unissued, Until
    <3>7. Owed' = 1 .. Until(total)
      BY <1>2, <3>2, <3>5, <3>6 DEF Owed
    <3>8. Until(total) \in Nat /\ MaxVolume <= Until(total)
      BY <1>2, <3>2 DEF ControlInv, TypeOK
    <3>9. Cardinality(1 .. Until(total)) >= Until(total)
      <4>1. 1 \in Int /\ Until(total) \in Int
        BY <3>8
      <4>2. Cardinality(1 .. Until(total)) =
              IF 1 > Until(total) THEN 0 ELSE Until(total) - 1 + 1
        BY <4>1, FS_Interval
      <4>3. QED
        BY <3>8, <4>2
    <3>10. Cardinality(1 .. Until(total)) \in Nat
      <4>1. 1 \in Int /\ Until(total) \in Int
        BY <3>8
      <4>2. IsFiniteSet(1 .. Until(total))
        BY <4>1, FS_Interval
      <4>3. QED
        BY <4>2, FS_CardinalityType
    <3>11. Cardinality(Owed)' = Cardinality(1 .. Until(total))
      BY <3>7
    <3>12. MaxVolume \in Nat
      OBVIOUS
    <3>13. volume' <= Cardinality(1 .. Until(total))
      BY <1>1, <1>2, <3>8, <3>9, <3>10, <3>12
    <3>14. QED
      BY <3>11, <3>13
  <2>5. QED
    BY <1>1, <1>10, <1>13, <2>3, <2>4
<1>16. CASE task[t].step # 1
  <2>1. startVolume' = startVolume
    <3>1. task[t].step > 1
      BY <1>4, <1>16
    <3>2. ~(task[t].step <= 1)
      BY <1>4, <3>1
    <3>3. QED
      BY <3>2 DEF BeginStep
  <2>2. Started' => Started
    <3>1. ASSUME NEW u \in Steps, task[u].step = 1, Begun(u)'
          PROVE  Begun(u)
      <4>1. u \in Steps \ {t}
        BY <1>16, <3>1
      <4>2. QED
        BY <1>9, <3>1, <4>1
    <3>2. QED
      BY <1>8, <1>11, <1>14, <3>1 DEF Started
  <2>3. SetMethod'
    <3>1. SUFFICES ASSUME Started, startVolume # Unread
                   PROVE  /\ \A u \in Steps' : /\ task'[u].step = issued'
                                               /\ task'[u].at # "press"
                          /\ Target(issued)' <= volume'
                          /\ Steps' # {}
      BY <2>1, <2>2 DEF SetMethod
    <3>2. /\ \A u \in Steps : task[u].step = issued /\ task[u].at # "press"
          /\ Target(issued) <= volume
      BY <1>3, <3>1 DEF SetMethod
    <3>3. Target(issued)' = Target(issued)
      BY <1>1, <2>1 DEF Target
    <3>4. ASSUME NEW u \in Steps
          PROVE  task'[u].step = issued' /\ task'[u].at # "press"
      <4>1. CASE u = t
        BY <1>1, <1>7, <1>11, <2>1, <3>1, <3>2, <4>1
      <4>2. CASE u # t
        <5>1. u \in Steps \ {t}
          BY <4>2
        <5>2. QED
          BY <1>1, <1>9, <3>2, <5>1
      <4>3. QED
        BY <4>1, <4>2
    <3>5. QED
      BY <1>1, <1>3, <1>8, <3>2, <3>3, <3>4
  <2>4. KeyMethod'
    <3>1. SUFFICES ASSUME Started, startVolume = Unread
                   PROVE  missed' \/ volume' <= Cardinality(Owed)'
      BY <2>1, <2>2 DEF KeyMethod
    <3>2. Numbers(t)' = Numbers(t)
      <4>1. task'[t].at = "press" /\ task[t].at # "press"
        BY <1>1, <1>7, <2>1, <3>1
      <4>2. Until(task[t].step)' = Until(task[t].step)
        BY <1>7, <1>12 DEF Until
      <4>3. Presses(n, total) = Until(n) - Until(n - 1)
        BY <1>3, <1>4, PressesUntil
      <4>4. Until(n) \in Nat /\ Until(n - 1) \in Nat
        BY <1>3, NumbersWithin
      <4>5. FirstOf(t)' = FirstOf(t)
        BY <1>7, <4>1, <4>2, <4>3, <4>4 DEF FirstOf
      <4>6. QED
        BY <4>2, <4>5 DEF Numbers
    <3>3. InHand' = InHand
      <4>1. ASSUME NEW u \in Steps
            PROVE  Numbers(u)' = Numbers(u)
        <5>1. CASE u = t
          BY <3>2, <5>1
        <5>2. CASE u # t
          <6>1. u \in Steps \ {t}
            BY <5>2
          <6>2. QED
            BY <1>9, <6>1
        <5>3. QED
          BY <5>1, <5>2
      <4>2. QED
        BY <1>8, <4>1 DEF InHand
    <3>4. Unissued' = Unissued
      BY <1>1 DEF Unissued, Until
    <3>5. Owed' = Owed
      BY <3>3, <3>4 DEF Owed
    <3>6. missed \/ volume <= Cardinality(Owed)
      BY <1>3, <3>1 DEF KeyMethod
    <3>7. QED
      BY <1>1, <3>5, <3>6
  <2>5. QED
    BY <1>1, <1>10, <1>13, <2>3, <2>4
<1>17. QED
  BY <1>15, <1>16

\* As long as the viewer leaves the volume and the settings alone, every step of
\* the firmware keeps the ramp's invariant.
LEMMA RampStep == RampInv /\ Undisturbed /\ [Next]_vars => RampInv'
<1> SUFFICES ASSUME RampInv, Undisturbed, [Next]_vars
             PROVE  RampFits'
  BY ControlStep DEF RampInv
<1>1. CASE UNCHANGED vars
  BY <1>1, SettledInv
<1>2. CASE BeginRamp
  BY <1>2, BeginRampInv
<1>3. CASE CancelRamp \/ \E p \in {"on", "off"} : RemotePower(p)
  BY <1>3, SettledInv
<1>4. ASSUME NEW t \in Tasks,
             IssueStep(t) \/ IssuePowerOff(t) \/ Acquire(t) \/ TaskStep(t)
      PROVE  RampFits'
  <2>1. CASE IssueStep(t)
    BY <2>1, IssueRampInv
  <2>2. CASE IssuePowerOff(t) \/ Enter(t) \/ Acquire(t) \/ Query(t) \/ Key(t)
    BY <2>2, FramedInv
  <2>3. CASE SkipStep(t)
    BY <2>3, SkipRampInv
  <2>4. CASE BeginStep(t)
    BY <2>4, BeginRampStepInv
  <2>5. CASE SetVolume(t)
    BY <2>5, SetVolumeRampInv
  <2>6. CASE Press(t)
    BY <2>6, PressRampInv
  <2>7. CASE Pressed(t)
    BY <2>7, PressedRampInv
  <2>8. QED
    BY <1>4, <2>1, <2>2, <2>3, <2>4, <2>5, <2>6, <2>7 DEF TaskStep
<1>5. ~RemoteVolume /\ ~ChangeSettings
  BY DEF Undisturbed, RemoteVolume, ChangeSettings
<1>6. QED
  BY <1>1, <1>2, <1>3, <1>4, <1>5 DEF Next

\* Before the first ramp nothing is owed.
LEMMA RampInit == Init => RampInv
<1> SUFFICES ASSUME Init
             PROVE  RampFits
  BY ControlInit DEF RampInv
<1>1. /\ Steps = {} /\ issued = 0 /\ ~ramping /\ ~finished /\ total \in Nat
  BY DEF Init, Steps
<1>2. ~Started
  BY <1>1 DEF Started
<1>3. TotalsFit /\ SetMethod /\ KeyMethod
  BY <1>1, <1>2 DEF TotalsFit, SetMethod, KeyMethod
<1>4. StepsFit
  BY <1>1 DEF StepsFit
<1>5. QED
  BY <1>3, <1>4 DEF RampFits

-----------------------------------------------------------------------------
(* The theorems.                                                           *)

\* In every reachable state the types are right, and so are the rules of the
\* mutex, whatever the viewer does.
THEOREM ControlInvariance == Spec => []ControlInv
BY ControlInit, ControlStep, PTL DEF Spec

\* In every reachable state the TV, the tasks and the mutex have their types.
THEOREM TypeCorrect == Spec => []TypeOK
<1>1. ControlInv => TypeOK
  BY DEF ControlInv
<1>2. QED
  BY <1>1, ControlInvariance, PTL

\* The parts of RampInv hold in every reachable state.
THEOREM RampInvariance == Undisturbed => (Spec => []RampInv)
<1> SUFFICES ASSUME Undisturbed
             PROVE  Spec => []RampInv
  OBVIOUS
<1>1. RampInv /\ [Next]_vars => RampInv'
  BY RampStep
<1>2. QED
  BY <1>1, RampInit, PTL DEF Spec

\* No step of a ramp raises the volume, however late its task runs: a later
\* step never finds the TV below the volume that it sets.
THEOREM VolumeFalls == Undisturbed => (Spec => VolumeOnlyFalls)
<1>1. RampInv /\ [Next]_vars =>
        [\A t \in Tasks : SetVolume(t) \/ Press(t) => volume' <= volume]_vars
  BY SetVolumeRampInv, PressRampInv
<1>2. QED
  BY <1>1, RampInvariance, PTL DEF Spec, VolumeOnlyFalls

\* A ramp that has issued its steps, and made them, leaves the TV silent: the
\* volume set by the last step is 0, and the presses of all steps are as many as
\* the volume can be.  Settings that ask for no steps at all are excluded.
THEOREM Silence == Undisturbed /\ 0 \notin Totals => (Spec => []RampSilences)
<1> SUFFICES ASSUME Undisturbed, 0 \notin Totals
             PROVE  Spec => []RampSilences
  OBVIOUS
<1>1. RampInv => RampSilences
  <2> SUFFICES ASSUME RampInv, finished, Steps = {}, ~missed
               PROVE  volume = 0
    BY DEF RampSilences
  <2>1. /\ total \in Nat /\ total > 0 /\ volume \in Nat /\ ControlInv
        /\ startVolume \in Nat \cup {Unread}
    BY DEF RampInv, ControlInv, TypeOK
  <2>2. issued = total /\ SetMethod /\ KeyMethod
    BY <2>1 DEF RampInv, RampFits, StepsFit
  <2>3. Started
    BY <2>1, <2>2 DEF Started
  <2>4. CASE startVolume # Unread
    <3>1. volume = Target(total)
      BY <2>2, <2>3, <2>4 DEF SetMethod
    <3>2. QED
      BY <2>1, <2>4, <3>1, TargetEnds
  <2>5. CASE startVolume = Unread
    <3>1. volume <= Cardinality(Owed)
      BY <2>2, <2>3, <2>5 DEF KeyMethod
    <3>2. Until(total) \in Nat
      <4>1. total \in 0 .. total
        BY <2>1
      <4>2. QED
        BY <2>1, <4>1, UntilGrows
    <3>3. Owed = {}
      BY <2>2, <3>2 DEF Owed, InHand, Unissued
    <3>4. Cardinality(Owed) = 0
      BY <3>3, FS_EmptySet
    <3>5. QED
      BY <2>1, <3>1, <3>4
  <2>6. QED
    BY <2>4, <2>5
<1>2. QED
  BY <1>1, RampInvariance, PTL

\* The parts of PowerInv hold in every reachable state.
THEOREM PowerInvariance == Unattended => (Spec => []PowerInv)
<1> SUFFICES ASSUME Unattended
             PROVE  Spec => []PowerInv
  OBVIOUS
<1>1. Init => PowerInv
  BY ControlInit DEF Init, PowerInv, KeyFits
<1>2. PowerInv /\ [Next]_vars => PowerInv'
  BY PowerStep
<1>3. QED
  BY <1>1, <1>2, PTL DEF Spec

\* If nobody else switches the TV off, the firmware, whose only power key is
\* a toggle, never switches it on: the mutex keeps a second power-off out
\* between the query and the key.
THEOREM NeverOn == Unattended => (Spec => NeverTurnsOn)
<1>1. PowerInv /\ [Next]_vars =>
        [\A t \in Tasks : TaskStep(t) /\ power = "off" => power' = "off"]_vars
  BY DEF PowerInv, KeyFits, TaskStep, Enter, SkipStep, BeginStep, SetVolume, Press,
     Pressed,
     Query, Key
<1>2. QED
  BY <1>1, PowerInvariance, PTL DEF Spec, NeverTurnsOn

\* If besides every command reaches the TV, a power-off ends with the TV off.
THEOREM SwitchesOff == Unattended /\ ~Flaky => (Spec => PowerOffSwitchesOff)
<1> SUFFICES ASSUME Unattended, ~Flaky
             PROVE  Spec => PowerOffSwitchesOff
  OBVIOUS
<1>1. PowerInv /\ [Next]_vars =>
        [\A t \in Tasks : task[t].op = "off" /\ task'[t] = Idle => power' = "off"]_vars
  <2> SUFFICES ASSUME PowerInv, Next, NEW t \in Tasks,
                      task[t].op = "off", task'[t] = Idle
               PROVE  power' = "off"
    OBVIOUS
  <2>1. Query(t) \/ Key(t)
    <3>1. task[t].at \in {"new", "wait", "query", "key"} /\ task \in [Tasks -> Operations]
      BY DEF PowerInv, ControlInv, LockFits, TypeOK, Operations
    <3>2. task'[t] # task[t]
      BY <3>1
    <3>3. PICK u \in Tasks : IssueStep(u) \/ IssuePowerOff(u) \/ Acquire(u) \/ TaskStep(u)
      BY <3>2 DEF Next, BeginRamp, CancelRamp, RemoteVolume, RemotePower,
         ChangeSettings
    <3>4. u = t
      BY <3>1, <3>2, <3>3 DEF IssueStep, IssuePowerOff, Acquire, TaskStep, Enter,
         SkipStep,
         BeginStep, SetVolume, Press, Pressed, Query, Key
    <3>5. ~IssueStep(t) /\ ~IssuePowerOff(t)
      BY DEF IssueStep, IssuePowerOff
    <3>6. ASSUME Acquire(t) \/ Enter(t)
          PROVE  FALSE
      <4>1. CASE Acquire(t)
        <5>1. task' = [task EXCEPT ![t].at = IF task[t].op = "step" THEN "step"
                                                                   ELSE "query"]
          BY <4>1 DEF Acquire
        <5>2. task'[t].at \in {"step", "query"}
          BY <3>1, <5>1 DEF Operations
        <5>3. QED
          BY <5>2
      <4>2. CASE Enter(t)
        <5>1. task'[t].at = "wait"
          BY <3>1, <4>2 DEF Enter, Operations
        <5>2. QED
          BY <5>1
      <4>3. QED
        BY <3>6, <4>1, <4>2
    <3>7. QED
      BY <3>1, <3>3, <3>4, <3>5, <3>6 DEF TaskStep, SkipStep, BeginStep, SetVolume,
         Press, Pressed
  <2>2. CASE Query(t)
    <3>1. CASE power = "off"
      BY <2>2, <3>1 DEF Query
    <3>2. CASE power = "on"
      <4>1. Answers = {TRUE}
        BY <3>2 DEF Answers
      <4>2. PowerStates = {"on"}
        BY <3>2, <4>1 DEF PowerStates
      <4>3. task'[t].at = "key"
        BY <2>2, <4>2 DEF Query, PowerInv, ControlInv, TypeOK
      <4>4. QED
        BY <4>3
    <3>3. QED
      BY <3>1, <3>2 DEF PowerInv, ControlInv, TypeOK
  <2>3. CASE Key(t)
    BY <2>3 DEF Key, Answers, PowerInv, KeyFits
  <2>4. QED
    BY <2>1, <2>2, <2>3
<1>2. QED
  BY <1>1, PowerInvariance, PTL DEF Spec, PowerOffSwitchesOff

=============================================================================
