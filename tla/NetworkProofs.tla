--------------------------- MODULE NetworkProofs ----------------------------
(***************************************************************************)
(* The network tasks.  The watchdog of WifiWatchdog restarts the device    *)
(* neither early nor late, for any access points and any limits, and never *)
(* tells the driver to join an access point that is not ours.  The list of *)
(* Discovery has each device with an IP once, for any number of scans.     *)
(***************************************************************************)
EXTENDS WifiWatchdog, Discovery, TLAPS

-----------------------------------------------------------------------------
(* The counters of the watchdog.                                           *)

\* The counters stay below their limits, and only a configured device runs: the
\* reset button, which also leaves "run", then changes `known`.
WatchdogInv ==
  /\ failures \in 0 .. RejoinAfter - 1 /\ rejoins \in 0 .. RestartAfterRejoins
  /\ CountersAddUp
  /\ mode = "run" => known

-----------------------------------------------------------------------------
(* Arithmetic.                                                             *)

\* A product grows with its factor.
LEMMA ProductGrows ==
  ASSUME NEW a \in Nat, NEW b \in Nat, NEW c \in Nat, a <= b
  PROVE  a * c <= b * c
<1>1. PICK d \in Nat : b = a + d
  <2>1. b - a \in Nat /\ b = a + (b - a)
    OBVIOUS
  <2>2. QED
    BY <2>1
<1>2. b * c = a * c + d * c /\ d * c \in Nat /\ a * c \in Nat
  BY <1>1
<1>3. QED
  BY <1>2

\* Below the limits, the missed checks are fewer than make a restart; at both
\* limits, the next one makes it.
BelowPatience ==
  /\ silent < Patience
  /\ failures = RejoinAfter - 1 /\ rejoins = RestartAfterRejoins => silent = Patience - 1

\* What the counters say about the missed checks in a row.
LEMMA CountersBound == WatchdogInv => BelowPatience
<1> SUFFICES ASSUME WatchdogInv
             PROVE  BelowPatience
  OBVIOUS
<1> USE WifiWatchdogAssumption
<1>1. rejoins * RejoinAfter <= RestartAfterRejoins * RejoinAfter
  BY ProductGrows DEF WatchdogInv
<1>2. /\ Patience = RestartAfterRejoins * RejoinAfter + RejoinAfter
      /\ rejoins * RejoinAfter \in Nat /\ RestartAfterRejoins * RejoinAfter \in Nat
  BY DEF Patience, WatchdogInv
<1>3. silent = rejoins * RejoinAfter + failures
  BY DEF WatchdogInv, CountersAddUp
<1>4. failures \in 0 .. RejoinAfter - 1
  BY DEF WatchdogInv
<1>5. silent < Patience
  <2> HIDE DEF Patience
  <2>1. QED
    BY <1>1, <1>2, <1>3, <1>4
<1>6. QED
  BY <1>2, <1>3, <1>5 DEF BelowPatience

-----------------------------------------------------------------------------
(* The watchdog.                                                           *)

\* A device that boots has missed no check.
LEMMA WatchdogInit == Init => WatchdogInv
BY WifiWatchdogAssumption DEF Init, WatchdogInv, CountersAddUp

\* Every step keeps the invariant: tick() counts a failure, rejoins at the
\* first limit, restarts at the second, and begins anew when a ping is
\* answered.
LEMMA WatchdogStep == WatchdogInv /\ [Next]_vars => WatchdogInv'
<1> SUFFICES ASSUME WatchdogInv, [Next]_vars
             PROVE  WatchdogInv'
  OBVIOUS
<1> USE WifiWatchdogAssumption DEF WatchdogInv, CountersAddUp
<1>1. CASE Reboot
  BY <1>1 DEF Reboot
<1>2. CASE Answered
  BY <1>2 DEF Answered, network
<1>3. CASE CountFailure
  <2>1. failures + 1 \in 0 .. RejoinAfter - 1
    BY <1>3 DEF CountFailure
  <2>2. rejoins * RejoinAfter \in Nat
    OBVIOUS
  <2>3. QED
    BY <1>3, <2>1, <2>2 DEF CountFailure, network
<1>4. CASE Rejoin
  <2>1. failures = RejoinAfter - 1 /\ rejoins + 1 \in 0 .. RestartAfterRejoins
    BY <1>4 DEF Rejoin
  <2>2. (rejoins + 1) * RejoinAfter = rejoins * RejoinAfter + RejoinAfter
    OBVIOUS
  <2>3. rejoins * RejoinAfter \in Nat
    OBVIOUS
  <2>4. QED
    BY <1>4, <2>1, <2>2, <2>3 DEF Rejoin, network
<1>5. CASE UNCHANGED watchdog /\ (mode' = "run" => known')
  BY <1>5 DEF watchdog
<1>6. AutoConnect \/ OpenPortal \/ PortalDone
        => UNCHANGED watchdog /\ (mode' = "run" => known')
  BY DEF AutoConnect, OpenPortal, PortalDone, network
<1>7. Join \/ ScanAndJoin \/ Settle \/ NeverAnswered \/ UNCHANGED vars
        => UNCHANGED watchdog /\ (mode' = "run" => known')
  BY DEF Join, ScanAndJoin, Settle, NeverAnswered, vars, network
<1>8. ASSUME NEW ap \in OurAPs, NEW condition \in {"good", "deaf", "gone"},
             Fade(ap, condition)
      PROVE  UNCHANGED watchdog /\ (mode' = "run" => known')
  BY <1>8 DEF Fade
<1>9. PortalFails \/ ResetButton \/ GiveUp => Reboot
  BY DEF PortalFails, ResetButton, GiveUp, Restart
<1>10. QED
  BY <1>1, <1>2, <1>3, <1>4, <1>5, <1>6, <1>7, <1>8, <1>9 DEF Next, Setup, Check

\* The parts of WatchdogInv hold in every reachable state.
THEOREM WatchdogInvariance == Spec => []WatchdogInv
<1>1. QED
  BY WatchdogInit, WatchdogStep, PTL DEF Spec

\* A rejoin picks an access point with our SSID, or none, whatever the scan reports.
LEMMA SelectionIsOurs ==
  ASSUME NEW aps, NEW ssid \in {{}, OurAPs}, NEW failed,
         NEW pick \in SelectAccessPoint(aps, ssid, failed)
  PROVE  pick \in OurAPs \cup {None}
BY DEF SelectAccessPoint, Strongest

\* Every step keeps the types; the counters are those of WatchdogInv.
LEMMA TypeStep == TypeOK /\ WatchdogInv' /\ [Next]_vars => TypeOK'
<1> SUFFICES ASSUME TypeOK, WatchdogInv', [Next]_vars
             PROVE  TypeOK'
  OBVIOUS
<1> USE WifiWatchdogAssumption DEF TypeOK, WatchdogInv, network, radio, task, watchdog
<1>1. CASE UNCHANGED vars
  BY <1>1 DEF vars
<1>2. CASE Reboot /\ UNCHANGED air /\ settled' = settled /\ known' \in BOOLEAN
  BY <1>2 DEF Reboot
<1>3. PortalFails \/ ResetButton \/ GiveUp
        => Reboot /\ UNCHANGED air /\ settled' = settled /\ known' \in BOOLEAN
  BY DEF PortalFails, ResetButton, GiveUp, Restart
<1>4. CASE Setup \/ PortalDone
  BY <1>4 DEF Setup, AutoConnect, OpenPortal, PortalDone, Visible, Strongest
<1>5. CASE Join
  BY <1>5 DEF Join, Joinable, Visible
<1>6. CASE Settle
  BY <1>6 DEF Settle
<1>7. ASSUME NEW ap \in OurAPs, NEW condition \in {"good", "deaf", "gone"},
             Fade(ap, condition)
      PROVE  TypeOK'
  BY <1>7 DEF Fade
<1>8. CASE Answered \/ NeverAnswered \/ CountFailure \/ Rejoin
  <2>1. CASE Answered
    BY <2>1 DEF Answered
  <2>2. CASE NeverAnswered
    BY <2>2 DEF NeverAnswered, vars
  <2>3. CASE CountFailure
    BY <2>3 DEF CountFailure
  <2>4. CASE Rejoin
    BY <2>4 DEF Rejoin
  <2>5. QED
    BY <1>8, <2>1, <2>2, <2>3, <2>4
<1>9. CASE ScanAndJoin
  <2>1. PICK pick \in SelectAccessPoint(Visible \cup ForeignAPs,
                                       IF avoid = None THEN {} ELSE OurAPs, avoid) :
          target' = IF pick = None THEN Whichever ELSE pick
    BY <1>9 DEF ScanAndJoin
  <2>2. pick \in OurAPs \cup {None}
    BY <2>1, SelectionIsOurs
  <2>3. QED
    BY <1>9, <2>1, <2>2 DEF ScanAndJoin
<1>10. QED
  BY <1>1, <1>2, <1>3, <1>4, <1>5, <1>6, <1>7, <1>8, <1>9 DEF Next, Check

\* In every reachable state the counters keep their limits, and the device joins,
\* aims at and avoids access points of its own network only.
THEOREM TypeCorrect == Spec => []TypeOK
<1>1. Init => TypeOK
  <2> SUFFICES ASSUME Init
               PROVE  TypeOK
    OBVIOUS
  <2>1. failures \in 0 .. RejoinAfter - 1 /\ rejoins \in 0 .. RestartAfterRejoins
    BY WifiWatchdogAssumption DEF Init
  <2>2. QED
    BY <2>1 DEF Init, TypeOK
<1>2. QED
  BY <1>1, TypeStep, WatchdogInvariance, PTL DEF Spec

\* The two counters of tick() add up to the pings missed in a row.
THEOREM Counting == Spec => []CountersAddUp
<1>1. WatchdogInv => CountersAddUp
  BY DEF WatchdogInv
<1>2. QED
  BY <1>1, WatchdogInvariance, PTL

\* The watchdog restarts the device exactly when the pings missed in a row
\* reach (RestartAfterRejoins + 1) * RejoinAfter: an answer in between always
\* sets it back, and no outage goes on past it.
THEOREM OnTime == Spec => RestartsOnTime
<1>1. WatchdogInv /\ BelowPatience /\ BelowPatience' /\ [Next]_vars =>
        [/\ mode = "run" /\ mode' = "setup" /\ known' = known => silent = Patience - 1
         /\ silent' < Patience]_vars
  <2> SUFFICES ASSUME WatchdogInv, BelowPatience, BelowPatience', Next
               PROVE  /\ mode = "run" /\ mode' = "setup" /\ known' = known
                           => silent = Patience - 1
                      /\ silent' < Patience
    OBVIOUS
  <2>1. silent' < Patience
    BY DEF BelowPatience, Patience
  <2>2. ASSUME mode = "run", mode' = "setup", known' = known
        PROVE  silent = Patience - 1
    <3>1. GiveUp
      BY <2>2 DEF WatchdogInv, Next, Setup, AutoConnect, OpenPortal, PortalDone,
                  PortalFails, ResetButton, Join, Check, Answered, NeverAnswered,
                  CountFailure, Rejoin, ScanAndJoin, Settle, Fade, vars
    <3>2. failures = RejoinAfter - 1 /\ rejoins = RestartAfterRejoins
      BY <3>1, WifiWatchdogAssumption DEF GiveUp, WatchdogInv
    <3>3. QED
      BY <3>2 DEF BelowPatience
  <2>3. QED
    BY <2>1, <2>2
<1>2. QED
  BY <1>1, CountersBound, WatchdogInvariance, PTL DEF Spec, RestartsOnTime

-----------------------------------------------------------------------------
(* The list of devices.                                                    *)

Scanning(t) == at[t] \in {"listen", "fetch"}

TaskTypes ==
  /\ tvs \in Seq(Devices) /\ wiped \in BOOLEAN
  /\ at \in [Tasks -> {"none", "clear", "enter", "listen", "fetch"}]
  /\ newTv \in [Tasks -> Devices \cup {NoDevice}]

\* _isScanning lets one task through, although two accesses of it are apart.
OneScan ==
  \A t \in Tasks : Scanning(t) => isScanning /\ \A u \in Tasks : Scanning(u) => u = t

\* Nobody else enters the device whose description is being fetched.
FetchFits ==
  \A t \in Tasks : at[t] = "fetch" => newTv[t] \in Devices /\ ~Duplicate(newTv[t])

\* An IP is on the list once.
AllDifferent ==
  \A i, j \in DOMAIN tvs : tvs[i] = tvs[j] /\ tvs[i] \notin Addressless => i = j

NamedAreListed == ~wiped => \A d \in named : Listed(d)

ListInv == TaskTypes /\ OneScan /\ FetchFits /\ AllDifferent /\ NamedAreListed

-----------------------------------------------------------------------------
(* A list with one more.                                                   *)

\* A new entry leaves the others where they are.
LEMMA Appended ==
  ASSUME NEW d \in Devices, tvs \in Seq(Devices)
  PROVE  LET new == Append(tvs, d)
         IN  /\ new \in Seq(Devices)
             /\ DOMAIN new = DOMAIN tvs \cup {Len(tvs) + 1}
             /\ Len(tvs) + 1 \notin DOMAIN tvs
             /\ new[Len(tvs) + 1] = d
             /\ \A i \in DOMAIN tvs : new[i] = tvs[i]
OBVIOUS

-----------------------------------------------------------------------------
(* Every step keeps the invariant.                                         *)

USE DEF Step, scans, history

\* Before the first scan the list is empty.
LEMMA ListInit == DiscoveryInit => ListInv
<1> SUFFICES ASSUME DiscoveryInit
             PROVE  ListInv
  OBVIOUS
<1>1. TaskTypes
  <2>1. <<>> \in Seq(Devices)
    OBVIOUS
  <2>2. [t \in Tasks |-> "none"]
          \in [Tasks -> {"none", "clear", "enter", "listen", "fetch"}]
    OBVIOUS
  <2>3. QED
    BY <2>1, <2>2 DEF DiscoveryInit, TaskTypes
<1>2. OneScan /\ FetchFits
  BY DEF DiscoveryInit, OneScan, Scanning, FetchFits
<1>3. AllDifferent /\ NamedAreListed
  BY DEF DiscoveryInit, AllDifferent, NamedAreListed
<1>4. QED
  BY <1>1, <1>2, <1>3 DEF ListInv

\* A device is entered once its name is known: it was not listed when it
\* answered, and nobody else scans.
LEMMA EnterInv ==
  ASSUME ListInv, NEW t \in Tasks, Enter(t)
  PROVE  ListInv'
<1> DEFINE d == newTv[t]
<1>1. d \in Devices /\ ~Duplicate(d) /\ tvs \in Seq(Devices) /\ tvs' = Append(tvs, d)
  BY DEF ListInv, TaskTypes, FetchFits, Enter
<1>2. /\ tvs' \in Seq(Devices)
      /\ DOMAIN tvs' = DOMAIN tvs \cup {Len(tvs) + 1} /\ Len(tvs) + 1 \notin DOMAIN tvs
      /\ tvs'[Len(tvs) + 1] = d
      /\ \A i \in DOMAIN tvs : tvs'[i] = tvs[i]
  BY <1>1, Appended
<1>3. \A e : Listed(e)' <=> Listed(e) \/ e = d
  BY <1>2 DEF Listed
<1>4. TaskTypes'
  BY <1>2 DEF ListInv, TaskTypes, Enter
<1>5. OneScan'
  BY DEF ListInv, TaskTypes, OneScan, Scanning, Enter
<1>6. FetchFits'
  <2>1. SUFFICES ASSUME NEW u \in Tasks, at'[u] = "fetch"
                 PROVE  FALSE
    BY DEF FetchFits
  <2>2. Scanning(u) /\ Scanning(t) /\ u # t
    BY <2>1 DEF ListInv, TaskTypes, Scanning, Enter
  <2>3. QED
    BY <2>2 DEF ListInv, OneScan
<1>7. AllDifferent'
  BY <1>1, <1>2 DEF ListInv, AllDifferent, Duplicate, Listed
<1>8. NamedAreListed'
  BY <1>3 DEF ListInv, NamedAreListed, Enter
<1>9. QED
  BY <1>4, <1>5, <1>6, <1>7, <1>8 DEF ListInv

\* POST /api/scan clears the list, even while a scan goes on.
LEMMA ClearInv ==
  ASSUME ListInv, NEW t \in Tasks, Clear(t)
  PROVE  ListInv'
<1>1. tvs' = <<>> /\ \A d : ~Listed(d)' /\ ~Duplicate(d)'
  BY DEF Clear, Listed, Duplicate
<1>2. TaskTypes'
  BY <1>1 DEF ListInv, TaskTypes, Clear
<1>3. OneScan'
  BY DEF ListInv, TaskTypes, OneScan, Scanning, Clear
<1>4. FetchFits' /\ AllDifferent' /\ NamedAreListed'
  BY <1>1 DEF ListInv, TaskTypes, FetchFits, AllDifferent, NamedAreListed, Clear
<1>5. QED
  BY <1>2, <1>3, <1>4 DEF ListInv

\* The steps that leave the list alone.
LEMMA OtherInv ==
  ASSUME ListInv, NEW t \in Tasks,
         PostScan(t) \/ BeginScan(t) \/ TurnAway(t) \/ Unnamed(t) \/ EndScan(t)
           \/ \E d \in Devices : HearAgain(t, d) \/ HearNew(t, d)
  PROVE  ListInv'
<1> USE DEF PostScan, BeginScan, TurnAway, Unnamed, EndScan, HearAgain, HearNew, discovery
<1>1. tvs' = tvs /\ \A d : (Listed(d)' <=> Listed(d)) /\ (Duplicate(d)' <=> Duplicate(d))
  BY DEF Listed, Duplicate
<1>2. TaskTypes'
  BY <1>1 DEF ListInv, TaskTypes
<1>3. OneScan'
  BY DEF ListInv, TaskTypes, OneScan, Scanning
<1>4. FetchFits'
  BY <1>1 DEF ListInv, TaskTypes, FetchFits
<1>5. AllDifferent' /\ NamedAreListed'
  BY <1>1 DEF ListInv, AllDifferent, NamedAreListed
<1>6. QED
  BY <1>2, <1>3, <1>4, <1>5 DEF ListInv

\* Every step keeps the invariant.
LEMMA ListStep == ListInv /\ [DiscoveryNext]_discovery => ListInv'
<1> SUFFICES ASSUME ListInv, [DiscoveryNext]_discovery
             PROVE  ListInv'
  OBVIOUS
<1>1. CASE DiscoveryNext
  BY <1>1, EnterInv, ClearInv, OtherInv DEF DiscoveryNext, ScanStep
<1>2. CASE UNCHANGED discovery
  BY <1>2 DEF discovery, ListInv, TaskTypes, OneScan, Scanning, FetchFits, Listed,
     Duplicate,
     AllDifferent,
     NamedAreListed
<1>3. QED
  BY <1>1, <1>2

-----------------------------------------------------------------------------
(* The theorem of the list.                                                *)

\* However many scans are asked for at once, a device with an IP is in the list once,
\* and all whose name was read are, unless another request has wiped the list since.
THEOREM Found == DiscoverySpec => []FoundOnce
<1>1. ListInv => FoundOnce
  BY DEF ListInv, AllDifferent, NamedAreListed, FoundOnce, Once, UpnpRead
<1>2. QED
  BY <1>1, ListInit, ListStep, PTL DEF DiscoverySpec
=============================================================================
