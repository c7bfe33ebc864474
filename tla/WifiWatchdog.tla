----------------------------- MODULE WifiWatchdog -----------------------------
(***************************************************************************)
(* WifiSetup and its WifiWatchdog.  setup() joins the network or opens the *)
(* configuration portal; from then on a task pings the gateway every 30    *)
(* seconds, and the watchdog counts: after some failures in a row it joins *)
(* another access point, and after some such attempts it restarts.         *)
(*                                                                         *)
(* The network has several access points.  Each may be "deaf": it accepts  *)
(* the device but passes nothing.  The radio driver is modelled from how   *)
(* WifiSetup uses it: it joins what it was last told to, seconds after it  *)
(* can, and tries again when it loses the access point.                    *)
(*                                                                         *)
(* `silent` is a history variable, and `settled` is set when neither the   *)
(* access points nor the user interfere any more.                          *)
(***************************************************************************)
EXTENDS Naturals

CONSTANTS
  OurAPs,            \* the access points with our SSID
  ForeignAPs,        \* those of the neighbours
  Rssi,              \* the signal strength of each
  RejoinAfter,       \* rejoinAfter_
  RestartAfterRejoins, \* restartAfterRejoins_
  Whichever,         \* to join: whichever the driver finds
  None

APs == OurAPs \cup ForeignAPs

ASSUME WifiWatchdogAssumption ==
  /\ RejoinAfter \in Nat \ {0} /\ RestartAfterRejoins \in Nat
  /\ Rssi \in [APs -> Nat]
  /\ OurAPs \cap ForeignAPs = {} /\ {Whichever, None} \cap APs = {} /\ Whichever # None

VARIABLES
  air, settled,      \* the access points of our network: good, deaf or gone
  known,             \* the network and its password are stored
  joined,            \* the access point the device is connected to
  target,            \* what the driver was told to join
  mode,              \* "setup" in begin(), "portal" while _portalActive, "run"
  failures, rejoins, everReachable,   \* WifiWatchdog
  avoid,             \* the access point being left, while the task scans
  scanning,          \* the task is between the disconnect and the next begin
  silent             \* checks without an answer since the last one with

network  == <<air, settled, known>>
radio    == <<joined, target>>
watchdog == <<failures, rejoins, everReachable, silent>>
task     == <<avoid, scanning>>
vars == <<network, radio, mode, watchdog, task>>

\* Checks without an answer that make a restart.
Patience == RejoinAfter * (RestartAfterRejoins + 1)

Visible   == {ap \in OurAPs : air[ap] # "gone"}
Reachable == joined # None /\ air[joined] = "good"

Strongest(aps) == {ap \in aps : \A other \in aps : Rssi[other] <= Rssi[ap]}

Init ==
  /\ air \in [OurAPs -> {"good", "deaf", "gone"}] /\ settled = FALSE /\ known \in BOOLEAN
  /\ joined = None /\ target = None /\ mode = "setup"
  /\ failures = 0 /\ rejoins = 0 /\ everReachable = FALSE /\ silent = 0
  /\ avoid = None /\ scanning = FALSE

Reboot ==
  /\ joined' = None /\ target' = None /\ mode' = "setup"
  /\ failures' = 0 /\ rejoins' = 0 /\ everReachable' = FALSE /\ silent' = 0
  /\ avoid' = None /\ scanning' = FALSE

Restart == Reboot /\ UNCHANGED network

-----------------------------------------------------------------------------
(* begin(): WiFiManager joins the strongest access point, or opens the     *)
(* portal, which stays until somebody uses it.                             *)

AutoConnect ==
  /\ mode = "setup" /\ known /\ Visible # {}
  /\ joined' \in Strongest(Visible)
  /\ target' = Whichever /\ mode' = "run"
  /\ UNCHANGED <<network, watchdog, task>>

OpenPortal ==
  /\ mode = "setup" /\ (~known \/ Visible = {})
  /\ mode' = "portal"
  /\ UNCHANGED <<network, radio, watchdog, task>>

PortalDone ==
  /\ mode = "portal"
  /\ joined' \in Visible /\ target' = Whichever /\ mode' = "run"
  /\ known' = TRUE
  /\ UNCHANGED <<air, settled, watchdog, task>>

PortalFails == mode = "portal" /\ Restart

\* handleResetButton(): held for ten seconds it clears the settings.  loop() looks
\* at it, so not before begin() has returned.
ResetButton ==
  /\ mode = "run" /\ ~settled
  /\ known' = FALSE
  /\ Reboot /\ UNCHANGED <<air, settled>>

-----------------------------------------------------------------------------
(* The driver.                                                             *)

Joinable == IF target = Whichever THEN Visible ELSE {target} \cap Visible
CanJoin  == joined = None /\ Joinable # {}

Join ==
  /\ CanJoin /\ mode = "run"
  /\ joined' \in Joinable
  /\ UNCHANGED <<network, target, mode, watchdog, task>>

\* An access point breaks, comes back or goes; the device notices only if it goes.
Fade(ap, condition) ==
  /\ ~settled /\ air[ap] # condition
  /\ air' = [air EXCEPT ![ap] = condition]
  /\ joined' = IF joined = ap /\ condition = "gone" THEN None ELSE joined
  /\ UNCHANGED <<settled, known, target, mode, watchdog, task>>

Settle ==
  /\ ~settled /\ settled' = TRUE
  /\ UNCHANGED <<air, known, radio, mode, watchdog, task>>

-----------------------------------------------------------------------------
(* checkConnectivity() and WifiWatchdog::onCheck().                        *)

\* Half a minute after the last one the driver has joined what it could.
Checking == mode # "portal" /\ ~scanning /\ ~(CanJoin /\ mode = "run")

\* Mutant: an answer clears the failures, but not the rejoins.
AnsweredKeepRejoins ==
  /\ Checking /\ Reachable
  /\ everReachable' = TRUE /\ failures' = 0 /\ silent' = 0
  /\ UNCHANGED <<network, radio, mode, task, rejoins>>

Answered ==
  /\ Checking /\ Reachable
  /\ everReachable' = TRUE /\ failures' = 0 /\ rejoins' = 0 /\ silent' = 0
  /\ UNCHANGED <<network, radio, mode, task>>

\* A router that never answers is left alone.
NeverAnswered ==
  /\ Checking /\ ~Reachable /\ ~everReachable
  /\ UNCHANGED vars

Missed == Checking /\ ~Reachable /\ everReachable

CountFailure ==
  /\ Missed /\ failures + 1 < RejoinAfter
  /\ failures' = failures + 1 /\ silent' = silent + 1
  /\ UNCHANGED <<network, radio, mode, task, rejoins, everReachable>>

\* Mutant: the failures are not cleared by a rejoin.
RejoinKeepFailures ==
  /\ Missed /\ failures + 1 >= RejoinAfter
  /\ rejoins + 1 <= RestartAfterRejoins
  /\ rejoins' = rejoins + 1 /\ silent' = silent + 1
  /\ scanning' = TRUE /\ avoid' = joined
  /\ joined' = None /\ target' = None
  /\ UNCHANGED <<network, mode, failures, everReachable>>

\* Mutant: the limit is tested before the attempt is counted.
RejoinOneMore ==
  /\ Missed /\ failures + 1 >= RejoinAfter
  /\ rejoins <= RestartAfterRejoins
  /\ failures' = 0 /\ rejoins' = rejoins + 1 /\ silent' = silent + 1
  /\ scanning' = TRUE /\ avoid' = joined
  /\ joined' = None /\ target' = None
  /\ UNCHANGED <<network, mode, everReachable>>

\* Disconnect, and remember which access point failed (none, without a connection).
Rejoin ==
  /\ Missed /\ failures + 1 >= RejoinAfter
  /\ rejoins + 1 <= RestartAfterRejoins
  /\ failures' = 0 /\ rejoins' = rejoins + 1 /\ silent' = silent + 1
  /\ scanning' = TRUE /\ avoid' = joined
  /\ joined' = None /\ target' = None
  /\ UNCHANGED <<network, mode, everReachable>>

GiveUp ==
  /\ Missed /\ failures + 1 >= RejoinAfter
  /\ rejoins + 1 > RestartAfterRejoins
  /\ Restart

-----------------------------------------------------------------------------
(* selectAccessPoint(), and the rest of rejoinAvoidingCurrentAp().         *)

\* Mutant: the access point that failed is not left out.
SelectAny(aps, ssid, failed) ==
  IF aps \cap ssid = {} THEN {None} ELSE Strongest(aps \cap ssid)

\* The strongest that broadcasts our SSID, the failed one excepted, or None.  Of
\* equals the first is taken, and the scan reports them in any order.
SelectAccessPoint(aps, ssid, failed) ==
  LET candidates == (aps \cap ssid) \ {failed}
  IN  IF candidates = {} THEN {None} ELSE Strongest(candidates)

\* The scan reports what is in reach.  Without a connection the SSID read before
\* it is empty, and matches nothing.
ScanAndJoin ==
  /\ scanning
  /\ \E pick \in SelectAccessPoint(Visible \cup ForeignAPs,
                                   IF avoid = None THEN {} ELSE OurAPs, avoid) :
       target' = IF pick = None THEN Whichever ELSE pick
  /\ scanning' = FALSE /\ avoid' = None
  /\ UNCHANGED <<network, joined, mode, watchdog>>

-----------------------------------------------------------------------------
Setup == AutoConnect \/ OpenPortal
Check == Answered \/ NeverAnswered \/ CountFailure \/ Rejoin \/ GiveUp

Next ==
  \/ Setup \/ PortalDone \/ PortalFails \/ ResetButton
  \/ Join \/ Check \/ ScanAndJoin \/ Settle
  \/ \E ap \in OurAPs, condition \in {"good", "deaf", "gone"} : Fade(ap, condition)

Spec == Init /\ [][Next]_vars

\* The task checks for ever, begin() goes on, and the driver connects where it can.
FairSpec == /\ Spec
            /\ WF_vars(Setup) /\ WF_vars(Join) /\ WF_vars(Check) /\ WF_vars(ScanAndJoin)

-----------------------------------------------------------------------------
TypeOK ==
  /\ air \in [OurAPs -> {"good", "deaf", "gone"}] /\ settled \in BOOLEAN /\ known \in BOOLEAN
  /\ joined \in OurAPs \cup {None} /\ target \in OurAPs \cup {Whichever, None}
  /\ mode \in {"setup", "portal", "run"}
  /\ failures \in 0 .. RejoinAfter - 1 /\ rejoins \in 0 .. RestartAfterRejoins
  /\ everReachable \in BOOLEAN /\ scanning \in BOOLEAN /\ silent \in Nat
  /\ avoid \in OurAPs \cup {None}

\* The counters add up to the outage, through any number of rejoins.
CountersAddUp == silent = rejoins * RejoinAfter + failures

\* The watchdog restarts the device neither before nor after Patience checks in a
\* row went unanswered: one answer, at any moment of an outage, starts the count
\* again.
RestartsOnTime ==
  [][/\ mode = "run" /\ mode' = "setup" /\ known' = known => silent = Patience - 1
     /\ silent' < Patience]_vars

AtMostOneDeaf ==
  \E ap \in OurAPs : /\ \E other \in OurAPs : air[other] = "good"
                     /\ \A other \in OurAPs \ {ap} : air[other] # "deaf"

\* Once nothing changes any more, a device that has had an answer since boot finds
\* a good access point, if at most one is deaf and two rejoins are left: the first
\* may join the deaf one, when there was no connection to tell which to avoid.
Recovers ==
  settled /\ everReachable /\ AtMostOneDeaf /\ rejoins + 2 <= RestartAfterRejoins
    ~> Reachable
=============================================================================
