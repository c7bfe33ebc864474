------------------------------- MODULE Discovery -------------------------------
(***************************************************************************)
(* SamsungTvDiscovery: the list of devices that a scan fills and the UPnP  *)
(* sensor, the probe and the web page read.  Every POST /api/scan starts a *)
(* task that clears the list and scans; a scan already under way turns the *)
(* second task away, but only after it has cleared.                        *)
(*                                                                         *)
(* The lock covers the flag and the list, one access at a time: between    *)
(* the search for a duplicate and the entry of the new device, its         *)
(* description is fetched.  A device answers a search once per service,    *)
(* from within three seconds or never.  The IP is cut out of the location: *)
(* one without port and path, http://192.168.1.5, yields none, and nobody  *)
(* looks for a device without an IP on the list.  A packet without a       *)
(* location changes nothing and is left out.                               *)
(*                                                                         *)
(* `named` and `wiped` are history variables.  The specification's names   *)
(* differ from WifiWatchdog's: one module proves theorems about both.      *)
(***************************************************************************)
EXTENDS Naturals, Sequences

CONSTANTS
  Tasks,             \* as many discovery tasks as live at once
  Devices,           \* what answers on the network, each with an IP of its own
  Addressless,       \* those whose location yields no IP
  MaxTvs,            \* bound: an addressless device is added to a shorter list only
  NoDevice

ASSUME DiscoveryAssumption == NoDevice \notin Devices /\ Addressless \subseteq Devices

VARIABLES
  tvs,               \* _discoveredTvs
  isScanning,        \* _isScanning
  at,                \* where each task is
  newTv,             \* the device whose description a task is fetching
  named,             \* devices whose description the scan under way has fetched
  wiped              \* the list was cleared after that scan began

scans     == <<at, newTv>>
history   == <<named, wiped>>
discovery == <<tvs, isScanning, scans, history>>

DiscoveryInit ==
  /\ tvs = <<>> /\ isScanning = FALSE
  /\ at = [t \in Tasks |-> "none"] /\ newTv = [t \in Tasks |-> NoDevice]
  /\ named = {} /\ wiped = FALSE

Step(t, from, to) == at[t] = from /\ at' = [at EXCEPT ![t] = to]

-----------------------------------------------------------------------------
\* POST /api/scan
PostScan(t) ==
  /\ Step(t, "none", "clear")
  /\ UNCHANGED <<tvs, isScanning, newTv, history>>

Clear(t) ==
  /\ Step(t, "clear", "enter")
  /\ tvs' = <<>> /\ wiped' = TRUE
  /\ UNCHANGED <<isScanning, newTv, named>>

\* Mutant: a second scan is not turned away.
BeginScanAnyway(t) ==
  /\ Step(t, "enter", "listen")
  /\ isScanning' = TRUE /\ named' = {} /\ wiped' = FALSE
  /\ UNCHANGED <<tvs, newTv>>

BeginScan(t) ==
  /\ ~isScanning /\ Step(t, "enter", "listen")
  /\ isScanning' = TRUE /\ named' = {} /\ wiped' = FALSE
  /\ UNCHANGED <<tvs, newTv>>

TurnAway(t) ==
  /\ isScanning /\ Step(t, "enter", "none")
  /\ UNCHANGED <<tvs, isScanning, newTv, history>>

Listed(d) == \E i \in DOMAIN tvs : tvs[i] = d

\* A device of this IP is on the list already; an empty IP is that of none.
Duplicate(d) == d \notin Addressless /\ Listed(d)

HearAgain(t, d) ==
  /\ at[t] = "listen" /\ Duplicate(d)
  /\ UNCHANGED discovery

HearNew(t, d) ==
  /\ ~Duplicate(d) /\ Step(t, "listen", "fetch")
  /\ d \in Addressless => Len(tvs) < MaxTvs
  /\ newTv' = [newTv EXCEPT ![t] = d]
  /\ UNCHANGED <<tvs, isScanning, history>>

\* fetchDeviceMetadata, and the entry of what has a name.
Enter(t) ==
  /\ Step(t, "fetch", "listen")
  /\ tvs' = Append(tvs, newTv[t])
  /\ named' = named \cup {newTv[t]}
  /\ newTv' = [newTv EXCEPT ![t] = NoDevice]
  /\ UNCHANGED <<isScanning, wiped>>

\* No answer, or no name in it.
Unnamed(t) ==
  /\ Step(t, "fetch", "listen")
  /\ newTv' = [newTv EXCEPT ![t] = NoDevice]
  /\ UNCHANGED <<tvs, isScanning, history>>

\* Three seconds are over.
EndScan(t) ==
  /\ Step(t, "listen", "none")
  /\ isScanning' = FALSE
  /\ UNCHANGED <<tvs, newTv, history>>

ScanStep(t) ==
  \/ Clear(t) \/ BeginScan(t) \/ TurnAway(t)
  \/ (\E d \in Devices : HearAgain(t, d) \/ HearNew(t, d))
  \/ Enter(t) \/ Unnamed(t) \/ EndScan(t)

DiscoveryNext == \E t \in Tasks : PostScan(t) \/ ScanStep(t)

DiscoverySpec == DiscoveryInit /\ [][DiscoveryNext]_discovery

-----------------------------------------------------------------------------
\* UpnpSensor::read() of a sensor whose target is this device, by its IP or its name.
UpnpRead(d) == Listed(d)

Once(d) == \E i \in DOMAIN tvs : tvs[i] = d /\ \A j \in DOMAIN tvs \ {i} : tvs[j] # d

\* Whatever scans are asked for while others run, no device that has an IP is listed
\* twice, however often it answers, and every device that a scan has heard and that
\* gave a name is seen by a UPnP sensor: unless another POST has wiped the list since.
FoundOnce ==
  /\ \A i \in DOMAIN tvs : tvs[i] \notin Addressless => Once(tvs[i])
  /\ ~wiped => \A d \in named : UpnpRead(d)
=============================================================================
