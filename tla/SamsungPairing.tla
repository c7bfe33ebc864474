---------------------------- MODULE SamsungPairing ----------------------------
(***************************************************************************)
(* Pairing with a Samsung TV.  POST /api/tv/pair starts a task that opens  *)
(* the remote-control WebSocket, waits for the viewer to accept the prompt *)
(* on the TV, and stores the credentials: in the controller, in the        *)
(* configuration and in its file.  The web server's task changes other     *)
(* settings meanwhile, by way of a copy of the whole configuration, and a  *)
(* power-off in a task of its own uses whatever credentials it finds.  The *)
(* device may restart between any two steps.                               *)
(*                                                                         *)
(* A token is identified with the TV it comes from.  The MAC address that  *)
(* is stored with host and token, and only shown, is left out.             *)
(* Writing the file is one step that may fail, and may then have removed   *)
(* it; its steps, a power cut between them and the file editor are those   *)
(* of ConfigStore.                                                         *)
(***************************************************************************)
CONSTANTS
  TVs,               \* the addresses of the TVs
  PairTasks,         \* as many pairing tasks as live at once
  KeyTask,           \* the task of a power-off; opMutex_ allows one
  None               \* no host or token

ASSUME SamsungPairingAssumption == None \notin TVs /\ KeyTask \notin PairTasks

Credentials == [host : TVs \cup {None}, token : TVs \cup {None}]

Jobs == [at : {"idle", "created", "claimed", "opening", "open", "info", "store", "set",
               "save", "write", "announce", "fail", "release", "ask", "key"},
         tv : TVs \cup {None}, token : TVs \cup {None}]

VARIABLES
  live,              \* host_, token_
  state,             \* pairState_
  busy,              \* busy_
  job,               \* where each task is, and its copies
  config,            \* tv_control in ConfigManager
  flash,             \* tv_control in the configuration file
  web,               \* where the web task's request is, and what it holds of config
  before,            \* history: the credentials when the last pairing began
  unsaved,           \* history: the last save has failed
  outdated,          \* history: web holds a configuration from before the pairing
  overwritten        \* history: and it has put that in the place of the new one

stored  == <<config, flash, unsaved>>
request == <<web, outdated, overwritten>>
vars == <<live, state, busy, job, stored, request, before>>

Tasks == PairTasks \cup {KeyTask}
Idle  == [at |-> "idle", tv |-> None, token |-> None]

Unpaired == [host |-> None, token |-> None]
NoRequest == [at |-> "idle", held |-> Unpaired]

\* configure(), called by setup() with what the file holds.
Configured(c) == IF c.token = None THEN "idle" ELSE "paired"

Init ==
  /\ flash \in {c \in Credentials : c.host = c.token}
  /\ config = flash /\ live = flash /\ before = flash
  /\ state = Configured(flash)
  /\ busy = FALSE /\ unsaved = FALSE
  /\ job = [t \in Tasks |-> Idle]
  /\ web = NoRequest /\ outdated = FALSE /\ overwritten = FALSE

At(t, label) == job[t].at = label
GoTo(t, label) == job' = [job EXCEPT ![t].at = label]
Finish(t) == job' = [job EXCEPT ![t] = Idle]

-----------------------------------------------------------------------------
(* The request, and the beginning of pair().                               *)

\* Answered 409 while a pairing waits; otherwise 202, and the task begins later.
PostPair(t, tv) ==
  /\ At(t, "idle") /\ state # "waiting"
  /\ job' = [job EXCEPT ![t] = [@ EXCEPT !.at = "created", !.tv = tv]]
  /\ UNCHANGED <<live, state, busy, stored, request, before>>

\* Mutant: busy_ is tested, and set by a later statement.
ClaimUnchecked(t) ==
  /\ At(t, "created")
  /\ busy' = TRUE /\ GoTo(t, "claimed")
  /\ UNCHANGED <<live, state, stored, request, before>>

\* busy_.exchange(true): the second of two accepted requests is dropped.
Claim(t) ==
  /\ At(t, "created")
  /\ busy' = TRUE
  /\ IF busy THEN Finish(t) ELSE GoTo(t, "claimed")
  /\ UNCHANGED <<live, state, stored, request, before>>

\* Mutant: pair() keeps the new host before the TV has answered.
SetWaitingAndHost(t) ==
  /\ At(t, "claimed") /\ GoTo(t, "opening")
  /\ state' = "waiting" /\ before' = live
  /\ live' = [live EXCEPT !.host = job[t].tv]
  /\ UNCHANGED <<busy, stored, request>>

SetWaiting(t) ==
  /\ At(t, "claimed") /\ GoTo(t, "opening")
  /\ state' = "waiting" /\ before' = live
  /\ UNCHANGED <<live, busy, stored, request>>

-----------------------------------------------------------------------------
(* sendKey(): one attempt to connect, then events until one decides or the *)
(* deadline passes.  Pairing sends no token and no key.                    *)

SocketUp(t) ==
  /\ At(t, "opening") /\ GoTo(t, "open")
  /\ UNCHANGED <<live, state, busy, stored, request, before>>

\* The token an event carries, in the one place or the other: none, or the TV's.
EventTokens(tv) == {tv, None}

\* "ms.channel.connect": the viewer has accepted.
\* Events of other kinds are ignored.
Connected(t) ==
  /\ At(t, "open")
  /\ \E token \in EventTokens(job[t].tv) :
       job' = [job EXCEPT ![t] = [@ EXCEPT !.at = IF token = None THEN "fail" ELSE "info",
                                           !.token = token]]
  /\ UNCHANGED <<live, state, busy, stored, request, before>>

\* "ms.channel.unauthorized" or "ms.channel.timeOut".
Refused(t) ==
  /\ At(t, "open") /\ GoTo(t, "fail")
  /\ UNCHANGED <<live, state, busy, stored, request, before>>

\* The deadline passes, with the socket up or not.
Deadline(t) ==
  /\ At(t, "opening") \/ At(t, "open")
  /\ GoTo(t, "fail")
  /\ UNCHANGED <<live, state, busy, stored, request, before>>

-----------------------------------------------------------------------------
(* The end of pair().                                                      *)

\* The REST API is asked for the MAC; whether it answers makes no difference.
FetchDeviceInfo(t) ==
  /\ At(t, "info") /\ GoTo(t, "store")
  /\ UNCHANGED <<live, state, busy, stored, request, before>>

Store(t) ==
  /\ At(t, "store")
  /\ live' = [host |-> job[t].tv, token |-> job[t].token]
  /\ GoTo(t, "set")
  /\ UNCHANGED <<state, busy, stored, request, before>>

\* The callback of main.cpp: get, change and set ...
SetConfig(t) ==
  /\ At(t, "set") /\ GoTo(t, "save")
  /\ config' = [host |-> job[t].tv, token |-> job[t].token]
  /\ outdated' = (web.at \in {"set", "write"}) /\ overwritten' = FALSE
  /\ UNCHANGED <<live, state, busy, flash, unsaved, web, before>>

\* ... and save, which takes its text from the configuration of that moment.
SaveConfig(t) ==
  /\ At(t, "save")
  /\ job' = [job EXCEPT ![t] = [at |-> "write", tv |-> config.host,
                                token |-> config.token]]
  /\ UNCHANGED <<live, state, busy, stored, request, before>>

\* A write succeeds, or fails and may have removed the file.  Nobody looks.
Write(text) ==
  \/ flash' = text /\ unsaved' = FALSE
  \/ flash' \in {flash, Unpaired} /\ unsaved' = TRUE

WriteConfig(t) ==
  /\ At(t, "write") /\ GoTo(t, "announce")
  /\ Write([host |-> job[t].tv, token |-> job[t].token])
  /\ UNCHANGED <<live, state, busy, config, request, before>>

Announce(t) ==
  /\ At(t, "announce") /\ GoTo(t, "release")
  /\ state' = "paired"
  /\ UNCHANGED <<live, busy, stored, request, before>>

\* Mutant: a failed pairing returns without clearing busy_.
FailAndReturn(t) ==
  /\ At(t, "fail") /\ Finish(t)
  /\ state' = "failed"
  /\ UNCHANGED <<live, busy, stored, request, before>>

Fail(t) ==
  /\ At(t, "fail") /\ GoTo(t, "release")
  /\ state' = "failed"
  /\ UNCHANGED <<live, busy, stored, request, before>>

Release(t) ==
  /\ At(t, "release") /\ Finish(t)
  /\ busy' = FALSE
  /\ UNCHANGED <<live, state, stored, request, before>>

-----------------------------------------------------------------------------
(* powerOff(), with opMutex_ held: copy the credentials, ask for the power *)
(* state, send KEY_POWER.                                                  *)

CopyCredentials ==
  /\ At(KeyTask, "idle") /\ live.host # None /\ live.token # None
  /\ job' = [job EXCEPT ![KeyTask] = [@ EXCEPT !.at = "ask", !.tv = live.host,
                                               !.token = live.token]]
  /\ UNCHANGED <<live, state, busy, stored, request, before>>

\* Mutant: the token is looked up again when it is needed.
AskPowerLateToken ==
  /\ At(KeyTask, "ask")
  /\ \/ job' = [job EXCEPT ![KeyTask].at = "key", ![KeyTask].token = live.token]
     \/ Finish(KeyTask)
  /\ UNCHANGED <<live, state, busy, stored, request, before>>

AskPower ==
  /\ At(KeyTask, "ask")
  /\ GoTo(KeyTask, "key") \/ Finish(KeyTask)
  /\ UNCHANGED <<live, state, busy, stored, request, before>>

SendKey ==
  /\ At(KeyTask, "key") /\ Finish(KeyTask)
  /\ UNCHANGED <<live, state, busy, stored, request, before>>

-----------------------------------------------------------------------------
(* POST /api/behavior and POST and DELETE /api/sensors leave tv_control as *)
(* it is in the copy they take.                                            *)

GetSettings ==
  /\ web.at = "idle"
  /\ web' = [at |-> "set", held |-> config] /\ outdated' = FALSE
  /\ UNCHANGED <<live, state, busy, job, stored, overwritten, before>>

SetSettings ==
  /\ web.at = "set"
  /\ config' = web.held
  /\ web' = [web EXCEPT !.at = "save"]
  /\ overwritten' = (overwritten \/ outdated)
  /\ UNCHANGED <<live, state, busy, job, flash, unsaved, outdated, before>>

SaveSettings ==
  /\ web.at = "save"
  /\ web' = [at |-> "write", held |-> config] /\ outdated' = FALSE
  /\ UNCHANGED <<live, state, busy, job, stored, overwritten, before>>

WriteSettings ==
  /\ web.at = "write"
  /\ Write(web.held)
  /\ web' = NoRequest
  /\ outdated' = FALSE /\ overwritten' = (overwritten \/ outdated)
  /\ UNCHANGED <<live, state, busy, job, config, before>>

-----------------------------------------------------------------------------
\* A power cut, or ESP.restart() from the watchdog, the button or a request.
Restart ==
  /\ live' = flash /\ config' = flash /\ before' = flash
  /\ state' = Configured(flash)
  /\ busy' = FALSE /\ unsaved' = FALSE
  /\ job' = [t \in Tasks |-> Idle]
  /\ web' = NoRequest /\ outdated' = FALSE /\ overwritten' = FALSE
  /\ UNCHANGED flash

Socket(t) == SocketUp(t) \/ Connected(t) \/ Refused(t) \/ Deadline(t)

Pair(t) == \/ Claim(t) \/ SetWaiting(t) \/ Socket(t) \/ FetchDeviceInfo(t) \/ Store(t)
           \/ SetConfig(t) \/ SaveConfig(t) \/ WriteConfig(t)
           \/ Announce(t) \/ Fail(t) \/ Release(t)

Settings == GetSettings \/ SetSettings \/ SaveSettings \/ WriteSettings

Next ==
  \/ \E t \in PairTasks : (\E tv \in TVs : PostPair(t, tv)) \/ Pair(t)
  \/ CopyCredentials \/ AskPower \/ SendKey
  \/ Settings
  \/ Restart

Spec == Init /\ [][Next]_vars

\* A task runs on: every call it makes has a timeout.
FairSpec == Spec /\ \A t \in PairTasks : WF_vars(Pair(t))

-----------------------------------------------------------------------------
TypeOK ==
  /\ live \in Credentials /\ config \in Credentials /\ flash \in Credentials
  /\ before \in Credentials
  /\ state \in {"idle", "waiting", "paired", "failed"}
  /\ busy \in BOOLEAN /\ unsaved \in BOOLEAN
  /\ job \in [Tasks -> Jobs]
  /\ web \in [at : {"idle", "set", "save", "write"}, held : Credentials]
  /\ outdated \in BOOLEAN /\ overwritten \in BOOLEAN

\* Host and token always come from the same TV, in the controller, in memory, on
\* flash and in the hands of a power-off, whatever is paired or restarted meanwhile.
TokenFitsHost ==
  /\ \A c \in {live, config, flash} : c.host = c.token
  /\ ~At(KeyTask, "idle") => job[KeyTask].tv = job[KeyTask].token

\* What is "paired" is what the next boot will find, unless the last save failed or a
\* settings request has put the configuration back that it had read before the pairing
\* set its own, in memory or in the file.
PairedIsKept == state = "paired" /\ ~unsaved /\ ~overwritten => flash = live

\* While the TV is asked, and after it refused, the TV paired before can still be
\* switched off: a pairing that fails costs nothing.
FailureKeepsTheOldTv ==
  \/ \E t \in PairTasks : job[t].at \in {"set", "save", "write", "announce"}
  \/ state \in {"waiting", "failed"} => live = before

\* The page can always start a pairing again: neither the waiting state nor the
\* busy flag outlives the task, and the task ends.
PairingEnds == state = "waiting" \/ busy ~> state # "waiting" /\ ~busy
=============================================================================
