------------------------ MODULE SamsungPairingProofs ------------------------
(***************************************************************************)
(* The safety of SamsungPairing for any TVs and any number of pairing      *)
(* tasks.                                                                  *)
(***************************************************************************)
EXTENDS SamsungPairing, TLAPS

-----------------------------------------------------------------------------
(* The inductive invariant: what holds of a task by the place it is at.    *)

Asking == {"opening", "open", "info", "store", "fail"}
Ending == {"set", "save", "write", "announce"}

\* Between busy_.exchange(true) and busy_ = false.
Holds(t) == job[t].at \in {"claimed", "release"} \cup Asking \cup Ending

OneAtATime ==
  \A t \in PairTasks : Holds(t) => busy /\ \A u \in PairTasks : Holds(u) => u = t

KeyPlaces == job[KeyTask].at \in {"idle", "ask", "key"}

JobFits(t) ==
  job[t].at \in {"info", "store"} \cup Ending => job[t].token = job[t].tv

AskingFits(t) == job[t].at \in Asking => state = "waiting" /\ live = before

Holding(t) == [host |-> job[t].tv, token |-> job[t].token]

EndingFits(t) ==
  /\ job[t].at \in Ending => state = "waiting"
  /\ job[t].at = "set" \/ (job[t].at = "write" /\ ~overwritten) => live = Holding(t)

StateFits ==
  /\ state = "waiting" => \E t \in PairTasks : job[t].at \in Asking \cup Ending
  /\ state = "failed" => live = before

\* What the web task holds is current, or known not to be.
SettingsFit ==
  /\ web.held.host = web.held.token
  /\ web.at \in {"set", "write"} /\ ~outdated => web.held = config

\* The configuration and the file follow the controller as far as the task that
\* has changed it has got.
ConfigFits ==
  ~overwritten =>
    /\ (\A t \in PairTasks : job[t].at # "set") => config = live
    /\ ~unsaved /\ (\A t \in PairTasks : job[t].at \notin {"set", "save", "write"})
         => flash = live

PairingInv ==
  /\ TypeOK /\ OneAtATime /\ KeyPlaces /\ StateFits
  /\ \A t \in PairTasks : JobFits(t) /\ AskingFits(t) /\ EndingFits(t)
  /\ TokenFitsHost /\ SettingsFit /\ ConfigFits

USE SamsungPairingAssumption DEF At, GoTo, Finish, Idle, Unpaired, NoRequest, Tasks,
                                 Holding, stored, request

-----------------------------------------------------------------------------
\* At boot no task is pairing, whatever was configured.
LEMMA InitInv == Init => PairingInv
<1> SUFFICES ASSUME Init
             PROVE  PairingInv
  OBVIOUS
<1> USE SamsungPairingAssumption DEF Init
<1>1. TypeOK
  BY DEF TypeOK, Credentials, Jobs, Configured, Idle, Tasks
<1>2. \A t \in Tasks : job[t] = Idle
  OBVIOUS
<1>3. OneAtATime /\ KeyPlaces
  BY <1>2 DEF OneAtATime, KeyPlaces, Holds, Asking, Ending
<1>4. StateFits
  BY DEF StateFits, Configured
<1>5. \A t \in PairTasks : JobFits(t) /\ AskingFits(t) /\ EndingFits(t)
  BY <1>2 DEF JobFits, AskingFits, EndingFits, Asking, Ending
<1>6. TokenFitsHost /\ SettingsFit /\ ConfigFits
  BY <1>2 DEF TokenFitsHost, SettingsFit, ConfigFits, At, Idle, Tasks
<1>7. QED
  BY <1>1, <1>3, <1>4, <1>5, <1>6 DEF PairingInv

-----------------------------------------------------------------------------
(* Every action keeps the invariant.                                       *)

\* A POST /api/tv/pair that finds busy_ clear creates a task that holds
\* nothing yet.
LEMMA PostPairInv ==
  ASSUME PairingInv, NEW t \in PairTasks, NEW tv \in TVs, PostPair(t, tv)
  PROVE  PairingInv'
<1> DEFINE next == [job[t] EXCEPT !.at = "created", !.tv = tv]
<1>1. job' = [job EXCEPT ![t] = next]
  BY DEF PostPair
<1>2. job[t] \in Jobs /\ live \in Credentials
  BY DEF PairingInv, TypeOK
<1>3. next \in Jobs
  BY <1>2 DEF Jobs, Credentials, PostPair
<1>4. /\ next.at = "created" /\ next.tv = tv
      /\ next.token = job[t].token
  BY <1>2 DEF Jobs
<1> HIDE DEF next
<1>5. TypeOK'
  BY <1>1, <1>3 DEF PairingInv, TypeOK, PostPair
<1>6. /\ job'[t] = next
      /\ \A u \in Tasks \ {t} : job'[u] = job[u]
  BY <1>1 DEF PairingInv, TypeOK
<1>7. OneAtATime' /\ KeyPlaces'
  BY <1>4, <1>6 DEF PairingInv, OneAtATime, KeyPlaces, Holds, Asking, Ending, PostPair
<1>8. StateFits'
  BY <1>4, <1>6 DEF PairingInv, StateFits, PostPair
<1>9. \A u \in PairTasks : JobFits(u)' /\ AskingFits(u)' /\ EndingFits(u)'
  BY <1>4, <1>6 DEF PairingInv, JobFits, AskingFits, EndingFits, Asking, Ending,
     PostPair
<1>10. TokenFitsHost' /\ SettingsFit' /\ ConfigFits'
  BY <1>4, <1>6 DEF PairingInv, TokenFitsHost, SettingsFit, ConfigFits, PostPair
<1>11. QED
  BY <1>5, <1>7, <1>8, <1>9, <1>10 DEF PairingInv

\* The task that finds busy_ set ends without touching the credentials.
LEMMA ClaimRefusedInv ==
  ASSUME PairingInv, NEW t \in PairTasks, Claim(t), busy
  PROVE  PairingInv'
<1> DEFINE next == Idle
<1>1. job' = [job EXCEPT ![t] = next]
  BY DEF Claim
<1>2. job[t] \in Jobs /\ live \in Credentials
  BY DEF PairingInv, TypeOK
<1>3. next \in Jobs
  BY <1>2 DEF Jobs, Credentials, Claim
<1>4. /\ next.at = "idle" /\ next.tv = None
      /\ next.token = None
  BY <1>2 DEF Jobs
<1> HIDE DEF next
<1>5. TypeOK'
  BY <1>1, <1>3 DEF PairingInv, TypeOK, Claim
<1>6. /\ job'[t] = next
      /\ \A u \in Tasks \ {t} : job'[u] = job[u]
  BY <1>1 DEF PairingInv, TypeOK
<1>7. OneAtATime' /\ KeyPlaces'
  BY <1>4, <1>6 DEF PairingInv, OneAtATime, KeyPlaces, Holds, Asking, Ending, Claim
<1>8. StateFits'
  BY <1>4, <1>6 DEF PairingInv, StateFits, Asking, Ending, Claim
<1>9. \A u \in PairTasks : JobFits(u)' /\ AskingFits(u)' /\ EndingFits(u)'
  BY <1>4, <1>6 DEF PairingInv, JobFits, AskingFits, EndingFits, Asking, Ending, Claim
<1>10. TokenFitsHost' /\ SettingsFit' /\ ConfigFits'
  BY <1>4, <1>6 DEF PairingInv, TokenFitsHost, SettingsFit, ConfigFits, Claim
<1>11. QED
  BY <1>5, <1>7, <1>8, <1>9, <1>10 DEF PairingInv

\* busy_.exchange(true) lets one task through: no other was between it and
\* busy_ = false.
LEMMA ClaimGrantedInv ==
  ASSUME PairingInv, NEW t \in PairTasks, Claim(t), ~busy
  PROVE  PairingInv'
<1> DEFINE next == [job[t] EXCEPT !.at = "claimed"]
<1>1. job' = [job EXCEPT ![t] = next]
  BY DEF Claim
<1>2. job[t] \in Jobs /\ live \in Credentials
  BY DEF PairingInv, TypeOK
<1>3. next \in Jobs
  BY <1>2 DEF Jobs, Credentials, Claim
<1>4. /\ next.at = "claimed" /\ next.tv = job[t].tv
      /\ next.token = job[t].token
  BY <1>2 DEF Jobs
<1> HIDE DEF next
<1>5. TypeOK'
  BY <1>1, <1>3 DEF PairingInv, TypeOK, Claim
<1>6. /\ job'[t] = next
      /\ \A u \in Tasks \ {t} : job'[u] = job[u]
  BY <1>1 DEF PairingInv, TypeOK
<1>7. OneAtATime' /\ KeyPlaces'
  BY <1>4, <1>6 DEF PairingInv, OneAtATime, KeyPlaces, Holds, Claim
<1>8. StateFits'
  BY <1>4, <1>6 DEF PairingInv, StateFits, Asking, Ending, Claim
<1>9. \A u \in PairTasks : JobFits(u)' /\ AskingFits(u)' /\ EndingFits(u)'
  BY <1>4, <1>6 DEF PairingInv, JobFits, AskingFits, EndingFits, Asking, Ending, Claim
<1>10. TokenFitsHost' /\ SettingsFit' /\ ConfigFits'
  BY <1>4, <1>6 DEF PairingInv, TokenFitsHost, SettingsFit, ConfigFits, Claim
<1>11. QED
  BY <1>5, <1>7, <1>8, <1>9, <1>10 DEF PairingInv

\* The task that begins to ask remembers the credentials it may put back.
LEMMA SetWaitingInv ==
  ASSUME PairingInv, NEW t \in PairTasks, SetWaiting(t)
  PROVE  PairingInv'
<1> DEFINE next == [job[t] EXCEPT !.at = "opening"]
<1>1. job' = [job EXCEPT ![t] = next]
  BY DEF SetWaiting
<1>2. job[t] \in Jobs /\ live \in Credentials
  BY DEF PairingInv, TypeOK
<1>3. next \in Jobs
  BY <1>2 DEF Jobs, Credentials, SetWaiting
<1>4. /\ next.at = "opening" /\ next.tv = job[t].tv
      /\ next.token = job[t].token
  BY <1>2 DEF Jobs
<1> HIDE DEF next
<1>5. TypeOK'
  BY <1>1, <1>3 DEF PairingInv, TypeOK, SetWaiting
<1>6. /\ job'[t] = next
      /\ \A u \in Tasks \ {t} : job'[u] = job[u]
  BY <1>1 DEF PairingInv, TypeOK
<1>7. OneAtATime' /\ KeyPlaces'
  BY <1>4, <1>6 DEF PairingInv, OneAtATime, KeyPlaces, Holds, SetWaiting
<1>8. StateFits'
  BY <1>4, <1>6 DEF StateFits, Asking, SetWaiting
<1>9. \A u \in PairTasks : JobFits(u)' /\ AskingFits(u)' /\ EndingFits(u)'
  BY <1>4, <1>6 DEF PairingInv, JobFits, AskingFits, EndingFits, Ending, SetWaiting
<1>10. TokenFitsHost' /\ SettingsFit' /\ ConfigFits'
  BY <1>4, <1>6 DEF PairingInv, TokenFitsHost, SettingsFit, ConfigFits, SetWaiting
<1>11. QED
  BY <1>5, <1>7, <1>8, <1>9, <1>10 DEF PairingInv

\* The TV takes up the connection of a task.
LEMMA SocketUpInv ==
  ASSUME PairingInv, NEW t \in PairTasks, SocketUp(t)
  PROVE  PairingInv'
<1> DEFINE next == [job[t] EXCEPT !.at = "open"]
<1>1. job' = [job EXCEPT ![t] = next]
  BY DEF SocketUp
<1>2. job[t] \in Jobs /\ live \in Credentials
  BY DEF PairingInv, TypeOK
<1>3. next \in Jobs
  BY <1>2 DEF Jobs, Credentials, SocketUp
<1>4. /\ next.at = "open" /\ next.tv = job[t].tv
      /\ next.token = job[t].token
  BY <1>2 DEF Jobs
<1> HIDE DEF next
<1>5. TypeOK'
  BY <1>1, <1>3 DEF PairingInv, TypeOK, SocketUp
<1>6. /\ job'[t] = next
      /\ \A u \in Tasks \ {t} : job'[u] = job[u]
  BY <1>1 DEF PairingInv, TypeOK
<1>7. OneAtATime' /\ KeyPlaces'
  BY <1>4, <1>6 DEF PairingInv, OneAtATime, KeyPlaces, Holds, Asking, SocketUp
<1>8. StateFits'
  BY <1>4, <1>6 DEF PairingInv, StateFits, Asking, SocketUp
<1>9. \A u \in PairTasks : JobFits(u)' /\ AskingFits(u)' /\ EndingFits(u)'
  BY <1>4, <1>6 DEF PairingInv, JobFits, AskingFits, EndingFits, Asking, Ending,
     SocketUp
<1>10. TokenFitsHost' /\ SettingsFit' /\ ConfigFits'
  BY <1>4, <1>6 DEF PairingInv, TokenFitsHost, SettingsFit, ConfigFits, SocketUp
<1>11. QED
  BY <1>5, <1>7, <1>8, <1>9, <1>10 DEF PairingInv

\* A ms.channel.connect event: a task goes on only with a token, and it is
\* one of the TV it asks.
LEMMA ConnectedInv ==
  ASSUME PairingInv, NEW t \in PairTasks, Connected(t)
  PROVE  PairingInv'
<1> PICK new \in EventTokens(job[t].tv), place \in {"fail", "info"} :
           /\ job' = [job EXCEPT ![t] = [@ EXCEPT !.at = place, !.token = new]]
           /\ place = "info" => new # None
  BY DEF Connected
<1> DEFINE next == [job[t] EXCEPT !.at = place, !.token = new]
<1>1. job' = [job EXCEPT ![t] = next]
  BY DEF Connected
<1>2. job[t] \in Jobs /\ live \in Credentials
  BY DEF PairingInv, TypeOK
<1>3. next \in Jobs
  BY <1>2 DEF Jobs, Credentials, Connected, EventTokens
<1>4. /\ next.at = place /\ next.tv = job[t].tv
      /\ next.token = new
  BY <1>2 DEF Jobs
<1> HIDE DEF next
<1>5. TypeOK'
  BY <1>1, <1>3 DEF PairingInv, TypeOK, Connected
<1>6. /\ job'[t] = next
      /\ \A u \in Tasks \ {t} : job'[u] = job[u]
  BY <1>1 DEF PairingInv, TypeOK
<1>7. OneAtATime' /\ KeyPlaces'
  BY <1>4, <1>6 DEF PairingInv, OneAtATime, KeyPlaces, Holds, Asking, Connected
<1>8. StateFits'
  BY <1>4, <1>6 DEF PairingInv, StateFits, Asking, Connected
<1>9. \A u \in PairTasks : JobFits(u)' /\ AskingFits(u)' /\ EndingFits(u)'
  BY <1>4, <1>6 DEF PairingInv, JobFits, AskingFits, EndingFits, Asking, Ending,
     Connected, EventTokens
<1>10. TokenFitsHost' /\ SettingsFit' /\ ConfigFits'
  BY <1>4, <1>6 DEF PairingInv, TokenFitsHost, SettingsFit, ConfigFits, Connected
<1>11. QED
  BY <1>5, <1>7, <1>8, <1>9, <1>10 DEF PairingInv

\* The TV refuses or does not answer in time: the task is still the one that
\* waits, on the old credentials.
LEMMA NotConnectedInv ==
  ASSUME PairingInv, NEW t \in PairTasks, Refused(t) \/ Deadline(t)
  PROVE  PairingInv'
<1> DEFINE next == [job[t] EXCEPT !.at = "fail"]
<1>1. job' = [job EXCEPT ![t] = next]
  BY DEF Refused, Deadline
<1>2. job[t] \in Jobs /\ live \in Credentials
  BY DEF PairingInv, TypeOK
<1>3. next \in Jobs
  BY <1>2 DEF Jobs, Credentials, Refused, Deadline
<1>4. /\ next.at = "fail" /\ next.tv = job[t].tv
      /\ next.token = job[t].token
  BY <1>2 DEF Jobs
<1> HIDE DEF next
<1>5. TypeOK'
  BY <1>1, <1>3 DEF PairingInv, TypeOK, Refused, Deadline
<1>6. /\ job'[t] = next
      /\ \A u \in Tasks \ {t} : job'[u] = job[u]
  BY <1>1 DEF PairingInv, TypeOK
<1>7. OneAtATime' /\ KeyPlaces'
  BY <1>4, <1>6 DEF PairingInv, OneAtATime, KeyPlaces, Holds, Asking, Refused,
     Deadline
<1>8. StateFits'
  BY <1>4, <1>6 DEF PairingInv, StateFits, Asking, Refused, Deadline
<1>9. \A u \in PairTasks : JobFits(u)' /\ AskingFits(u)' /\ EndingFits(u)'
  BY <1>4, <1>6 DEF PairingInv, JobFits, AskingFits, EndingFits, Asking, Ending,
     Refused, Deadline
<1>10. TokenFitsHost' /\ SettingsFit' /\ ConfigFits'
  BY <1>4, <1>6 DEF PairingInv, TokenFitsHost, SettingsFit, ConfigFits, Refused,
     Deadline
<1>11. QED
  BY <1>5, <1>7, <1>8, <1>9, <1>10 DEF PairingInv

\* The device's information leaves the token and the TV of the task alone.
LEMMA FetchDeviceInfoInv ==
  ASSUME PairingInv, NEW t \in PairTasks, FetchDeviceInfo(t)
  PROVE  PairingInv'
<1> DEFINE next == [job[t] EXCEPT !.at = "store"]
<1>1. job' = [job EXCEPT ![t] = next]
  BY DEF FetchDeviceInfo, GoTo
<1>2. job[t] \in Jobs /\ live \in Credentials
  BY DEF PairingInv, TypeOK
<1>3. next \in Jobs
  BY <1>2 DEF Jobs, Credentials, FetchDeviceInfo
<1>4. /\ next.at = "store" /\ next.tv = job[t].tv
      /\ next.token = job[t].token
  BY <1>2 DEF Jobs
<1> HIDE DEF next
<1>5. TypeOK'
  BY <1>1, <1>3 DEF PairingInv, TypeOK, FetchDeviceInfo
<1>6. /\ job'[t] = next
      /\ \A u \in Tasks \ {t} : job'[u] = job[u]
  BY <1>1 DEF PairingInv, TypeOK
<1>7. OneAtATime' /\ KeyPlaces'
  BY <1>4, <1>6 DEF PairingInv, OneAtATime, KeyPlaces, Holds, Asking, FetchDeviceInfo
<1>8. StateFits'
  BY <1>4, <1>6 DEF PairingInv, StateFits, Asking, FetchDeviceInfo
<1>9. \A u \in PairTasks : JobFits(u)' /\ AskingFits(u)' /\ EndingFits(u)'
  BY <1>4, <1>6 DEF PairingInv, JobFits, AskingFits, EndingFits, Asking, Ending,
     FetchDeviceInfo
<1>10. TokenFitsHost' /\ SettingsFit' /\ ConfigFits'
  BY <1>4, <1>6 DEF PairingInv, TokenFitsHost, SettingsFit, ConfigFits, FetchDeviceInfo
<1>11. QED
  BY <1>5, <1>7, <1>8, <1>9, <1>10 DEF PairingInv

\* Storing the credentials in memory: host and token are those of the
\* task, and only this task may be waiting for a TV.
LEMMA StoreInv ==
  ASSUME PairingInv, NEW t \in PairTasks, Store(t)
  PROVE  PairingInv'
<1> DEFINE next == [job[t] EXCEPT !.at = "set"]
<1>1. job' = [job EXCEPT ![t] = next]
  BY DEF Store
<1>2. job[t] \in Jobs /\ live \in Credentials
  BY DEF PairingInv, TypeOK
<1>3. next \in Jobs
  BY <1>2 DEF Jobs, Credentials, Store
<1>4. /\ next.at = "set" /\ next.tv = job[t].tv
      /\ next.token = job[t].token
  BY <1>2 DEF Jobs
<1> HIDE DEF next
<1>5. TypeOK'
  BY <1>1, <1>3 DEF PairingInv, TypeOK, Credentials, Jobs, Store
<1>6. /\ job'[t] = next
      /\ \A u \in Tasks \ {t} : job'[u] = job[u]
  BY <1>1 DEF PairingInv, TypeOK
<1>7. OneAtATime' /\ KeyPlaces'
  BY <1>4, <1>6 DEF PairingInv, OneAtATime, KeyPlaces, Holds, Asking, Store
<1>8. StateFits'
  BY <1>4, <1>6 DEF PairingInv, StateFits, AskingFits, Asking, Ending, Store
<1>9. \A u \in PairTasks : JobFits(u)' /\ AskingFits(u)' /\ EndingFits(u)'
  BY <1>4, <1>6 DEF PairingInv, JobFits, AskingFits, EndingFits, OneAtATime, Holds,
     Asking, Ending, Store
<1>10. TokenFitsHost' /\ SettingsFit' /\ ConfigFits'
  BY <1>4, <1>6 DEF PairingInv, TokenFitsHost, SettingsFit, ConfigFits, JobFits,
     AskingFits,
     Asking, Store
<1>11. QED
  BY <1>5, <1>7, <1>8, <1>9, <1>10 DEF PairingInv

\* The configuration takes the stored credentials: nobody has changed them
\* since, as this is the only task at work.
LEMMA SetConfigInv ==
  ASSUME PairingInv, NEW t \in PairTasks, SetConfig(t)
  PROVE  PairingInv'
<1> DEFINE next == [job[t] EXCEPT !.at = "save"]
<1>1. job' = [job EXCEPT ![t] = next]
  BY DEF SetConfig
<1>2. job[t] \in Jobs /\ live \in Credentials
  BY DEF PairingInv, TypeOK
<1>3. next \in Jobs
  BY <1>2 DEF Jobs, Credentials, SetConfig
<1>4. /\ next.at = "save" /\ next.tv = job[t].tv
      /\ next.token = job[t].token
  BY <1>2 DEF Jobs
<1> HIDE DEF next
<1>5. TypeOK'
  <2>1. outdated' \in BOOLEAN
    <3>1. outdated' = (web.at \in {"set", "write"})
      BY DEF SetConfig
    <3>2. CASE web.at \in {"set", "write"}
      BY <3>1, <3>2
    <3>3. CASE web.at \notin {"set", "write"}
      BY <3>1, <3>3
    <3>4. QED
      BY <3>2, <3>3
  <2>2. config' \in Credentials
    BY <1>2 DEF SetConfig, Credentials, Jobs
  <2>3. overwritten' = FALSE /\ UNCHANGED <<live, state, busy, flash, unsaved, web, before>>
    BY DEF SetConfig
  <2>4. QED
    BY <1>1, <1>3, <2>1, <2>2, <2>3 DEF PairingInv, TypeOK
<1>6. /\ job'[t] = next
      /\ \A u \in Tasks \ {t} : job'[u] = job[u]
  BY <1>1 DEF PairingInv, TypeOK
<1>7. OneAtATime' /\ KeyPlaces'
  BY <1>4, <1>6 DEF PairingInv, OneAtATime, KeyPlaces, Holds, Ending, SetConfig
<1>8. StateFits'
  BY <1>4, <1>6 DEF PairingInv, StateFits, Ending, SetConfig
<1>9. \A u \in PairTasks : JobFits(u)' /\ AskingFits(u)' /\ EndingFits(u)'
  BY <1>4, <1>6 DEF PairingInv, JobFits, AskingFits, EndingFits, OneAtATime,
     Holds, Asking, Ending, SetConfig
<1>10. TokenFitsHost' /\ SettingsFit' /\ ConfigFits'
  BY <1>4, <1>6 DEF PairingInv, TokenFitsHost, SettingsFit, ConfigFits, EndingFits,
     Ending,
     SetConfig
<1>11. QED
  BY <1>5, <1>7, <1>8, <1>9, <1>10 DEF PairingInv

\* save() takes its text from the configuration, which is that of this task unless
\* a request has overwritten it.
LEMMA SaveConfigInv ==
  ASSUME PairingInv, NEW t \in PairTasks, SaveConfig(t)
  PROVE  PairingInv'
<1> DEFINE next == [at |-> "write", tv |-> config.host, token |-> config.token]
<1>1. job' = [job EXCEPT ![t] = next]
  BY DEF SaveConfig
<1>2. job[t] \in Jobs /\ config \in Credentials
  BY DEF PairingInv, TypeOK
<1>3. next \in Jobs
  BY <1>2 DEF Jobs, Credentials, SaveConfig
<1>4. /\ next.at = "write" /\ next.tv = config.host
      /\ next.token = config.token
  BY <1>2 DEF Jobs
<1> HIDE DEF next
<1>5. TypeOK'
  BY <1>1, <1>3 DEF PairingInv, TypeOK, SaveConfig
<1>6. /\ job'[t] = next
      /\ \A u \in Tasks \ {t} : job'[u] = job[u]
  BY <1>1 DEF PairingInv, TypeOK
<1>7. OneAtATime' /\ KeyPlaces'
  BY <1>4, <1>6 DEF PairingInv, OneAtATime, KeyPlaces, Holds, Ending, SaveConfig
<1>8. StateFits'
  BY <1>4, <1>6 DEF PairingInv, StateFits, Ending, SaveConfig
<1>9. \A u \in PairTasks : JobFits(u)' /\ AskingFits(u)' /\ EndingFits(u)'
  <2>1. ~overwritten => config = live
    BY DEF PairingInv, OneAtATime, Holds, ConfigFits, Ending, SaveConfig
  <2>2. live = [host |-> live.host, token |-> live.token]
    BY DEF PairingInv, TypeOK, Credentials
  <2>3. JobFits(t)' /\ AskingFits(t)' /\ EndingFits(t)'
    BY <1>4, <1>6, <2>1, <2>2 DEF PairingInv, JobFits, AskingFits, EndingFits,
       TokenFitsHost, Asking, Ending, SaveConfig
  <2>4. \A u \in PairTasks \ {t} : JobFits(u)' /\ AskingFits(u)' /\ EndingFits(u)'
    BY <1>6 DEF PairingInv, JobFits, AskingFits, EndingFits, SaveConfig
  <2>5. QED
    BY <2>3, <2>4
<1>10. TokenFitsHost' /\ SettingsFit' /\ ConfigFits'
  BY <1>4, <1>6 DEF PairingInv, TokenFitsHost, SettingsFit, ConfigFits, EndingFits,
     SaveConfig
<1>11. QED
  BY <1>5, <1>7, <1>8, <1>9, <1>10 DEF PairingInv

\* Writing the configuration: the file has the new TV, or the failed save is
\* remembered.
LEMMA WriteConfigInv ==
  ASSUME PairingInv, NEW t \in PairTasks, WriteConfig(t)
  PROVE  PairingInv'
<1> DEFINE next == [job[t] EXCEPT !.at = "announce"]
<1>1. job' = [job EXCEPT ![t] = next]
  BY DEF WriteConfig
<1>2. job[t] \in Jobs /\ live \in Credentials
  BY DEF PairingInv, TypeOK
<1>3. next \in Jobs
  BY <1>2 DEF Jobs, Credentials, WriteConfig
<1>4. /\ next.at = "announce" /\ next.tv = job[t].tv
      /\ next.token = job[t].token
  BY <1>2 DEF Jobs
<1> HIDE DEF next
<1>5. TypeOK'
  <2>1. flash' \in Credentials /\ unsaved' \in BOOLEAN
    <3>1. Holding(t) \in Credentials /\ Unpaired \in Credentials /\ flash \in Credentials
      BY <1>2 DEF PairingInv, TypeOK, Credentials, Jobs
    <3>2. /\ flash' \in {Holding(t), flash, Unpaired}
          /\ unsaved' \in BOOLEAN
      BY DEF Write, WriteConfig
    <3>3. QED
      BY <3>1, <3>2
  <2>2. QED
    BY <1>1, <1>3, <2>1 DEF PairingInv, TypeOK, WriteConfig
<1>6. /\ job'[t] = next
      /\ \A u \in Tasks \ {t} : job'[u] = job[u]
  BY <1>1 DEF PairingInv, TypeOK
<1>7. OneAtATime' /\ KeyPlaces'
  BY <1>4, <1>6 DEF PairingInv, OneAtATime, KeyPlaces, Holds, Ending, WriteConfig
<1>8. StateFits'
  BY <1>4, <1>6 DEF PairingInv, StateFits, Ending, WriteConfig
<1>9. \A u \in PairTasks : JobFits(u)' /\ AskingFits(u)' /\ EndingFits(u)'
  BY <1>4, <1>6 DEF PairingInv, JobFits, AskingFits, EndingFits, Asking, Ending,
     WriteConfig
<1>10. TokenFitsHost' /\ SettingsFit' /\ ConfigFits'
  BY <1>4, <1>6 DEF PairingInv, TokenFitsHost, SettingsFit, ConfigFits, JobFits,
     EndingFits, OneAtATime, Holds, Ending, Write, WriteConfig
<1>11. QED
  BY <1>5, <1>7, <1>8, <1>9, <1>10 DEF PairingInv

\* The task declares the TV paired when both the configuration and the file
\* have it.
LEMMA AnnounceInv ==
  ASSUME PairingInv, NEW t \in PairTasks, Announce(t)
  PROVE  PairingInv'
<1> DEFINE next == [job[t] EXCEPT !.at = "release"]
<1>1. job' = [job EXCEPT ![t] = next]
  BY DEF Announce
<1>2. job[t] \in Jobs /\ live \in Credentials
  BY DEF PairingInv, TypeOK
<1>3. next \in Jobs
  BY <1>2 DEF Jobs, Credentials, Announce
<1>4. /\ next.at = "release" /\ next.tv = job[t].tv
      /\ next.token = job[t].token
  BY <1>2 DEF Jobs
<1> HIDE DEF next
<1>5. TypeOK'
  BY <1>1, <1>3 DEF PairingInv, TypeOK, Announce
<1>6. /\ job'[t] = next
      /\ \A u \in Tasks \ {t} : job'[u] = job[u]
  BY <1>1 DEF PairingInv, TypeOK
<1>7. OneAtATime' /\ KeyPlaces'
  BY <1>4, <1>6 DEF PairingInv, OneAtATime, KeyPlaces, Holds, Ending, Announce
<1>8. StateFits'
  BY <1>4, <1>6 DEF StateFits, Announce
<1>9. \A u \in PairTasks : JobFits(u)' /\ AskingFits(u)' /\ EndingFits(u)'
  BY <1>4, <1>6 DEF PairingInv, JobFits, AskingFits, EndingFits, OneAtATime, Holds,
     Asking, Ending, Announce
<1>10. TokenFitsHost' /\ SettingsFit' /\ ConfigFits'
  BY <1>4, <1>6 DEF PairingInv, TokenFitsHost, SettingsFit, ConfigFits, EndingFits,
     Announce
<1>11. QED
  BY <1>5, <1>7, <1>8, <1>9, <1>10 DEF PairingInv

\* The task declares failure: the credentials are those from before it asked.
LEMMA FailInv ==
  ASSUME PairingInv, NEW t \in PairTasks, Fail(t)
  PROVE  PairingInv'
<1> DEFINE next == [job[t] EXCEPT !.at = "release"]
<1>1. job' = [job EXCEPT ![t] = next]
  BY DEF Fail
<1>2. job[t] \in Jobs /\ live \in Credentials
  BY DEF PairingInv, TypeOK
<1>3. next \in Jobs
  BY <1>2 DEF Jobs, Credentials, Fail
<1>4. /\ next.at = "release" /\ next.tv = job[t].tv
      /\ next.token = job[t].token
  BY <1>2 DEF Jobs
<1> HIDE DEF next
<1>5. TypeOK'
  BY <1>1, <1>3 DEF PairingInv, TypeOK, Fail
<1>6. /\ job'[t] = next
      /\ \A u \in Tasks \ {t} : job'[u] = job[u]
  BY <1>1 DEF PairingInv, TypeOK
<1>7. OneAtATime' /\ KeyPlaces'
  BY <1>4, <1>6 DEF PairingInv, OneAtATime, KeyPlaces, Holds, Asking, Fail
<1>8. StateFits'
  BY <1>4, <1>6 DEF PairingInv, StateFits, AskingFits, Asking, Fail
<1>9. \A u \in PairTasks : JobFits(u)' /\ AskingFits(u)' /\ EndingFits(u)'
  BY <1>4, <1>6 DEF PairingInv, JobFits, AskingFits, EndingFits, OneAtATime, Holds,
     Asking, Ending, Fail
<1>10. TokenFitsHost' /\ SettingsFit' /\ ConfigFits'
  BY <1>4, <1>6 DEF PairingInv, TokenFitsHost, SettingsFit, ConfigFits, Fail
<1>11. QED
  BY <1>5, <1>7, <1>8, <1>9, <1>10 DEF PairingInv

\* busy_ is cleared by the only task that was between setting and clearing
\* it.
LEMMA ReleaseInv ==
  ASSUME PairingInv, NEW t \in PairTasks, Release(t)
  PROVE  PairingInv'
<1> DEFINE next == Idle
<1>1. job' = [job EXCEPT ![t] = next]
  BY DEF Release
<1>2. job[t] \in Jobs /\ live \in Credentials
  BY DEF PairingInv, TypeOK
<1>3. next \in Jobs
  BY <1>2 DEF Jobs, Credentials, Release
<1>4. /\ next.at = "idle" /\ next.tv = None
      /\ next.token = None
  BY <1>2 DEF Jobs
<1> HIDE DEF next
<1>5. TypeOK'
  BY <1>1, <1>3 DEF PairingInv, TypeOK, Release
<1>6. /\ job'[t] = next
      /\ \A u \in Tasks \ {t} : job'[u] = job[u]
  BY <1>1 DEF PairingInv, TypeOK
<1>7. OneAtATime' /\ KeyPlaces'
  BY <1>4, <1>6 DEF PairingInv, OneAtATime, KeyPlaces, Holds, Asking, Ending, Release
<1>8. StateFits'
  BY <1>4, <1>6 DEF PairingInv, StateFits, Asking, Ending, Release
<1>9. \A u \in PairTasks : JobFits(u)' /\ AskingFits(u)' /\ EndingFits(u)'
  BY <1>4, <1>6 DEF PairingInv, JobFits, AskingFits, EndingFits, Asking, Ending,
     Release
<1>10. TokenFitsHost' /\ SettingsFit' /\ ConfigFits'
  BY <1>4, <1>6 DEF PairingInv, TokenFitsHost, SettingsFit, ConfigFits, Release
<1>11. QED
  BY <1>5, <1>7, <1>8, <1>9, <1>10 DEF PairingInv

\* A power-off copies the credentials: whatever pairing does later, its token
\* is one of its host.
LEMMA CopyCredentialsInv ==
  ASSUME PairingInv, CopyCredentials
  PROVE  PairingInv'
<1> DEFINE next == [job[KeyTask] EXCEPT !.at = "ask", !.tv = live.host,
                                        !.token = live.token]
<1>1. job' = [job EXCEPT ![KeyTask] = next]
  BY DEF CopyCredentials
<1>2. job[KeyTask] \in Jobs /\ live \in Credentials
  BY DEF PairingInv, TypeOK
<1>3. next \in Jobs
  BY <1>2 DEF Jobs, Credentials, CopyCredentials
<1>4. /\ next.at = "ask" /\ next.tv = live.host
      /\ next.token = live.token
  BY <1>2 DEF Jobs
<1> HIDE DEF next
<1>5. TypeOK'
  BY <1>1, <1>3 DEF PairingInv, TypeOK, CopyCredentials
<1>6. /\ job'[KeyTask] = next
      /\ \A u \in Tasks \ {KeyTask} : job'[u] = job[u]
  BY <1>1 DEF PairingInv, TypeOK
<1>7. OneAtATime' /\ KeyPlaces'
  BY <1>4, <1>6 DEF PairingInv, OneAtATime, KeyPlaces, Holds, CopyCredentials
<1>8. StateFits'
  BY <1>4, <1>6 DEF PairingInv, StateFits, CopyCredentials
<1>9. \A u \in PairTasks : JobFits(u)' /\ AskingFits(u)' /\ EndingFits(u)'
  BY <1>4, <1>6 DEF PairingInv, JobFits, AskingFits, EndingFits, CopyCredentials
<1>10. TokenFitsHost' /\ SettingsFit' /\ ConfigFits'
  BY <1>4, <1>6 DEF PairingInv, TokenFitsHost, SettingsFit, ConfigFits,
     CopyCredentials
<1>11. QED
  BY <1>5, <1>7, <1>8, <1>9, <1>10 DEF PairingInv

\* What a power-off does with its copies leaves all that pairing works on alone.
LEMMA KeyTaskInv ==
  ASSUME PairingInv, AskPower \/ SendKey
  PROVE  PairingInv'
<1>1. job[KeyTask] \in Jobs
  BY DEF PairingInv, TypeOK
<1>2. UNCHANGED <<live, state, busy, stored, request, before>>
  BY DEF AskPower, SendKey
<1>3. PICK next \in Jobs :
         /\ job' = [job EXCEPT ![KeyTask] = next]
         /\ next.at \in {"key", "idle"}
         /\ next.at # "idle" => /\ next.tv = job[KeyTask].tv
                                /\ next.token = job[KeyTask].token
  <2>1. PICK next \in {[job[KeyTask] EXCEPT !.at = "key"], Idle} :
           job' = [job EXCEPT ![KeyTask] = next]
    BY DEF AskPower, SendKey
  <2>2. /\ next \in Jobs /\ next.at \in {"key", "idle"}
        /\ next.at # "idle" => /\ next.tv = job[KeyTask].tv
                               /\ next.token = job[KeyTask].token
    BY <1>1 DEF Jobs
  <2>3. QED
    BY <2>1, <2>2
<1>4. ~At(KeyTask, "idle")
  BY DEF AskPower, SendKey
<1>5. TypeOK'
  BY <1>2, <1>3 DEF PairingInv, TypeOK
<1>6. /\ job'[KeyTask] = next
      /\ \A u \in PairTasks : job'[u] = job[u]
  BY <1>3 DEF PairingInv, TypeOK
<1>7. OneAtATime' /\ KeyPlaces'
  BY <1>2, <1>3, <1>6 DEF PairingInv, OneAtATime, KeyPlaces, Holds
<1>8. StateFits'
  BY <1>2, <1>6 DEF PairingInv, StateFits, Asking, Ending
<1>9. \A u \in PairTasks : JobFits(u)' /\ AskingFits(u)' /\ EndingFits(u)'
  BY <1>2, <1>6 DEF PairingInv, JobFits, AskingFits, EndingFits
<1>10. TokenFitsHost' /\ SettingsFit' /\ ConfigFits'
  BY <1>2, <1>3, <1>4, <1>6 DEF PairingInv, TokenFitsHost, SettingsFit, ConfigFits
<1>11. QED
  BY <1>5, <1>7, <1>8, <1>9, <1>10 DEF PairingInv

\* A settings request changes the configuration and the file only: with what is
\* current, or it is known to have overwritten it.
LEMMA SettingsInv ==
  ASSUME PairingInv, Settings
  PROVE  PairingInv'
<1> USE DEF Settings, GetSettings, SetSettings, SaveSettings, WriteSettings, Write
<1>1. UNCHANGED <<live, state, busy, job, before>>
  OBVIOUS
<1>2. overwritten' \in BOOLEAN
  BY Zenon DEF PairingInv, TypeOK
<1>3. ~overwritten' => ~overwritten /\ (outdated /\ web.at \in {"set", "write"} => FALSE)
  BY Zenon
<1>4. TypeOK'
  <2>1. unsaved' \in BOOLEAN /\ outdated' \in BOOLEAN
    BY DEF PairingInv, TypeOK
  <2>2. config' \in Credentials /\ flash' \in Credentials
    BY DEF PairingInv, TypeOK, Credentials
  <2>3. web' \in [at : {"idle", "set", "save", "write"}, held : Credentials]
    BY DEF PairingInv, TypeOK, Credentials
  <2>4. QED
    BY <1>1, <1>2, <2>1, <2>2, <2>3 DEF PairingInv, TypeOK
<1>5. OneAtATime' /\ KeyPlaces' /\ StateFits'
  BY <1>1 DEF PairingInv, OneAtATime, KeyPlaces, StateFits, Holds
<1>6. \A u \in PairTasks : JobFits(u)' /\ AskingFits(u)' /\ EndingFits(u)'
  BY <1>1, <1>3 DEF PairingInv, JobFits, AskingFits, EndingFits
<1>7. TokenFitsHost'
  BY <1>1 DEF PairingInv, TokenFitsHost, SettingsFit
<1>8. SettingsFit'
  BY <1>1 DEF PairingInv, TypeOK, TokenFitsHost, SettingsFit
<1>9. ConfigFits'
  BY <1>1, <1>3 DEF PairingInv, SettingsFit, ConfigFits
<1>10. QED
  BY <1>4, <1>5, <1>6, <1>7, <1>8, <1>9 DEF PairingInv

\* A restart ends every task and reads the credentials from the file.
LEMMA RestartInv ==
  ASSUME PairingInv, Restart
  PROVE  PairingInv'
<1> USE DEF Restart
<1>1. TypeOK'
  BY DEF PairingInv, TypeOK, Credentials, Jobs, Configured
<1>2. \A u \in Tasks : job'[u] = Idle
  OBVIOUS
<1>3. OneAtATime' /\ KeyPlaces'
  BY <1>2 DEF OneAtATime, KeyPlaces, Holds, Asking, Ending
<1>4. StateFits'
  BY DEF StateFits, Configured
<1>5. \A u \in PairTasks : JobFits(u)' /\ AskingFits(u)' /\ EndingFits(u)'
  BY <1>2 DEF JobFits, AskingFits, EndingFits, Asking, Ending
<1>6. TokenFitsHost' /\ SettingsFit' /\ ConfigFits'
  BY <1>2 DEF PairingInv, TokenFitsHost, SettingsFit, ConfigFits
<1>7. QED
  BY <1>1, <1>3, <1>4, <1>5, <1>6 DEF PairingInv

-----------------------------------------------------------------------------
(* The theorems.                                                           *)

\* Every step keeps the invariant.
LEMMA NextInv == PairingInv /\ [Next]_vars => PairingInv'
<1> SUFFICES ASSUME PairingInv, [Next]_vars
             PROVE  PairingInv'
  OBVIOUS
<1>1. ASSUME NEW t \in PairTasks, (\E tv \in TVs : PostPair(t, tv)) \/ Pair(t)
      PROVE  PairingInv'
  BY <1>1, PostPairInv, ClaimRefusedInv, ClaimGrantedInv, SetWaitingInv, SocketUpInv,
     ConnectedInv, NotConnectedInv, FetchDeviceInfoInv, StoreInv, SetConfigInv,
     SaveConfigInv, WriteConfigInv, AnnounceInv, FailInv, ReleaseInv
  DEF Pair, Socket
<1>2. CASE CopyCredentials \/ AskPower \/ SendKey \/ Settings
  BY <1>2, CopyCredentialsInv, KeyTaskInv, SettingsInv
<1>3. CASE Restart
  BY <1>3, RestartInv
<1>4. CASE UNCHANGED vars
  BY <1>4 DEF vars, PairingInv, TypeOK, OneAtATime, KeyPlaces, StateFits, JobFits,
     AskingFits, EndingFits, TokenFitsHost, SettingsFit, ConfigFits, Holds
<1>5. QED
  BY <1>1, <1>2, <1>3, <1>4 DEF Next

\* While a TV is being asked, and after a failure, the credentials are the
\* old ones.
LEMMA FailureFromInv == PairingInv => FailureKeepsTheOldTv
<1> SUFFICES ASSUME PairingInv, \A t \in PairTasks : job[t].at \notin Ending,
                    state \in {"waiting", "failed"}
             PROVE  live = before
  BY DEF FailureKeepsTheOldTv, Ending
<1>1. CASE state = "waiting"
  <2>1. PICK t \in PairTasks : job[t].at \in Asking
    BY <1>1 DEF PairingInv, StateFits
  <2>2. QED
    BY <2>1 DEF PairingInv, AskingFits
<1>2. CASE state = "failed"
  BY <1>2 DEF PairingInv, StateFits
<1>3. QED
  BY <1>1, <1>2

\* The parts of PairingInv hold in every reachable state.
THEOREM Invariance == Spec => []PairingInv
<1>1. QED
  BY InitInv, NextInv, PTL DEF Spec

\* Every variable has its type.
THEOREM TypeCorrect == Spec => []TypeOK
<1>1. PairingInv => TypeOK
  BY DEF PairingInv
<1>2. QED
  BY <1>1, Invariance, PTL

\* Whatever two pairing requests, a power-off and a restart do to one
\* another, a task that talks to a TV uses a token of that TV, and so do the
\* credentials in memory, in the configuration and in the file.
THEOREM TokensFit == Spec => []TokenFitsHost
<1>1. PairingInv => TokenFitsHost
  BY DEF PairingInv
<1>2. QED
  BY <1>1, Invariance, PTL

\* What is declared paired is in the file, unless the last save failed or a request
\* has put an older configuration back, so a restart keeps it.
THEOREM PairedKept == Spec => []PairedIsKept
<1>1. PairingInv => PairedIsKept
  <2>1. SUFFICES ASSUME PairingInv, state = "paired", ~unsaved, ~overwritten
                 PROVE  flash = live
    BY DEF PairedIsKept
  <2>2. \A t \in PairTasks : job[t].at \notin Ending
    BY <2>1 DEF PairingInv, EndingFits
  <2>3. QED
    BY <2>1, <2>2 DEF PairingInv, ConfigFits, Ending
<1>2. QED
  BY <1>1, Invariance, PTL

\* As long as the new TV has not accepted, and after it has not, the old one
\* can still be controlled.
THEOREM OldTvKept == Spec => []FailureKeepsTheOldTv
<1>1. QED
  BY Invariance, FailureFromInv, PTL

=============================================================================
