----------------------------- MODULE ConfigStore -----------------------------
(***************************************************************************)
(* ConfigManager: the configuration in memory, the file it is kept in and  *)
(* the two tasks that change both.  The web server's task serves POSTs     *)
(* (get, change, set, save), the file editor (write the file, load it) and *)
(* uploads, downloads and deletions of the file; the pairing task stores   *)
(* the credentials of a TV (get, change, set, save).  Nothing locks the    *)
(* manager or the file, all of them write through the same temporary file, *)
(* and the device may lose power or restart between any two steps.         *)
(*                                                                         *)
(* A configuration is its three independently owned sections; copying one  *)
(* is one step.  A step is otherwise one store of set(), one read or one   *)
(* setter of its callback, or one call of the file system, which is        *)
(* modelled from how the code uses it: a file that is open is neither      *)
(* removed nor renamed nor replaced, a file that is there can be read, and *)
(* a write is never short.  No request names the temporary file itself.    *)
(*                                                                         *)
(* The three setters of the callback are alike and independent of each     *)
(* other: the behavior section stands for any one of its settings.         *)
(***************************************************************************)
EXTENDS Naturals

CONSTANTS
  Behaviors,         \* contents of the behavior section
  ValidBehaviors,    \* those that validate() accepts
  DefaultBehavior,   \* the factory default
  Pairings,          \* credentials of TVs
  Unpaired,          \* the default: no TV
  SensorLists,       \* contents of the sensors section
  NoSensors,         \* the default
  EditedFiles,       \* configurations a user may save from the file editor
  Uploads            \* what a user may upload in place of the file

Writers == {"web", "pair"}

Config == [behavior : Behaviors, tv : Pairings \cup {Unpaired},
           sensors : SensorLists \cup {NoSensors}]

Defaults == [behavior |-> DefaultBehavior, tv |-> Unpaired, sensors |-> NoSensors]

\* What else a file can be: missing, truncated or half-written, or whole but
\* nothing that load() understands.
Absent == [file |-> "absent"]
Torn   == [file |-> "torn"]
Other  == [file |-> "other"]

Contents == Config \cup {Other}

ASSUME ConfigStoreAssumption ==
  /\ ValidBehaviors \subseteq Behaviors /\ DefaultBehavior \in ValidBehaviors
  /\ EditedFiles \subseteq Config /\ Uploads \subseteq Contents

VARIABLES
  current,           \* ConfigManager::current_
  applied,           \* the setting the state machines run with
  file,              \* /config/insomnia_tv.json
  tmp,               \* /config/insomnia_tv.json.tmp
  opened,            \* who has tmp open: a task, the upload between its pieces
  reading,           \* a download has the file open
  at,                \* where each task is
  job,               \* what it writes the file for: a save, an edit, an upload
  copy,              \* the Config or the text each task holds
  taken,             \* what its change callback has read of the configuration
  had,               \* a whole file has been there since boot, and not been deleted
  kept,              \* the last write has succeeded, of what is or becomes current
  overlapped,        \* since boot, two writes of the file have overlapped
  spoiled,           \* an upload was given up where a save goes on to the rename
  outdated,          \* tasks whose callback has read what is no longer current
  stale              \* the last callback to end was such

memory  == <<current, applied>>
disk    == <<file, tmp, opened, reading>>
tasks   == <<at, job, copy>>
calls   == <<taken, outdated, stale>>
history == <<had, kept, overlapped, spoiled>>
vars    == <<memory, disk, tasks, calls, history>>

\* parseJson_ gives every section of a complete file back, and fails on any other.
Parses(f) == f \in Config

\* What boot makes of the file: load() falls back to the defaults, then setup()
\* validates and repairs, in memory only.
Loaded(f) == IF Parses(f) THEN f ELSE Defaults
Repair(c) == IF c.behavior \in ValidBehaviors THEN c
                                              ELSE [c EXCEPT !.behavior = DefaultBehavior]

Init ==
  /\ file \in {Absent} \cup Config
  /\ tmp = Absent /\ opened = {} /\ reading = FALSE
  /\ current = Repair(Loaded(file)) /\ applied = current.behavior
  /\ at = [w \in Writers |-> "idle"] /\ job = [w \in Writers |-> "save"]
  /\ copy = [w \in Writers |-> Defaults]
  /\ taken = [w \in Writers |-> DefaultBehavior]
  /\ had = (file \in Contents) /\ kept = TRUE
  /\ overlapped = FALSE /\ spoiled = FALSE /\ outdated = {} /\ stale = FALSE

Step(w, from, to) == at[w] = from /\ at' = [at EXCEPT ![w] = to]

\* The handler returns.
Finish(w) ==
  /\ at' = [at EXCEPT ![w] = "idle"]
  /\ job' = [job EXCEPT ![w] = "save"]
  /\ copy' = [copy EXCEPT ![w] = Defaults]

\* A write of the file is under way, or is not loaded yet.
Replacing(w) == at[w] \in {"print", "remove", "rename"}
InWrite(w)   == \/ Replacing(w) \/ at[w] \in {"open", "create", "load"}
                \/ at[w] = "set" /\ job[w] = "edit"

\* A write begins while another is under way, or an upload is that may be cut off.
Overlapping(w) ==
  overlapped' = (overlapped \/ "upload" \in opened \/ \E v \in Writers \ {w} : InWrite(v))

-----------------------------------------------------------------------------
(* A request that changes one section, by way of a copy of the whole.      *)

\* POST /api/behavior is rejected unless the result validates; POST and DELETE
\* /api/sensors and the pairing callback take what they get.
Requests(w) ==
  IF w = "pair" THEN {[current EXCEPT !.tv = p] : p \in Pairings}
  ELSE {[current EXCEPT !.behavior = b] : b \in ValidBehaviors}
         \cup {[current EXCEPT !.sensors = l] : l \in SensorLists}

Get(w) ==
  /\ Step(w, "idle", "set")
  /\ \E c \in Requests(w) : copy' = [copy EXCEPT ![w] = c]
  /\ UNCHANGED <<memory, disk, job, calls, history>>

\* set() stores the configuration, and only then calls back.
Set(w) ==
  /\ Step(w, "set", "take")
  /\ current' = copy[w]
  /\ outdated' = outdated \cup {v \in Writers : at[v] = "apply"}
  /\ UNCHANGED <<applied, disk, job, copy, taken, stale, history>>

\* The callback reads the configuration through a reference to current_ ...
Take(w) ==
  /\ Step(w, "take", "apply")
  /\ taken' = [taken EXCEPT ![w] = current.behavior]
  /\ UNCHANGED <<memory, disk, job, copy, outdated, stale, history>>

\* Mutant: the setter is forgotten.
ApplyNothing(w) ==
  /\ IF job[w] = "edit" THEN at[w] = "apply" /\ Finish(w)
                        ELSE Step(w, "apply", "serialize") /\ UNCHANGED <<job, copy>>
  /\ taken' = [taken EXCEPT ![w] = DefaultBehavior]
  /\ stale' = (w \in outdated) /\ outdated' = outdated \ {w}
  /\ UNCHANGED <<memory, disk, history>>

\* ... and hands it to the state machines.  A request then saves, an edit is done.
Apply(w) ==
  /\ IF job[w] = "edit" THEN at[w] = "apply" /\ Finish(w)
                        ELSE Step(w, "apply", "serialize") /\ UNCHANGED <<job, copy>>
  /\ applied' = taken[w]
  /\ taken' = [taken EXCEPT ![w] = DefaultBehavior]
  /\ stale' = (w \in outdated) /\ outdated' = outdated \ {w}
  /\ UNCHANGED <<current, disk, history>>

\* Mutant: save() writes an earlier configuration.
SerializeDefaults(w) ==
  /\ Step(w, "serialize", "open")
  /\ copy' = [copy EXCEPT ![w] = [current EXCEPT !.tv = Unpaired]]
  /\ Overlapping(w)
  /\ UNCHANGED <<memory, disk, job, calls, had, kept, spoiled>>

\* save() turns the configuration of that moment into text.
Serialize(w) ==
  /\ Step(w, "serialize", "open")
  /\ copy' = [copy EXCEPT ![w] = current]
  /\ Overlapping(w)
  /\ UNCHANGED <<memory, disk, job, calls, had, kept, spoiled>>

-----------------------------------------------------------------------------
(* Writing a file: open the temporary file, print and close, remove the    *)
(* old file, rename.  save() and the editor do the same; that save() has   *)
(* failed is returned to callers who do not look.                          *)

\* Mutant: the file itself is opened, there is no temporary one.
OpenInPlace(w) ==
  /\ Step(w, "open", "print")
  /\ file' = Torn /\ opened' = opened \cup {w}
  /\ UNCHANGED <<memory, tmp, reading, job, copy, calls, history>>

\* Mutant: the old file is removed before there is a new one.
OpenTmpAfterRemove(w) ==
  /\ Step(w, "open", "print")
  /\ file' = Absent
  /\ tmp' = Torn /\ opened' = opened \cup {w}
  /\ UNCHANGED <<memory, reading, job, copy, calls, history>>

OpenTmp(w) ==
  /\ Step(w, "open", "print")
  /\ tmp' = Torn /\ opened' = opened \cup {w}
  /\ UNCHANGED <<memory, file, reading, job, copy, calls, history>>

\* The directory or the file cannot be created.  An edit has changed nothing.
OpenFails(w) ==
  /\ at[w] = "open" /\ Finish(w)
  /\ kept' = (kept /\ job[w] = "edit")
  /\ UNCHANGED <<memory, disk, calls, had, overlapped, spoiled>>

\* Mutant: the temporary file is not closed.
PrintWithoutClose(w) ==
  /\ Step(w, "print", "remove")
  /\ tmp' = copy[w]
  /\ UNCHANGED <<memory, file, opened, reading, job, copy, calls, history>>

PrintTmp(w) ==
  /\ Step(w, "print", "remove")
  /\ tmp' = copy[w] /\ opened' = opened \ {w}
  /\ UNCHANGED <<memory, file, reading, job, copy, calls, history>>

\* Refused while the file is being downloaded, which is not looked at.
RemoveFile(w) ==
  /\ Step(w, "remove", "rename")
  /\ file' = IF reading THEN file ELSE Absent
  /\ UNCHANGED <<memory, tmp, opened, reading, job, copy, calls, history>>

CanRename == tmp # Absent /\ opened = {} /\ ~reading

\* After the rename the editor loads its file, the others are done.
RenameTmp(w) ==
  /\ at[w] = "rename" /\ CanRename
  /\ IF job[w] = "edit" THEN Step(w, "rename", "load") /\ UNCHANGED <<job, copy>>
                        ELSE Finish(w)
  /\ file' = tmp /\ tmp' = Absent
  /\ had' = TRUE /\ kept' = (job[w] # "upload")
  /\ UNCHANGED <<memory, opened, reading, calls, overlapped, spoiled>>

RenameFails(w) ==
  /\ at[w] = "rename" /\ ~CanRename /\ Finish(w)
  /\ kept' = FALSE
  /\ UNCHANGED <<memory, disk, calls, had, overlapped, spoiled>>

-----------------------------------------------------------------------------
(* The file editor.                                                        *)

\* Text that is not JSON is rejected; the values are not looked at.
Edit(c) ==
  /\ Step("web", "idle", "open")
  /\ job' = [job EXCEPT !["web"] = "edit"]
  /\ copy' = [copy EXCEPT !["web"] = c]
  /\ Overlapping("web")
  /\ UNCHANGED <<memory, disk, calls, had, kept, spoiled>>

\* load() sets what it has parsed, by set() and its callback ...
LoadEdited ==
  /\ Step("web", "load", "set")
  /\ Parses(file)
  /\ copy' = [copy EXCEPT !["web"] = file]
  /\ UNCHANGED <<memory, disk, job, calls, history>>

\* ... and takes the defaults for a missing or unreadable file, without a callback.
LoadFails ==
  /\ at["web"] = "load" /\ Finish("web")
  /\ ~Parses(file)
  /\ current' = Defaults
  /\ UNCHANGED <<applied, disk, calls, history>>

-----------------------------------------------------------------------------
(* The other requests of the web server that touch the file.               *)

\* The static File handle of the uploads is let go: what it has written is a
\* part of a file, wherever somebody else has just written a whole one.
LetGo ==
  /\ opened' = opened \ {"upload"}
  /\ tmp' = IF "upload" \in opened THEN Torn ELSE tmp
  /\ spoiled' = (spoiled \/ ("upload" \in opened
                             /\ \E w \in Writers : at[w] \in {"remove", "rename"}))

\* The first piece of an upload of this file removes what was the temporary file ...
UploadFirst ==
  /\ Step("web", "idle", "create")
  /\ tmp' = IF opened = {} THEN Absent ELSE tmp
  /\ Overlapping("web")
  /\ UNCHANGED <<memory, file, opened, reading, job, copy, calls, had, kept, spoiled>>

\* ... and opens a new one, which stays open until the last piece, or for good.
UploadOpens ==
  /\ Step("web", "create", "idle")
  /\ tmp' = Torn /\ opened' = opened \cup {"upload"}
  /\ UNCHANGED <<memory, file, reading, job, copy, calls, history>>

UploadOpenFails ==
  /\ Step("web", "create", "idle")
  /\ LetGo
  /\ UNCHANGED <<memory, file, reading, job, copy, calls, had, kept, overlapped>>

\* The first piece of an upload of some other file.
UploadElsewhere ==
  /\ at["web"] = "idle" /\ "upload" \in opened
  /\ LetGo
  /\ UNCHANGED <<memory, file, reading, tasks, calls, had, kept, overlapped>>

\* The last piece: the temporary file is closed, then remove and rename.
UploadLast(c) ==
  /\ Step("web", "idle", "remove")
  /\ "upload" \in opened
  /\ tmp' = c /\ opened' = opened \ {"upload"}
  /\ job' = [job EXCEPT !["web"] = "upload"]
  /\ copy' = [copy EXCEPT !["web"] = c]
  /\ UNCHANGED <<memory, file, reading, calls, history>>

DeleteFile ==
  /\ at["web"] = "idle" /\ ~reading
  /\ file' = Absent
  /\ had' = FALSE /\ kept' = FALSE
  /\ UNCHANGED <<memory, tmp, opened, reading, tasks, calls, overlapped, spoiled>>

\* A download keeps the file open until the last of it is sent.
Download ==
  /\ at["web"] = "idle" /\ ~reading /\ file # Absent
  /\ reading' = TRUE
  /\ UNCHANGED <<memory, file, tmp, opened, tasks, calls, history>>

Downloaded ==
  /\ at["web"] = "idle" /\ reading
  /\ reading' = FALSE
  /\ UNCHANGED <<memory, file, tmp, opened, tasks, calls, history>>

-----------------------------------------------------------------------------
\* A power cut, or ESP.restart() from the Wi-Fi watchdog, the reset button, a
\* reboot request or a firmware update: only the files survive.
Restart ==
  /\ at' = [w \in Writers |-> "idle"] /\ job' = [w \in Writers |-> "save"]
  /\ copy' = [w \in Writers |-> Defaults]
  /\ taken' = [w \in Writers |-> DefaultBehavior]
  /\ opened' = {} /\ reading' = FALSE
  /\ current' = Repair(Loaded(file)) /\ applied' = current'.behavior
  /\ had' = (file \in Contents) /\ kept' = TRUE
  /\ overlapped' = FALSE /\ outdated' = {} /\ stale' = FALSE
  /\ UNCHANGED <<file, tmp, spoiled>>

Write(w) == \/ OpenTmp(w) \/ OpenFails(w) \/ PrintTmp(w)
            \/ RemoveFile(w) \/ RenameTmp(w) \/ RenameFails(w)

Request(w) == Get(w) \/ Set(w) \/ Take(w) \/ Apply(w) \/ Serialize(w)

OtherRequest ==
  \/ UploadFirst \/ UploadOpens \/ UploadOpenFails \/ UploadElsewhere
  \/ \E c \in Uploads : UploadLast(c)
  \/ DeleteFile \/ Download \/ Downloaded

Next ==
  \/ \E w \in Writers : Request(w) \/ Write(w)
  \/ (\E c \in EditedFiles : Edit(c)) \/ LoadEdited \/ LoadFails
  \/ OtherRequest
  \/ Restart

Spec == Init /\ [][Next]_vars

-----------------------------------------------------------------------------
AtRest   == \A w \in Writers : at[w] = "idle"
NotInSet == \A w \in Writers : at[w] \notin {"take", "apply"}

TypeOK ==
  /\ current \in Config /\ applied \in Behaviors
  /\ file \in Contents \cup {Absent, Torn} /\ tmp \in Contents \cup {Absent, Torn}
  /\ opened \subseteq {w \in Writers : at[w] = "print"} \cup {"upload"}
  /\ reading \in BOOLEAN
  /\ at \in [Writers -> {"idle", "set", "take", "apply", "serialize", "open", "print",
                         "remove", "rename", "load", "create"}]
  /\ job \in [Writers -> {"save", "edit", "upload"}]
  /\ copy \in [Writers -> Contents] /\ taken \in [Writers -> Behaviors]
  /\ had \in BOOLEAN /\ kept \in BOOLEAN /\ overlapped \in BOOLEAN /\ spoiled \in BOOLEAN
  /\ outdated \subseteq {w \in Writers : at[w] = "apply"} /\ stale \in BOOLEAN

\* The configuration file itself is never half-written, whatever is cut off and
\* whichever task overtakes the other.  The one exception is an upload of the
\* file that is given up while a save is between closing and renaming.
NeverTorn == ~spoiled => file # Torn

\* As long as no two writes overlap, a file that nobody deleted stays on flash: in
\* its place, or as the temporary file while it is being replaced or if that fails.
NeverBothGone == had /\ ~overlapped => file \in Contents \/ tmp \in Contents

\* Once set() and its callbacks are done, what the state machines run with is what
\* the configuration says.  Only two things part them: that the callback which ended
\* last had read the configuration before the other task replaced it, and that two
\* writes overlapped and the editor's file was lost before its load().
TimingFollowsConfig ==
  NotInSet /\ ~stale /\ ~overlapped => applied = current.behavior

\* A restart of a device at rest brings back the configuration that is live now,
\* repaired as at boot, if the last write of the file returned Ok, whoever wrote:
\* a save that succeeds has saved both tasks' changes.  A save that fails is not
\* covered, and none of the callers of save() would notice.
RestartKeepsConfig ==
  AtRest /\ kept /\ ~overlapped => Repair(Loaded(file)) = Repair(current)

\* ConfigManager.cpp: a power cut during the write leaves the old file intact.
PowerCutLeavesAFile == had => file \in Contents
=============================================================================
