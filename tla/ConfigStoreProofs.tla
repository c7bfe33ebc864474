------------------------- MODULE ConfigStoreProofs --------------------------
(***************************************************************************)
(* The safety of ConfigStore for any contents, edits, uploads and          *)
(* interleaving.                                                           *)
(***************************************************************************)
EXTENDS ConfigStore, TLAPS

-----------------------------------------------------------------------------
(* The inductive invariant.                                                *)

\* What each task does where it is: only the web task edits and uploads.
JobFits ==
  /\ \A w \in Writers :
       /\ job[w] = "edit" => /\ w = "web"
                             /\ Replacing(w) \/ at[w] \in {"open", "load", "set", "take", "apply"}
       /\ job[w] = "upload" => w = "web" /\ at[w] \in {"remove", "rename"}
       /\ at[w] = "load" => job[w] = "edit"
       /\ at[w] = "create" => w = "web"
       /\ job[w] # "upload" => copy[w] \in Config

\* Who prints has the temporary file open, and what is downloaded is there.
OpenFits ==
  (\A w \in Writers : at[w] = "print" => w \in opened) /\ (reading => file # Absent)

\* No file is half-written once nobody has the temporary file open.
WholeFits ==
  ~spoiled =>
    /\ file # Torn
    /\ (\E w \in Writers : at[w] \in {"remove", "rename"}) /\ opened = {} => tmp # Torn

\* Writes that have not overlapped: one at a time ...
Alone ==
  /\ \A v, w \in Writers : InWrite(v) /\ InWrite(w) => v = w
  /\ "upload" \in opened => \A w \in Writers : ~InWrite(w)

\* ... and the text of each is in the temporary file, then in the file.
TextFits ==
  \A w \in Writers :
    /\ at[w] \in {"remove", "rename"} => tmp = copy[w]
    /\ at[w] = "load" \/ (at[w] = "set" /\ job[w] = "edit") => file = copy[w]

\* A save writes the configuration, or somebody is about to save.
Unsaved == \E w \in Writers : job[w] = "save" /\ at[w] \in {"take", "apply", "serialize"}
WritesCurrent ==
  \A w \in Writers :
    (Replacing(w) \/ at[w] = "open") /\ job[w] = "save" => copy[w] = current \/ Unsaved

\* The file is missing while it is being replaced; it is outdated until it is.
HadFits ==
  had => file \in Contents \/ (file = Absent /\ \E w \in Writers : at[w] = "rename")
KeptFits ==
  kept => \/ Unsaved
          \/ \E w \in Writers : /\ InWrite(w) /\ at[w] # "create"
                                /\ ~(at[w] = "open" /\ job[w] = "edit")
          \/ Repair(Loaded(file)) = Repair(current)

\* A callback that will hand on what is current is under way, or the last one has.
TimingFits ==
  /\ \A w \in Writers : at[w] = "apply" /\ w \notin outdated => taken[w] = current.behavior
  /\ \/ stale \/ applied = current.behavior
     \/ \E w \in Writers : at[w] = "take" \/ (at[w] = "apply" /\ w \notin outdated)

AloneInv ==
  Alone /\ TextFits /\ WritesCurrent /\ HadFits /\ KeptFits /\ TimingFits

StoreInv ==
  TypeOK /\ JobFits /\ OpenFits /\ WholeFits /\ (~overlapped => AloneInv)

-----------------------------------------------------------------------------
(* Configurations.                                                         *)

\* Three records that are no configuration, and differ.
LEMMA NoConfig ==
  /\ Absent \notin Contents /\ Torn \notin Contents /\ Other \notin Config
  /\ Absent # Torn /\ Config \subseteq Contents /\ Other \in Contents
<1>1. \A c \in Config : "behavior" \in DOMAIN c
  BY DEF Config
<1>2. "behavior" \notin DOMAIN Absent /\ "behavior" \notin DOMAIN Torn
        /\ "behavior" \notin DOMAIN Other
  BY DEF Absent, Torn, Other
<1>3. Absent.file # Torn.file /\ Absent.file # Other.file /\ Torn.file # Other.file
  BY DEF Absent, Torn, Other
<1>4. QED
  BY <1>1, <1>2, <1>3 DEF Contents

\* Boot always finds a configuration, and repairing it again changes nothing.
LEMMA Repairing ==
  /\ Defaults \in Config
  /\ \A f : Loaded(f) \in Config
  /\ \A c \in Config : /\ Loaded(c) = c /\ c.behavior \in Behaviors
                      /\ Repair(c) \in Config /\ Repair(Repair(c)) = Repair(c)
<1> USE ConfigStoreAssumption
<1>1. Defaults \in Config
  BY DEF Defaults, Config
<1>2. \A f : Loaded(f) \in Config
  BY <1>1 DEF Loaded, Parses
<1>3. ASSUME NEW c \in Config
      PROVE  /\ Loaded(c) = c /\ c.behavior \in Behaviors
             /\ Repair(c) \in Config /\ Repair(Repair(c)) = Repair(c)
  <2>1. Loaded(c) = c
    BY DEF Loaded, Parses
  <2>2. c.behavior \in Behaviors
    BY DEF Config
  <2>3. Repair(c) \in Config
    BY DEF Repair, Config
  <2>4. Repair(c).behavior \in ValidBehaviors
    BY DEF Repair, Config
  <2>5. QED
    BY <2>1, <2>2, <2>3, <2>4 DEF Repair
<1>4. QED
  BY <1>1, <1>2, <1>3

\* A request changes one section of a configuration.
LEMMA Requesting ==
  ASSUME current \in Config, NEW w \in Writers
  PROVE  Requests(w) \subseteq Config
BY ConfigStoreAssumption DEF Requests, Config

-----------------------------------------------------------------------------
(* Every step keeps the invariant.                                         *)

USE ConfigStoreAssumption, NoConfig, Repairing
    DEF Step, Finish, Writers, Parses, memory, disk, tasks, calls, history

\* Boot loads what the file has, or the defaults.
LEMMA StoreInit == Init => StoreInv
<1> SUFFICES ASSUME Init
             PROVE  StoreInv
  OBVIOUS
<1> USE DEF Init
<1>1. had \in BOOLEAN
  <2>1. CASE file \in Contents
    BY <2>1
  <2>2. CASE file \notin Contents
    BY <2>2
  <2>3. QED
    BY <2>1, <2>2
<1>2. current \in Config /\ applied \in Behaviors
  OBVIOUS
<1>3. TypeOK
  BY <1>1, <1>2 DEF TypeOK
<1>4. JobFits /\ OpenFits /\ WholeFits
  BY DEF JobFits, OpenFits, WholeFits
<1>5. AloneInv
  BY DEF AloneInv, Alone, InWrite, Replacing, TextFits, WritesCurrent, HadFits,
     KeptFits,
     TimingFits
<1>6. QED
  BY <1>3, <1>4, <1>5 DEF StoreInv

\* A handler copies the configuration and changes one section of its copy.
LEMMA GetInv ==
  ASSUME StoreInv, NEW w \in Writers, Get(w)
  PROVE  StoreInv'
<1> PICK c \in Config : copy' = [copy EXCEPT ![w] = c]
  BY Requesting DEF StoreInv, TypeOK, Get
<1>1. TypeOK'
  BY DEF StoreInv, TypeOK, Get
<1>2. JobFits'
  BY DEF StoreInv, TypeOK, JobFits, Replacing, Get
<1>3. OpenFits'
  BY DEF StoreInv, TypeOK, OpenFits, Get
<1>4. WholeFits'
  BY DEF StoreInv, TypeOK, OpenFits, WholeFits, Get
<1>5. ASSUME ~overlapped'
      PROVE  AloneInv'
  <2> ~overlapped /\ AloneInv
    BY <1>5 DEF StoreInv, Get
  <2> USE DEF AloneInv
  <2>1. Alone'
    BY DEF JobFits, StoreInv, TypeOK, Alone, InWrite, Replacing, Get
  <2>2. TextFits'
    BY DEF JobFits, StoreInv, TypeOK, TextFits, Alone, InWrite, Replacing, Get
  <2>3. WritesCurrent'
    BY DEF StoreInv, TypeOK, WritesCurrent, Unsaved, Alone, JobFits, InWrite,
       Replacing, Get
  <2>4. HadFits'
    BY DEF StoreInv, TypeOK, HadFits, TextFits, Alone, OpenFits, InWrite, Replacing,
       Get
  <2>5. KeptFits'
    BY DEF StoreInv, TypeOK, KeptFits, WritesCurrent, Unsaved, TextFits, Alone,
       JobFits, InWrite, Replacing, Get
  <2>6. TimingFits'
    BY DEF StoreInv, TypeOK, TimingFits, TextFits, JobFits, Get
  <2>7. QED
    BY <2>1, <2>2, <2>3, <2>4, <2>5, <2>6
<1>6. QED
  BY <1>1, <1>2, <1>3, <1>4, <1>5 DEF StoreInv

\* set() replaces the configuration: a callback that has read it is outdated, and a
\* save is due.
LEMMA SetInv ==
  ASSUME StoreInv, NEW w \in Writers, Set(w)
  PROVE  StoreInv'
<1>1. TypeOK'
  BY DEF StoreInv, TypeOK, JobFits, Set
<1>2. JobFits'
  BY DEF StoreInv, TypeOK, JobFits, Replacing, Set
<1>3. OpenFits'
  BY DEF StoreInv, TypeOK, OpenFits, Set
<1>4. WholeFits'
  BY DEF StoreInv, TypeOK, OpenFits, WholeFits, Set
<1>5. ASSUME ~overlapped'
      PROVE  AloneInv'
  <2> ~overlapped /\ AloneInv
    BY <1>5 DEF StoreInv, Set
  <2> USE DEF AloneInv
  <2>1. Alone'
    BY DEF StoreInv, TypeOK, Alone, InWrite, Replacing, Set
  <2>2. TextFits'
    BY DEF StoreInv, TypeOK, TextFits, Alone, InWrite, Replacing, Set
  <2>3. WritesCurrent'
    BY DEF StoreInv, TypeOK, WritesCurrent, Unsaved, Alone, JobFits, InWrite,
       Replacing, Set
  <2>4. HadFits'
    BY DEF StoreInv, TypeOK, HadFits, TextFits, Alone, OpenFits, InWrite, Replacing,
       Set
  <2>5. KeptFits'
    BY DEF StoreInv, TypeOK, KeptFits, WritesCurrent, Unsaved, TextFits, Alone,
       JobFits, InWrite, Replacing, Set
  <2>6. TimingFits'
    BY DEF StoreInv, TypeOK, TimingFits, TextFits, JobFits, Set
  <2>7. QED
    BY <2>1, <2>2, <2>3, <2>4, <2>5, <2>6
<1>6. QED
  BY <1>1, <1>2, <1>3, <1>4, <1>5 DEF StoreInv

\* The callback reads what is current.
LEMMA TakeInv ==
  ASSUME StoreInv, NEW w \in Writers, Take(w)
  PROVE  StoreInv'
<1>1. TypeOK'
  BY DEF StoreInv, TypeOK, Take
<1>2. JobFits'
  BY DEF StoreInv, TypeOK, JobFits, Replacing, Take
<1>3. OpenFits'
  BY DEF StoreInv, TypeOK, OpenFits, Take
<1>4. WholeFits'
  BY DEF StoreInv, TypeOK, OpenFits, WholeFits, Take
<1>5. ASSUME ~overlapped'
      PROVE  AloneInv'
  <2> ~overlapped /\ AloneInv
    BY <1>5 DEF StoreInv, Take
  <2> USE DEF AloneInv
  <2>1. Alone'
    BY DEF StoreInv, TypeOK, Alone, InWrite, Replacing, Take
  <2>2. TextFits'
    BY DEF StoreInv, TypeOK, TextFits, Alone, InWrite, Replacing, Take
  <2>3. WritesCurrent'
    BY DEF StoreInv, TypeOK, WritesCurrent, Unsaved, Alone, JobFits, InWrite,
       Replacing, Take
  <2>4. HadFits'
    BY DEF StoreInv, TypeOK, HadFits, TextFits, Alone, OpenFits, InWrite, Replacing,
       Take
  <2>5. KeptFits'
    BY DEF StoreInv, TypeOK, KeptFits, WritesCurrent, Unsaved, TextFits, Alone,
       JobFits, InWrite, Replacing, Take
  <2>6. TimingFits'
    BY DEF StoreInv, TypeOK, TimingFits, TextFits, JobFits, Take
  <2>7. QED
    BY <2>1, <2>2, <2>3, <2>4, <2>5, <2>6
<1>6. QED
  BY <1>1, <1>2, <1>3, <1>4, <1>5 DEF StoreInv

\* The timing is handed on, and the save is due or the edit is done.
LEMMA ApplyInv ==
  ASSUME StoreInv, NEW w \in Writers, Apply(w)
  PROVE  StoreInv'
<1>1. TypeOK'
  BY DEF StoreInv, TypeOK, JobFits, Apply
<1>2. JobFits'
  BY DEF StoreInv, TypeOK, JobFits, Replacing, Apply
<1>3. OpenFits'
  BY DEF StoreInv, TypeOK, OpenFits, Apply
<1>4. WholeFits'
  BY DEF StoreInv, TypeOK, OpenFits, WholeFits, Apply
<1>5. ASSUME ~overlapped'
      PROVE  AloneInv'
  <2> ~overlapped /\ AloneInv
    BY <1>5 DEF StoreInv, Apply
  <2> USE DEF AloneInv
  <2>1. Alone'
    BY DEF StoreInv, TypeOK, Alone, InWrite, Replacing, Apply
  <2>2. TextFits'
    BY DEF StoreInv, TypeOK, TextFits, Alone, InWrite, Replacing, Apply
  <2>3. WritesCurrent'
    BY DEF StoreInv, TypeOK, WritesCurrent, Unsaved, Alone, JobFits, InWrite,
       Replacing, Apply
  <2>4. HadFits'
    BY DEF StoreInv, TypeOK, HadFits, TextFits, Alone, OpenFits, InWrite, Replacing,
       Apply
  <2>5. KeptFits'
    BY DEF StoreInv, TypeOK, KeptFits, WritesCurrent, Unsaved, TextFits, Alone,
       JobFits, InWrite, Replacing, Apply
<2>6. TimingFits'
    <3>1. /\ current' = current /\ applied' = taken[w]
          /\ at[w] = "apply" /\ at'[w] # "take" /\ at'[w] # "apply"
      BY DEF StoreInv, TypeOK, Apply
    <3>2. \A v \in Writers \ {w} : /\ at'[v] = at[v] /\ taken'[v] = taken[v]
                                   /\ v \in outdated' <=> v \in outdated
      BY DEF StoreInv, TypeOK, Apply
    <3>3. stale' <=> w \in outdated
      BY Zenon DEF Apply
    <3>4. ASSUME NEW v \in Writers, at'[v] = "apply", v \notin outdated'
          PROVE  taken'[v] = current'.behavior
      BY <3>1, <3>2, <3>4 DEF TimingFits
    <3>5. w \notin outdated => applied' = current'.behavior
      BY <3>1 DEF TimingFits
    <3>6. QED
      BY <3>3, <3>4, <3>5 DEF TimingFits
  <2>7. QED
    BY <2>1, <2>2, <2>3, <2>4, <2>5, <2>6
<1>6. QED
  BY <1>1, <1>2, <1>3, <1>4, <1>5 DEF StoreInv

\* save() takes its text from the configuration of this moment; another write
\* may be under way.
LEMMA SerializeInv ==
  ASSUME StoreInv, NEW w \in Writers, Serialize(w)
  PROVE  StoreInv'
<1>0. /\ overlapped' \in BOOLEAN
      /\ ~overlapped' => /\ ~overlapped /\ "upload" \notin opened
                         /\ \A v \in Writers \ {w} : ~InWrite(v)
  BY Zenon DEF StoreInv, TypeOK, Overlapping, Serialize
<1>1. TypeOK'
  BY <1>0 DEF StoreInv, TypeOK, JobFits, Serialize
<1>2. JobFits'
  BY <1>0 DEF StoreInv, TypeOK, JobFits, Replacing, Serialize
<1>3. OpenFits'
  BY <1>0 DEF StoreInv, TypeOK, OpenFits, Serialize
<1>4. WholeFits'
  BY <1>0 DEF StoreInv, TypeOK, OpenFits, WholeFits, Serialize
<1>5. ASSUME ~overlapped'
      PROVE  AloneInv'
  <2> /\ ~overlapped /\ AloneInv /\ "upload" \notin opened
      /\ \A v \in Writers \ {w} : ~InWrite(v)
    BY <1>0, <1>5 DEF StoreInv
  <2> USE DEF AloneInv
  <2>1. Alone'
    BY DEF StoreInv, TypeOK, Alone, InWrite, Replacing, Serialize
  <2>2. TextFits'
    BY DEF JobFits, StoreInv, TypeOK, TextFits, Alone, InWrite, Replacing, Serialize
  <2>3. WritesCurrent'
    BY DEF StoreInv, TypeOK, WritesCurrent, Unsaved, Alone, JobFits, InWrite,
       Replacing, Serialize
  <2>4. HadFits'
    BY DEF JobFits, StoreInv, TypeOK, HadFits, TextFits, Alone, OpenFits, InWrite,
       Replacing, Serialize
  <2>5. KeptFits'
    BY DEF StoreInv, TypeOK, KeptFits, WritesCurrent, Unsaved, TextFits, Alone,
       JobFits, InWrite, Replacing, Serialize
  <2>6. TimingFits'
    BY DEF StoreInv, TypeOK, TimingFits, TextFits, JobFits, Serialize
  <2>7. QED
    BY <2>1, <2>2, <2>3, <2>4, <2>5, <2>6
<1>6. QED
  BY <1>1, <1>2, <1>3, <1>4, <1>5 DEF StoreInv

\* The temporary file is emptied.
LEMMA OpenTmpInv ==
  ASSUME StoreInv, NEW w \in Writers, OpenTmp(w)
  PROVE  StoreInv'
<1>1. TypeOK'
  BY DEF StoreInv, TypeOK, OpenTmp
<1>2. JobFits'
  BY DEF StoreInv, TypeOK, JobFits, Replacing, OpenTmp
<1>3. OpenFits'
  BY DEF StoreInv, TypeOK, OpenFits, OpenTmp
<1>4. WholeFits'
  BY DEF StoreInv, TypeOK, OpenFits, WholeFits, OpenTmp
<1>5. ASSUME ~overlapped'
      PROVE  AloneInv'
  <2> ~overlapped /\ AloneInv
    BY <1>5 DEF StoreInv, OpenTmp
  <2> USE DEF AloneInv
  <2>1. Alone'
    BY DEF StoreInv, TypeOK, Alone, InWrite, Replacing, OpenTmp
  <2>2. TextFits'
    BY DEF StoreInv, TypeOK, TextFits, Alone, InWrite, Replacing, OpenTmp
  <2>3. WritesCurrent'
    BY DEF StoreInv, TypeOK, WritesCurrent, Unsaved, Alone, JobFits, InWrite,
       Replacing, OpenTmp
  <2>4. HadFits'
    BY DEF StoreInv, TypeOK, HadFits, TextFits, Alone, OpenFits, InWrite, Replacing,
       OpenTmp
  <2>5. KeptFits'
    BY DEF StoreInv, TypeOK, KeptFits, WritesCurrent, Unsaved, TextFits, Alone,
       JobFits, InWrite, Replacing, OpenTmp
  <2>6. TimingFits'
    BY DEF StoreInv, TypeOK, TimingFits, TextFits, JobFits, OpenTmp
  <2>7. QED
    BY <2>1, <2>2, <2>3, <2>4, <2>5, <2>6
<1>6. QED
  BY <1>1, <1>2, <1>3, <1>4, <1>5 DEF StoreInv

\* A save that could not open a file has kept nothing.
LEMMA OpenFailsInv ==
  ASSUME StoreInv, NEW w \in Writers, OpenFails(w)
  PROVE  StoreInv'
<1>1. TypeOK'
  BY DEF StoreInv, TypeOK, OpenFails
<1>2. JobFits'
  BY DEF StoreInv, TypeOK, JobFits, Replacing, OpenFails
<1>3. OpenFits'
  BY DEF StoreInv, TypeOK, OpenFits, OpenFails
<1>4. WholeFits'
  BY DEF StoreInv, TypeOK, OpenFits, WholeFits, OpenFails
<1>5. ASSUME ~overlapped'
      PROVE  AloneInv'
  <2> ~overlapped /\ AloneInv
    BY <1>5 DEF StoreInv, OpenFails
  <2> USE DEF AloneInv
  <2>1. Alone'
    BY DEF StoreInv, TypeOK, Alone, InWrite, Replacing, OpenFails
  <2>2. TextFits'
    BY DEF StoreInv, TypeOK, TextFits, Alone, InWrite, Replacing, OpenFails
  <2>3. WritesCurrent'
    BY DEF StoreInv, TypeOK, WritesCurrent, Unsaved, Alone, JobFits, InWrite,
       Replacing, OpenFails
  <2>4. HadFits'
    BY DEF StoreInv, TypeOK, HadFits, TextFits, Alone, OpenFits, InWrite, Replacing,
       OpenFails
  <2>5. KeptFits'
    BY DEF StoreInv, TypeOK, KeptFits, WritesCurrent, Unsaved, TextFits, Alone,
       JobFits, InWrite, Replacing, OpenFails
  <2>6. TimingFits'
    BY DEF StoreInv, TypeOK, TimingFits, TextFits, JobFits, OpenFails
  <2>7. QED
    BY <2>1, <2>2, <2>3, <2>4, <2>5, <2>6
<1>6. QED
  BY <1>1, <1>2, <1>3, <1>4, <1>5 DEF StoreInv

\* The temporary file is whole once its last writer has closed it.
LEMMA PrintTmpInv ==
  ASSUME StoreInv, NEW w \in Writers, PrintTmp(w)
  PROVE  StoreInv'
<1>1. TypeOK'
  BY DEF StoreInv, TypeOK, JobFits, PrintTmp
<1>2. JobFits'
  BY DEF StoreInv, TypeOK, JobFits, Replacing, PrintTmp
<1>3. OpenFits'
  BY DEF StoreInv, TypeOK, OpenFits, PrintTmp
<1>4. WholeFits'
  BY DEF StoreInv, TypeOK, OpenFits, WholeFits, PrintTmp
<1>5. ASSUME ~overlapped'
      PROVE  AloneInv'
  <2> ~overlapped /\ AloneInv
    BY <1>5 DEF StoreInv, PrintTmp
  <2> USE DEF AloneInv
  <2>1. Alone'
    BY DEF StoreInv, TypeOK, Alone, InWrite, Replacing, PrintTmp
  <2>2. TextFits'
    BY DEF StoreInv, TypeOK, TextFits, Alone, InWrite, Replacing, PrintTmp
  <2>3. WritesCurrent'
    BY DEF StoreInv, TypeOK, WritesCurrent, Unsaved, Alone, JobFits, InWrite,
       Replacing, PrintTmp
  <2>4. HadFits'
    BY DEF StoreInv, TypeOK, HadFits, TextFits, Alone, OpenFits, InWrite, Replacing,
       PrintTmp
  <2>5. KeptFits'
    BY DEF StoreInv, TypeOK, KeptFits, WritesCurrent, Unsaved, TextFits, Alone,
       JobFits, InWrite, Replacing, PrintTmp
  <2>6. TimingFits'
    BY DEF StoreInv, TypeOK, TimingFits, TextFits, JobFits, PrintTmp
  <2>7. QED
    BY <2>1, <2>2, <2>3, <2>4, <2>5, <2>6
<1>6. QED
  BY <1>1, <1>2, <1>3, <1>4, <1>5 DEF StoreInv

\* The old file is removed while the temporary one is whole.
LEMMA RemoveFileInv ==
  ASSUME StoreInv, NEW w \in Writers, RemoveFile(w)
  PROVE  StoreInv'
<1>1. TypeOK'
  BY DEF StoreInv, TypeOK, RemoveFile
<1>2. JobFits'
  BY DEF StoreInv, TypeOK, JobFits, Replacing, RemoveFile
<1>3. OpenFits'
  BY DEF StoreInv, TypeOK, OpenFits, RemoveFile
<1>4. WholeFits'
  BY DEF StoreInv, TypeOK, OpenFits, WholeFits, RemoveFile
<1>5. ASSUME ~overlapped'
      PROVE  AloneInv'
  <2> ~overlapped /\ AloneInv
    BY <1>5 DEF StoreInv, RemoveFile
  <2> USE DEF AloneInv
  <2>1. Alone'
    BY DEF StoreInv, TypeOK, Alone, InWrite, Replacing, RemoveFile
  <2>2. TextFits'
    BY DEF StoreInv, TypeOK, TextFits, Alone, InWrite, Replacing, RemoveFile
  <2>3. WritesCurrent'
    BY DEF StoreInv, TypeOK, WritesCurrent, Unsaved, Alone, JobFits, InWrite,
       Replacing, RemoveFile
  <2>4. HadFits'
    BY DEF StoreInv, TypeOK, HadFits, TextFits, Alone, OpenFits, InWrite, Replacing,
       RemoveFile
  <2>5. KeptFits'
    BY DEF StoreInv, TypeOK, KeptFits, WritesCurrent, Unsaved, TextFits, Alone,
       JobFits, InWrite, Replacing, RemoveFile
  <2>6. TimingFits'
    BY DEF StoreInv, TypeOK, TimingFits, TextFits, JobFits, RemoveFile
  <2>7. QED
    BY <2>1, <2>2, <2>3, <2>4, <2>5, <2>6
<1>6. QED
  BY <1>1, <1>2, <1>3, <1>4, <1>5 DEF StoreInv

\* The temporary file becomes the configuration file.
LEMMA RenameTmpInv ==
  ASSUME StoreInv, NEW w \in Writers, RenameTmp(w)
  PROVE  StoreInv'
<1>1. TypeOK'
  BY DEF StoreInv, TypeOK, RenameTmp
<1>2. JobFits'
  BY DEF StoreInv, TypeOK, JobFits, Replacing, RenameTmp
<1>3. OpenFits'
  BY DEF StoreInv, TypeOK, OpenFits, RenameTmp, CanRename
<1>4. WholeFits'
  BY DEF StoreInv, TypeOK, OpenFits, WholeFits, RenameTmp, CanRename
<1>5. ASSUME ~overlapped'
      PROVE  AloneInv'
  <2> ~overlapped /\ AloneInv
    BY <1>5 DEF StoreInv, RenameTmp
  <2> USE DEF AloneInv
  <2>1. Alone'
    BY DEF StoreInv, TypeOK, Alone, InWrite, Replacing, RenameTmp
  <2>2. TextFits'
    BY DEF StoreInv, TypeOK, TextFits, Alone, InWrite, Replacing, RenameTmp, CanRename
  <2>3. WritesCurrent'
    BY DEF StoreInv, TypeOK, WritesCurrent, Unsaved, Alone, JobFits, InWrite,
       Replacing, RenameTmp
  <2>4. HadFits'
    BY DEF StoreInv, TypeOK, HadFits, TextFits, Alone, OpenFits, InWrite, Replacing,
       RenameTmp, CanRename
  <2>5. KeptFits'
    BY DEF StoreInv, TypeOK, KeptFits, WritesCurrent, Unsaved, TextFits, Alone,
       JobFits, InWrite, Replacing, RenameTmp, CanRename
  <2>6. TimingFits'
    BY DEF StoreInv, TypeOK, TimingFits, TextFits, JobFits, RenameTmp
  <2>7. QED
    BY <2>1, <2>2, <2>3, <2>4, <2>5, <2>6
<1>6. QED
  BY <1>1, <1>2, <1>3, <1>4, <1>5 DEF StoreInv

\* The rename is refused; unless writes overlap, the old file is being downloaded.
LEMMA RenameFailsInv ==
  ASSUME StoreInv, NEW w \in Writers, RenameFails(w)
  PROVE  StoreInv'
<1>1. TypeOK'
  BY DEF StoreInv, TypeOK, RenameFails
<1>2. JobFits'
  BY DEF StoreInv, TypeOK, JobFits, Replacing, RenameFails
<1>3. OpenFits'
  BY DEF StoreInv, TypeOK, OpenFits, RenameFails, CanRename
<1>4. WholeFits'
  BY DEF StoreInv, TypeOK, OpenFits, WholeFits, RenameFails, CanRename
<1>5. ASSUME ~overlapped'
      PROVE  AloneInv'
  <2> ~overlapped /\ AloneInv
    BY <1>5 DEF StoreInv, RenameFails
  <2> USE DEF AloneInv
  <2>1. Alone'
    BY DEF StoreInv, TypeOK, Alone, InWrite, Replacing, RenameFails
  <2>2. TextFits'
    BY DEF StoreInv, TypeOK, TextFits, Alone, InWrite, Replacing, RenameFails,
       CanRename
  <2>3. WritesCurrent'
    BY DEF StoreInv, TypeOK, WritesCurrent, Unsaved, Alone, JobFits, InWrite,
       Replacing, RenameFails
  <2>4. HadFits'
    BY DEF StoreInv, TypeOK, HadFits, TextFits, Alone, OpenFits, InWrite, Replacing,
       RenameFails, CanRename
  <2>5. KeptFits'
    BY DEF StoreInv, TypeOK, KeptFits, WritesCurrent, Unsaved, TextFits, Alone,
       JobFits, InWrite, Replacing, RenameFails, CanRename
  <2>6. TimingFits'
    BY DEF StoreInv, TypeOK, TimingFits, TextFits, JobFits, RenameFails
  <2>7. QED
    BY <2>1, <2>2, <2>3, <2>4, <2>5, <2>6
<1>6. QED
  BY <1>1, <1>2, <1>3, <1>4, <1>5 DEF StoreInv

\* The file editor writes a whole text, valid or not, the same way.
LEMMA EditInv ==
  ASSUME StoreInv, NEW c \in EditedFiles, Edit(c)
  PROVE  StoreInv'
<1>0. /\ overlapped' \in BOOLEAN
      /\ ~overlapped' => /\ ~overlapped /\ "upload" \notin opened
                         /\ \A v \in Writers \ {"web"} : ~InWrite(v)
  BY Zenon DEF StoreInv, TypeOK, Overlapping, Edit
<1>1. TypeOK'
  BY <1>0 DEF StoreInv, TypeOK, Edit
<1>2. JobFits'
  BY <1>0 DEF StoreInv, TypeOK, JobFits, Replacing, Edit
<1>3. OpenFits'
  BY <1>0 DEF StoreInv, TypeOK, OpenFits, Edit
<1>4. WholeFits'
  BY <1>0 DEF StoreInv, TypeOK, OpenFits, WholeFits, Edit
<1>5. ASSUME ~overlapped'
      PROVE  AloneInv'
  <2> /\ ~overlapped /\ AloneInv /\ "upload" \notin opened
      /\ \A v \in Writers \ {"web"} : ~InWrite(v)
    BY <1>0, <1>5 DEF StoreInv
  <2> USE DEF AloneInv
  <2>1. Alone'
    BY DEF StoreInv, TypeOK, Alone, InWrite, Replacing, Edit
  <2>2. TextFits'
    BY DEF JobFits, StoreInv, TypeOK, TextFits, Alone, InWrite, Replacing, Edit
  <2>3. WritesCurrent'
    BY DEF StoreInv, TypeOK, WritesCurrent, Unsaved, Alone, JobFits, InWrite,
       Replacing, Edit
  <2>4. HadFits'
    BY DEF StoreInv, TypeOK, HadFits, TextFits, Alone, OpenFits, InWrite, Replacing,
       Edit
  <2>5. KeptFits'
    BY DEF StoreInv, TypeOK, KeptFits, WritesCurrent, Unsaved, TextFits, Alone,
       JobFits, InWrite, Replacing, Edit
  <2>6. TimingFits'
    BY DEF StoreInv, TypeOK, TimingFits, TextFits, JobFits, Edit
  <2>7. QED
    BY <2>1, <2>2, <2>3, <2>4, <2>5, <2>6
<1>6. QED
  BY <1>1, <1>2, <1>3, <1>4, <1>5 DEF StoreInv

\* The edited file is about to be current.
LEMMA LoadEditedInv ==
  ASSUME StoreInv, LoadEdited
  PROVE  StoreInv'
<1>1. TypeOK'
  BY DEF StoreInv, TypeOK, LoadEdited
<1>2. JobFits'
  BY DEF StoreInv, TypeOK, JobFits, Replacing, LoadEdited
<1>3. OpenFits'
  BY DEF StoreInv, TypeOK, OpenFits, LoadEdited
<1>4. WholeFits'
  BY DEF StoreInv, TypeOK, OpenFits, WholeFits, LoadEdited
<1>5. ASSUME ~overlapped'
      PROVE  AloneInv'
  <2> ~overlapped /\ AloneInv
    BY <1>5 DEF StoreInv, LoadEdited
  <2> USE DEF AloneInv
  <2>1. Alone'
    BY DEF StoreInv, TypeOK, Alone, InWrite, Replacing, LoadEdited
  <2>2. TextFits'
    BY DEF StoreInv, TypeOK, TextFits, Alone, InWrite, Replacing, LoadEdited
  <2>3. WritesCurrent'
    BY DEF StoreInv, TypeOK, WritesCurrent, Unsaved, Alone, JobFits, InWrite,
       Replacing, LoadEdited
  <2>4. HadFits'
    BY DEF StoreInv, TypeOK, HadFits, TextFits, Alone, OpenFits, InWrite, Replacing,
       LoadEdited
  <2>5. KeptFits'
    BY DEF StoreInv, TypeOK, KeptFits, WritesCurrent, Unsaved, TextFits, Alone,
       JobFits, InWrite, Replacing, LoadEdited
  <2>6. TimingFits'
    BY DEF StoreInv, TypeOK, TimingFits, TextFits, JobFits, LoadEdited
  <2>7. QED
    BY <2>1, <2>2, <2>3, <2>4, <2>5, <2>6
<1>6. QED
  BY <1>1, <1>2, <1>3, <1>4, <1>5 DEF StoreInv

\* A file that does not parse has been lost to an overlapping write.
LEMMA LoadFailsInv ==
  ASSUME StoreInv, LoadFails
  PROVE  StoreInv'
<1>1. TypeOK'
  BY DEF StoreInv, TypeOK, JobFits, LoadFails
<1>2. JobFits'
  BY DEF StoreInv, TypeOK, JobFits, Replacing, LoadFails
<1>3. OpenFits'
  BY DEF StoreInv, TypeOK, OpenFits, LoadFails
<1>4. WholeFits'
  BY DEF StoreInv, TypeOK, OpenFits, WholeFits, LoadFails
<1>5. ASSUME ~overlapped'
      PROVE  AloneInv'
  <2> ~overlapped /\ AloneInv
    BY <1>5 DEF StoreInv, LoadFails
  <2> USE DEF AloneInv
  <2>1. Alone'
    BY DEF StoreInv, TypeOK, Alone, InWrite, Replacing, LoadFails
  <2>2. TextFits'
    BY DEF StoreInv, TypeOK, TextFits, Alone, InWrite, Replacing, LoadFails
  <2>3. WritesCurrent'
    BY DEF StoreInv, TypeOK, WritesCurrent, Unsaved, Alone, JobFits, InWrite,
       Replacing, LoadFails
  <2>4. HadFits'
    BY DEF StoreInv, TypeOK, HadFits, TextFits, Alone, OpenFits, InWrite, Replacing,
       LoadFails
  <2>5. KeptFits'
    BY DEF StoreInv, TypeOK, KeptFits, WritesCurrent, Unsaved, TextFits, Alone,
       JobFits, InWrite, Replacing, LoadFails
  <2>6. TimingFits'
    BY DEF StoreInv, TypeOK, TimingFits, TextFits, JobFits, LoadFails
  <2>7. QED
    BY <2>1, <2>2, <2>3, <2>4, <2>5, <2>6
<1>6. QED
  BY <1>1, <1>2, <1>3, <1>4, <1>5 DEF StoreInv

\* An upload begins where no other write is under way, or overlaps with it.
LEMMA UploadFirstInv ==
  ASSUME StoreInv, UploadFirst
  PROVE  StoreInv'
<1>0. /\ overlapped' \in BOOLEAN
      /\ ~overlapped' => /\ ~overlapped /\ "upload" \notin opened
                         /\ \A v \in Writers \ {"web"} : ~InWrite(v)
  BY Zenon DEF StoreInv, TypeOK, Overlapping, UploadFirst
<1>1. TypeOK'
  BY <1>0 DEF StoreInv, TypeOK, UploadFirst
<1>2. JobFits'
  BY <1>0 DEF StoreInv, TypeOK, JobFits, Replacing, UploadFirst
<1>3. OpenFits'
  BY <1>0 DEF StoreInv, TypeOK, OpenFits, UploadFirst
<1>4. WholeFits'
  BY <1>0 DEF StoreInv, TypeOK, OpenFits, WholeFits, UploadFirst
<1>5. ASSUME ~overlapped'
      PROVE  AloneInv'
  <2> /\ ~overlapped /\ AloneInv /\ "upload" \notin opened
      /\ \A v \in Writers \ {"web"} : ~InWrite(v)
    BY <1>0, <1>5 DEF StoreInv
  <2> USE DEF AloneInv
  <2>1. Alone'
    BY DEF JobFits, StoreInv, TypeOK, Alone, InWrite, Replacing, UploadFirst
  <2>2. TextFits'
    BY DEF JobFits, StoreInv, TypeOK, TextFits, Alone, InWrite, Replacing, UploadFirst
  <2>3. WritesCurrent'
    BY DEF StoreInv, TypeOK, WritesCurrent, Unsaved, Alone, JobFits, InWrite,
       Replacing, UploadFirst
  <2>4. HadFits'
    BY DEF StoreInv, TypeOK, HadFits, TextFits, Alone, OpenFits, InWrite, Replacing,
       UploadFirst
  <2>5. KeptFits'
    BY DEF StoreInv, TypeOK, KeptFits, WritesCurrent, Unsaved, TextFits, Alone,
       JobFits, InWrite, Replacing, UploadFirst
  <2>6. TimingFits'
    BY DEF StoreInv, TypeOK, TimingFits, TextFits, JobFits, UploadFirst
  <2>7. QED
    BY <2>1, <2>2, <2>3, <2>4, <2>5, <2>6
<1>6. QED
  BY <1>1, <1>2, <1>3, <1>4, <1>5 DEF StoreInv

\* The upload has the temporary file open.
LEMMA UploadOpensInv ==
  ASSUME StoreInv, UploadOpens
  PROVE  StoreInv'
<1>1. TypeOK'
  BY DEF StoreInv, TypeOK, UploadOpens
<1>2. JobFits'
  BY DEF StoreInv, TypeOK, JobFits, Replacing, UploadOpens
<1>3. OpenFits'
  BY DEF StoreInv, TypeOK, OpenFits, UploadOpens
<1>4. WholeFits'
  BY DEF StoreInv, TypeOK, OpenFits, WholeFits, UploadOpens
<1>5. ASSUME ~overlapped'
      PROVE  AloneInv'
  <2> ~overlapped /\ AloneInv
    BY <1>5 DEF StoreInv, UploadOpens
  <2> USE DEF AloneInv
  <2>1. Alone'
    BY DEF StoreInv, TypeOK, Alone, InWrite, Replacing, UploadOpens
  <2>2. TextFits'
    BY DEF StoreInv, TypeOK, TextFits, Alone, InWrite, Replacing, UploadOpens
  <2>3. WritesCurrent'
    BY DEF StoreInv, TypeOK, WritesCurrent, Unsaved, Alone, JobFits, InWrite,
       Replacing, UploadOpens
  <2>4. HadFits'
    BY DEF StoreInv, TypeOK, HadFits, TextFits, Alone, OpenFits, InWrite, Replacing,
       UploadOpens
  <2>5. KeptFits'
    BY DEF StoreInv, TypeOK, KeptFits, WritesCurrent, Unsaved, TextFits, Alone,
       JobFits, InWrite, Replacing, UploadOpens
  <2>6. TimingFits'
    BY DEF StoreInv, TypeOK, TimingFits, TextFits, JobFits, UploadOpens
  <2>7. QED
    BY <2>1, <2>2, <2>3, <2>4, <2>5, <2>6
<1>6. QED
  BY <1>1, <1>2, <1>3, <1>4, <1>5 DEF StoreInv

\* The upload is dropped, and an older one with it.
LEMMA UploadOpenFailsInv ==
  ASSUME StoreInv, UploadOpenFails
  PROVE  StoreInv'
<1>1. TypeOK'
  BY DEF StoreInv, TypeOK, UploadOpenFails, LetGo
<1>2. JobFits'
  BY DEF StoreInv, TypeOK, JobFits, Replacing, UploadOpenFails, LetGo
<1>3. OpenFits'
  BY DEF StoreInv, TypeOK, OpenFits, UploadOpenFails, LetGo
<1>4. WholeFits'
  BY DEF StoreInv, TypeOK, OpenFits, WholeFits, UploadOpenFails, LetGo
<1>5. ASSUME ~overlapped'
      PROVE  AloneInv'
  <2> ~overlapped /\ AloneInv
    BY <1>5 DEF StoreInv, UploadOpenFails, LetGo
  <2> USE DEF AloneInv
  <2>1. Alone'
    BY DEF StoreInv, TypeOK, Alone, InWrite, Replacing, UploadOpenFails, LetGo
  <2>2. TextFits'
    BY DEF StoreInv, TypeOK, TextFits, Alone, InWrite, Replacing, UploadOpenFails,
       LetGo
  <2>3. WritesCurrent'
    BY DEF StoreInv, TypeOK, WritesCurrent, Unsaved, Alone, JobFits, InWrite,
       Replacing, UploadOpenFails, LetGo
  <2>4. HadFits'
    BY DEF StoreInv, TypeOK, HadFits, TextFits, Alone, OpenFits, InWrite, Replacing,
       UploadOpenFails, LetGo
  <2>5. KeptFits'
    BY DEF StoreInv, TypeOK, KeptFits, WritesCurrent, Unsaved, TextFits, Alone,
       JobFits, InWrite, Replacing, UploadOpenFails, LetGo
  <2>6. TimingFits'
    BY DEF StoreInv, TypeOK, TimingFits, TextFits, JobFits, UploadOpenFails, LetGo
  <2>7. QED
    BY <2>1, <2>2, <2>3, <2>4, <2>5, <2>6
<1>6. QED
  BY <1>1, <1>2, <1>3, <1>4, <1>5 DEF StoreInv

\* An upload that was cut off is let go.
LEMMA UploadElsewhereInv ==
  ASSUME StoreInv, UploadElsewhere
  PROVE  StoreInv'
<1>1. TypeOK'
  BY DEF StoreInv, TypeOK, UploadElsewhere, LetGo
<1>2. JobFits'
  BY DEF StoreInv, TypeOK, JobFits, Replacing, UploadElsewhere, LetGo
<1>3. OpenFits'
  BY DEF StoreInv, TypeOK, OpenFits, UploadElsewhere, LetGo
<1>4. WholeFits'
  BY DEF StoreInv, TypeOK, OpenFits, WholeFits, UploadElsewhere, LetGo
<1>5. ASSUME ~overlapped'
      PROVE  AloneInv'
  <2> ~overlapped /\ AloneInv
    BY <1>5 DEF StoreInv, UploadElsewhere, LetGo
  <2> USE DEF AloneInv
  <2>1. Alone'
    BY DEF StoreInv, TypeOK, Alone, InWrite, Replacing, UploadElsewhere, LetGo
  <2>2. TextFits'
    BY DEF StoreInv, TypeOK, TextFits, Alone, InWrite, Replacing, UploadElsewhere,
       LetGo
  <2>3. WritesCurrent'
    BY DEF StoreInv, TypeOK, WritesCurrent, Unsaved, Alone, JobFits, InWrite,
       Replacing, UploadElsewhere, LetGo
  <2>4. HadFits'
    BY DEF StoreInv, TypeOK, HadFits, TextFits, Alone, OpenFits, InWrite, Replacing,
       UploadElsewhere, LetGo
  <2>5. KeptFits'
    BY DEF StoreInv, TypeOK, KeptFits, WritesCurrent, Unsaved, TextFits, Alone,
       JobFits, InWrite, Replacing, UploadElsewhere, LetGo
  <2>6. TimingFits'
    BY DEF StoreInv, TypeOK, TimingFits, TextFits, JobFits, UploadElsewhere, LetGo
  <2>7. QED
    BY <2>1, <2>2, <2>3, <2>4, <2>5, <2>6
<1>6. QED
  BY <1>1, <1>2, <1>3, <1>4, <1>5 DEF StoreInv

\* The upload is complete and goes on to the remove.
LEMMA UploadLastInv ==
  ASSUME StoreInv, NEW c \in Uploads, UploadLast(c)
  PROVE  StoreInv'
<1>1. TypeOK'
  BY DEF StoreInv, TypeOK, UploadLast
<1>2. JobFits'
  BY DEF StoreInv, TypeOK, JobFits, Replacing, UploadLast
<1>3. OpenFits'
  BY DEF StoreInv, TypeOK, OpenFits, UploadLast
<1>4. WholeFits'
  BY DEF StoreInv, TypeOK, OpenFits, WholeFits, UploadLast
<1>5. ASSUME ~overlapped'
      PROVE  AloneInv'
  <2> ~overlapped /\ AloneInv
    BY <1>5 DEF StoreInv, UploadLast
  <2> USE DEF AloneInv
  <2>1. Alone'
    BY DEF StoreInv, TypeOK, Alone, InWrite, Replacing, UploadLast
  <2>2. TextFits'
    BY DEF StoreInv, TypeOK, TextFits, Alone, InWrite, Replacing, UploadLast
  <2>3. WritesCurrent'
    BY DEF StoreInv, TypeOK, WritesCurrent, Unsaved, Alone, JobFits, InWrite,
       Replacing, UploadLast
  <2>4. HadFits'
    BY DEF StoreInv, TypeOK, HadFits, TextFits, Alone, OpenFits, InWrite, Replacing,
       UploadLast
  <2>5. KeptFits'
    BY DEF StoreInv, TypeOK, KeptFits, WritesCurrent, Unsaved, TextFits, Alone,
       JobFits, InWrite, Replacing, UploadLast
  <2>6. TimingFits'
    BY DEF StoreInv, TypeOK, TimingFits, TextFits, JobFits, UploadLast
  <2>7. QED
    BY <2>1, <2>2, <2>3, <2>4, <2>5, <2>6
<1>6. QED
  BY <1>1, <1>2, <1>3, <1>4, <1>5 DEF StoreInv

\* A deleted file is neither had nor kept.
LEMMA DeleteFileInv ==
  ASSUME StoreInv, DeleteFile
  PROVE  StoreInv'
<1>1. TypeOK'
  BY DEF StoreInv, TypeOK, DeleteFile
<1>2. JobFits'
  BY DEF StoreInv, TypeOK, JobFits, Replacing, DeleteFile
<1>3. OpenFits'
  BY DEF StoreInv, TypeOK, OpenFits, DeleteFile
<1>4. WholeFits'
  BY DEF StoreInv, TypeOK, OpenFits, WholeFits, DeleteFile
<1>5. ASSUME ~overlapped'
      PROVE  AloneInv'
  <2> ~overlapped /\ AloneInv
    BY <1>5 DEF StoreInv, DeleteFile
  <2> USE DEF AloneInv
  <2>1. Alone'
    BY DEF StoreInv, TypeOK, Alone, InWrite, Replacing, DeleteFile
  <2>2. TextFits'
    BY DEF JobFits, StoreInv, TypeOK, TextFits, Alone, InWrite, Replacing, DeleteFile
  <2>3. WritesCurrent'
    BY DEF StoreInv, TypeOK, WritesCurrent, Unsaved, Alone, JobFits, InWrite,
       Replacing, DeleteFile
  <2>4. HadFits'
    BY DEF StoreInv, TypeOK, HadFits, TextFits, Alone, OpenFits, InWrite, Replacing,
       DeleteFile
  <2>5. KeptFits'
    BY DEF StoreInv, TypeOK, KeptFits, WritesCurrent, Unsaved, TextFits, Alone,
       JobFits, InWrite, Replacing, DeleteFile
  <2>6. TimingFits'
    BY DEF StoreInv, TypeOK, TimingFits, TextFits, JobFits, DeleteFile
  <2>7. QED
    BY <2>1, <2>2, <2>3, <2>4, <2>5, <2>6
<1>6. QED
  BY <1>1, <1>2, <1>3, <1>4, <1>5 DEF StoreInv

\* A file that is there is opened.
LEMMA DownloadInv ==
  ASSUME StoreInv, Download
  PROVE  StoreInv'
<1>1. TypeOK'
  BY DEF StoreInv, TypeOK, Download
<1>2. JobFits'
  BY DEF StoreInv, TypeOK, JobFits, Replacing, Download
<1>3. OpenFits'
  BY DEF StoreInv, TypeOK, OpenFits, Download
<1>4. WholeFits'
  BY DEF StoreInv, TypeOK, OpenFits, WholeFits, Download
<1>5. ASSUME ~overlapped'
      PROVE  AloneInv'
  <2> ~overlapped /\ AloneInv
    BY <1>5 DEF StoreInv, Download
  <2> USE DEF AloneInv
  <2>1. Alone'
    BY DEF StoreInv, TypeOK, Alone, InWrite, Replacing, Download
  <2>2. TextFits'
    BY DEF StoreInv, TypeOK, TextFits, Alone, InWrite, Replacing, Download
  <2>3. WritesCurrent'
    BY DEF StoreInv, TypeOK, WritesCurrent, Unsaved, Alone, JobFits, InWrite,
       Replacing, Download
  <2>4. HadFits'
    BY DEF StoreInv, TypeOK, HadFits, TextFits, Alone, OpenFits, InWrite, Replacing,
       Download
  <2>5. KeptFits'
    BY DEF StoreInv, TypeOK, KeptFits, WritesCurrent, Unsaved, TextFits, Alone,
       JobFits, InWrite, Replacing, Download
  <2>6. TimingFits'
    BY DEF StoreInv, TypeOK, TimingFits, TextFits, JobFits, Download
  <2>7. QED
    BY <2>1, <2>2, <2>3, <2>4, <2>5, <2>6
<1>6. QED
  BY <1>1, <1>2, <1>3, <1>4, <1>5 DEF StoreInv

\* The file is closed again.
LEMMA DownloadedInv ==
  ASSUME StoreInv, Downloaded
  PROVE  StoreInv'
<1>1. TypeOK'
  BY DEF StoreInv, TypeOK, Downloaded
<1>2. JobFits'
  BY DEF StoreInv, TypeOK, JobFits, Replacing, Downloaded
<1>3. OpenFits'
  BY DEF StoreInv, TypeOK, OpenFits, Downloaded
<1>4. WholeFits'
  BY DEF StoreInv, TypeOK, OpenFits, WholeFits, Downloaded
<1>5. ASSUME ~overlapped'
      PROVE  AloneInv'
  <2> ~overlapped /\ AloneInv
    BY <1>5 DEF StoreInv, Downloaded
  <2> USE DEF AloneInv
  <2>1. Alone'
    BY DEF StoreInv, TypeOK, Alone, InWrite, Replacing, Downloaded
  <2>2. TextFits'
    BY DEF StoreInv, TypeOK, TextFits, Alone, InWrite, Replacing, Downloaded
  <2>3. WritesCurrent'
    BY DEF StoreInv, TypeOK, WritesCurrent, Unsaved, Alone, JobFits, InWrite,
       Replacing, Downloaded
  <2>4. HadFits'
    BY DEF StoreInv, TypeOK, HadFits, TextFits, Alone, OpenFits, InWrite, Replacing,
       Downloaded
  <2>5. KeptFits'
    BY DEF StoreInv, TypeOK, KeptFits, WritesCurrent, Unsaved, TextFits, Alone,
       JobFits, InWrite, Replacing, Downloaded
  <2>6. TimingFits'
    BY DEF StoreInv, TypeOK, TimingFits, TextFits, JobFits, Downloaded
  <2>7. QED
    BY <2>1, <2>2, <2>3, <2>4, <2>5, <2>6
<1>6. QED
  BY <1>1, <1>2, <1>3, <1>4, <1>5 DEF StoreInv

\* A power loss at any moment: boot loads what the file has, or the defaults.
LEMMA RestartInv ==
  ASSUME StoreInv, Restart
  PROVE  StoreInv'
<1>1. had' \in BOOLEAN
  <2>1. CASE file \in Contents
    BY <2>1 DEF Restart
  <2>2. CASE file \notin Contents
    BY <2>2 DEF Restart
  <2>3. QED
    BY <2>1, <2>2
<1>2. current' \in Config /\ applied' \in Behaviors
  BY DEF Restart
<1>3. TypeOK'
  BY <1>1, <1>2 DEF Restart, StoreInv, TypeOK
<1>4. JobFits' /\ OpenFits' /\ WholeFits'
  BY DEF Restart, StoreInv, JobFits, OpenFits, WholeFits
<1>5. AloneInv'
  BY DEF Restart, AloneInv, Alone, InWrite, Replacing, TextFits, WritesCurrent,
     HadFits,
     KeptFits, TimingFits
<1>6. QED
  BY <1>3, <1>4, <1>5 DEF StoreInv

\* Every step keeps the invariant.
LEMMA StoreStep == StoreInv /\ [Next]_vars => StoreInv'
<1> SUFFICES ASSUME StoreInv, [Next]_vars
             PROVE  StoreInv'
  OBVIOUS
<1>1. CASE \E w \in Writers : Request(w)
  BY <1>1, GetInv, SetInv, TakeInv, ApplyInv, SerializeInv DEF Request
<1>2. CASE \E w \in Writers : Write(w)
  BY <1>2, OpenTmpInv, OpenFailsInv, PrintTmpInv, RemoveFileInv, RenameTmpInv,
     RenameFailsInv DEF Write
<1>3. CASE (\E c \in EditedFiles : Edit(c)) \/ LoadEdited \/ LoadFails
  BY <1>3, EditInv, LoadEditedInv, LoadFailsInv
<1>4. CASE OtherRequest
  BY <1>4, UploadFirstInv, UploadOpensInv, UploadOpenFailsInv, UploadElsewhereInv,
     UploadLastInv, DeleteFileInv, DownloadInv, DownloadedInv DEF OtherRequest
<1>5. CASE UNCHANGED vars
  BY <1>5 DEF vars, StoreInv, TypeOK, JobFits, OpenFits, WholeFits, AloneInv, Alone,
     InWrite, Replacing, TextFits, WritesCurrent, HadFits, KeptFits, Unsaved, TimingFits
<1>6. QED
  BY <1>1, <1>2, <1>3, <1>4, <1>5, RestartInv DEF Next

-----------------------------------------------------------------------------
(* The theorems.                                                           *)

\* The parts of StoreInv hold in every reachable state.
THEOREM StoreInvariance == Spec => []StoreInv
<1>1. QED
  BY StoreInit, StoreStep, PTL DEF Spec

\* Every variable has its type.
THEOREM TypeCorrect == Spec => []TypeOK
<1>1. StoreInv => TypeOK
  BY DEF StoreInv
<1>2. QED
  BY <1>1, StoreInvariance, PTL

\* The configuration file is never half-written, wherever the power is lost
\* and whoever writes at the same time, but for an upload given up under a save.
THEOREM FileWhole == Spec => []NeverTorn
<1>1. StoreInv => NeverTorn
  BY DEF StoreInv, WholeFits, NeverTorn
<1>2. QED
  BY <1>1, StoreInvariance, PTL

\* As long as no two writes overlapped, a whole file that nobody deleted is
\* there, or its text in the temporary file, at every moment.
THEOREM ConfigurationStays == Spec => []NeverBothGone
<1>1. StoreInv => NeverBothGone
  BY DEF StoreInv, TypeOK, AloneInv, HadFits, TextFits, NeverBothGone
<1>2. QED
  BY <1>1, StoreInvariance, PTL

\* When set() has been through, the state machines run with the timing of the
\* configuration, unless the last callback had read an older one.
THEOREM TimingFollows == Spec => []TimingFollowsConfig
<1>1. StoreInv => TimingFollowsConfig
  BY DEF StoreInv, AloneInv, TimingFits, TimingFollowsConfig, NotInSet
<1>2. QED
  BY <1>1, StoreInvariance, PTL

\* As long as no two writes overlapped, a restart at rest after a write that
\* succeeded comes back with the configuration the device has.
THEOREM RestartKeeps == Spec => []RestartKeepsConfig
<1>1. StoreInv => RestartKeepsConfig
  BY DEF StoreInv, AloneInv, KeptFits, Unsaved, InWrite, Replacing, AtRest,
     RestartKeepsConfig
<1>2. QED
  BY <1>1, StoreInvariance, PTL
=============================================================================
