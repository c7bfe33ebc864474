------------------------------ MODULE WebUploads ------------------------------
(***************************************************************************)
(* The requests of the web server whose bodies arrive in pieces: the file  *)
(* editor, the file upload and the firmware update, with the download and  *)
(* the deletion of a file.  All callbacks run on the web server's task,    *)
(* one at a time, but the pieces of several requests arrive in any order,  *)
(* and what they are collected in is shared: one buffer for all edits, one *)
(* file for all uploads, one Update for all images.  A client may be cut   *)
(* off between two pieces; no handler is told.  The device may restart     *)
(* between two callbacks, and between the two calls that replace a file,   *)
(* remove and rename; elsewhere in a callback a restart is like one before *)
(* it or after it, the answer then being lost on its way.                  *)
(*                                                                         *)
(* A body is two pieces, its content the sequence of the pieces.  What a   *)
(* file named path.tmp holds is read by nobody before it is renamed, so    *)
(* only that of the open upload is kept.  LittleFS refuses to remove or    *)
(* rename a file that is open, and may be full.  How save() writes the     *)
(* configuration and what loads it is in ConfigStore.                      *)
(*                                                                         *)
(* `alone`, `spoiled`, `excused` and `cutOff` are history variables.       *)
(***************************************************************************)
EXTENDS Naturals, Sequences

CONSTANTS
  Requests,          \* each is made once, with a body of its own
  Paths,             \* the paths they name
  ConfigPath,        \* the one that must hold JSON
  None

Pieces == (Requests \cup {None}) \X (0 .. 2)

\* Between remove and rename: the request, the path, what path.tmp holds.
Replacements == [by : Requests, to : Paths, text : Seq(Pieces)]

\* None is told from requests, paths, contents and replacements.
ASSUME WebUploadsAssumption ==
  /\ ConfigPath \in Paths
  /\ None \notin Requests \cup Paths \cup Seq(Pieces) \cup Replacements

VARIABLES
  kind, path,        \* what each request is and names
  at,                \* "new", "sending", or how it was answered
  editBody,          \* _editBodyBuffer
  uploadPath, uploadFile,   \* static in the upload handler; None when not open
  update,            \* Update: is it running, its error, what was written
  image,             \* the firmware that the next boot starts
  file,              \* the files: content, or None
  renaming,          \* the replacement whose callback is about to rename, or None
  reading,           \* paths that a download has open
  alone,             \* requests without another of their kind in between
  spoiled,           \* paths whose content nobody sent
  excused,           \* paths deleted, or edited under an open upload
  cutOff             \* paths that a restart found removed and not renamed to

requests == <<kind, path, at>>
shared   == <<editBody, uploadPath, uploadFile, update>>
flash    == <<image, file>>
history  == <<alone, spoiled, excused>>
replaces == <<renaming, cutOff>>
vars     == <<requests, shared, flash, reading, history, replaces>>

Head1(r) == <<r, 1>>
Tail2(r) == <<r, 2>>
Body(r)  == <<Head1(r), Tail2(r)>>
Factory  == <<<<None, 1>>>>

NoUpdate == [running |-> FALSE, error |-> FALSE, written |-> <<>>]
Failed   == [running |-> FALSE, error |-> TRUE, written |-> <<>>]

Init ==
  /\ kind = [r \in Requests |-> None] /\ path = [r \in Requests |-> None]
  /\ at = [r \in Requests |-> "new"]
  /\ editBody = <<>> /\ uploadPath = None /\ uploadFile = None /\ update = NoUpdate
  /\ image = Factory /\ file = [p \in Paths |-> Factory] /\ reading = {}
  /\ alone = {} /\ spoiled = {} /\ excused = {}
  /\ renaming = None /\ cutOff = {}

\* The first piece of a request arrives; those of its kind on the way are disturbed.
Begin(r, k, p) ==
  /\ at[r] = "new"
  /\ kind' = [kind EXCEPT ![r] = k] /\ path' = [path EXCEPT ![r] = p]
  /\ at' = [at EXCEPT ![r] = "sending"]
  /\ alone' = {q \in alone : kind[q] # k} \cup {r}

\* The last piece of a request arrives and is answered.
End(r, k, answer) ==
  /\ at[r] = "sending" /\ kind[r] = k
  /\ at' = [at EXCEPT ![r] = answer]
  /\ alone' = {q \in alone : kind[q] # k}
  /\ UNCHANGED <<kind, path>>

\* A write to a file system that is full is cut short, and nobody looks.
Short == <<<<None, 0>>>>
Written(content) == {content, Short}

Spoiled(r, p, content) ==
  IF r \in alone /\ \A i \in DOMAIN content : content[i] # Short[1]
  THEN spoiled \ {p} ELSE spoiled \cup {p}

\* The last piece has arrived, and the old file is removed; the others of its kind
\* are disturbed.
Replace(r, k, p) ==
  /\ at[r] = "sending" /\ kind[r] = k
  /\ alone' = {q \in alone : kind[q] = k => q = r}
  /\ file' = IF p \in reading THEN file ELSE [file EXCEPT ![p] = None]
  /\ UNCHANGED requests

\* The rename is refused while a download has the old file open, or an upload the
\* temporary one: an edit is told, an upload is "ok" whatever happened.
Rename ==
  LET r == renaming.by
      p == renaming.to
      refused == p \in reading \/ (uploadFile # None /\ uploadPath = p)
  IN
  /\ renaming # None /\ renaming' = None
  /\ End(r, kind[r], IF kind[r] = "edit" /\ refused THEN "failed" ELSE "ok")
  /\ IF refused
     THEN /\ excused' = IF p \in reading THEN excused ELSE excused \cup {p}
          /\ UNCHANGED <<file, spoiled, cutOff>>
     ELSE /\ file' = [file EXCEPT ![p] = renaming.text]
          /\ spoiled' = Spoiled(r, p, renaming.text)
          /\ excused' = excused \ {p} /\ cutOff' = cutOff \ {p}
  /\ UNCHANGED <<shared, image, reading>>

-----------------------------------------------------------------------------
(* POST /api/files/edit: both pieces go to the callback for the body.      *)

EditFirst(r, p) ==
  /\ Begin(r, "edit", p)
  /\ editBody' = <<Head1(r)>>
  /\ UNCHANGED <<uploadPath, uploadFile, update, flash, reading, spoiled, excused>>

\* The path is in the first piece of the buffer, and the content runs from there
\* into the second; the parser looks no further.  Pieces of two requests may make
\* no JSON: the error is ignored, and the content is empty.
EditPath(body)    == path[body[1][1]]
EditContent(body) ==
  IF body[2] = Tail2(body[1][1]) THEN {SubSeq(body, 1, 2)}
                                 ELSE {SubSeq(body, 1, 2), <<>>}

\* Mutant: the old file is removed before the temporary one is opened.
EditRefusedLate(r) ==
  /\ End(r, "edit", "refused")
  /\ editBody' = Append(editBody, Tail2(r))
  /\ file' = IF EditPath(editBody') = None THEN file
             ELSE [file EXCEPT ![EditPath(editBody')] = None]
  /\ UNCHANGED <<uploadPath, uploadFile, update, image, reading, spoiled, excused>>

\* No path, or no JSON for the configuration, or the temporary file does not open.
EditRefused(r) ==
  /\ End(r, "edit", "refused")
  /\ editBody' = Append(editBody, Tail2(r))
  /\ UNCHANGED <<uploadPath, uploadFile, update, flash, reading, spoiled, excused>>

\* Write path.tmp and remove the old file, which is refused while a download has
\* it open.
EditLast(r) ==
  LET body == Append(editBody, Tail2(r))
      p    == EditPath(body)
  IN
  /\ p # None
  /\ editBody' = body
  /\ Replace(r, "edit", p)
  /\ \E content \in EditContent(body) : \E written \in Written(content) :
       /\ p = ConfigPath => content # <<>>
       /\ renaming' = [by |-> r, to |-> p, text |-> written]
  /\ UNCHANGED <<uploadPath, uploadFile, update, image, reading,
                 spoiled, excused, cutOff>>

-----------------------------------------------------------------------------
(* POST /api/files/upload: path.tmp stays open from piece to piece.        *)

\* Mutant: the file itself is opened and written.
UploadFirstInPlace(r, p) ==
  /\ Begin(r, "upload", p)
  /\ uploadPath' = p
  /\ uploadFile' = <<Head1(r)>> /\ file' = [file EXCEPT ![p] = uploadFile']
  /\ UNCHANGED <<editBody, update, image, reading, spoiled, excused>>

\* Opening closes what was open before.  It may fail; the pieces are then dropped.
UploadFirst(r, p) ==
  /\ Begin(r, "upload", p)
  /\ uploadPath' = p
  /\ uploadFile' \in {None} \cup Written(<<Head1(r)>>)
  /\ UNCHANGED <<editBody, update, flash, reading, spoiled, excused>>

UploadLast(r) ==
  /\ uploadFile # None /\ uploadFile' = None
  /\ Replace(r, "upload", uploadPath)
  /\ \E tail \in Written(<<Tail2(r)>>) :
       renaming' = [by |-> r, to |-> uploadPath, text |-> uploadFile \o tail]
  /\ UNCHANGED <<editBody, uploadPath, update, image, reading, spoiled, excused, cutOff>>

UploadDropped(r) ==
  /\ End(r, "upload", "ok")
  /\ uploadFile = None
  /\ UNCHANGED <<shared, flash, reading, spoiled, excused>>

-----------------------------------------------------------------------------
(* POST /update.  Update refuses to begin twice, drops what is written to  *)
(* it when it is not running, and activates only an image that verifies.   *)

\* That it cannot begin is printed only, but leaves an error; so does a piece that
\* cannot be written, which shows at the end.
UpdateFirst(r) ==
  /\ Begin(r, "update", None)
  /\ IF update.running
     THEN update' = [update EXCEPT !.written = Append(@, Head1(r))]
     ELSE \/ update' = [running |-> TRUE, error |-> FALSE, written |-> <<Head1(r)>>]
          \/ update' = Failed
  /\ UNCHANGED <<editBody, uploadPath, uploadFile, flash, reading, spoiled, excused>>

\* After a restart only flash is left; the clients find their connections cut.
Cut == [r \in Requests |-> IF at[r] = "sending" THEN "cut" ELSE at[r]]

Reset ==
  /\ editBody' = <<>> /\ uploadPath' = None /\ uploadFile' = None
  /\ update' = NoUpdate /\ reading' = {}
  /\ alone' = {}
  /\ UNCHANGED <<file, spoiled, excused>>

\* end() activates what is one whole image, and a good one.
Verifies(written) == update.running /\ \E r \in Requests : written = Body(r)

\* Mutant: an image that fails to verify leaves no error behind.
UpdateLastNoError(r) ==
  /\ at[r] = "sending" /\ kind[r] = "update"
  /\ \E activated \in BOOLEAN :
       LET written == Append(update.written, Tail2(r)) IN
       /\ activated => Verifies(written)
       /\ image' = IF activated THEN written ELSE image
       /\ at' = [Cut EXCEPT ![r] = "ok"] /\ Reset
       /\ UNCHANGED <<kind, path>>

\* The handler answers, and restarts after a second, unless Update has an error.
UpdateLast(r) ==
  /\ at[r] = "sending" /\ kind[r] = "update"
  /\ \E activated \in BOOLEAN :
       LET written == Append(update.written, Tail2(r))
           error   == IF update.running THEN ~activated ELSE update.error
       IN
       /\ activated => Verifies(written)
       /\ image' = IF activated THEN written ELSE image
       /\ IF error
          THEN /\ End(r, "update", "failed")
               /\ update' = Failed
               /\ UNCHANGED <<editBody, uploadPath, uploadFile, file, reading,
                              spoiled, excused>>
          ELSE /\ at' = [Cut EXCEPT ![r] = "ok"] /\ Reset
               /\ UNCHANGED <<kind, path>>

\* A form without a file reaches the handler only.
UpdateEmpty(r) ==
  /\ at[r] = "new"
  /\ kind' = [kind EXCEPT ![r] = "update"] /\ UNCHANGED <<path, image>>
  /\ IF update.error
     THEN /\ at' = [at EXCEPT ![r] = "failed"]
          /\ UNCHANGED <<shared, file, reading, history>>
     ELSE at' = [Cut EXCEPT ![r] = "empty"] /\ Reset

-----------------------------------------------------------------------------
(* The other requests, the connections and the power.                      *)

\* DELETE /api/files
Delete(p) ==
  /\ p \notin reading /\ file[p] # None
  /\ file' = [file EXCEPT ![p] = None]
  /\ excused' = excused \cup {p} /\ spoiled' = spoiled \ {p}
  /\ UNCHANGED <<requests, shared, image, reading, alone>>

\* GET /api/files/download keeps the file open until the client has it.
Download(p) ==
  /\ p \notin reading /\ file[p] # None
  /\ reading' = reading \cup {p}
  /\ UNCHANGED <<requests, shared, flash, history>>

Downloaded(p) ==
  /\ p \in reading
  /\ reading' = reading \ {p}
  /\ UNCHANGED <<requests, shared, flash, history>>

Disconnect(r) ==
  /\ at[r] = "sending"
  /\ at' = [at EXCEPT ![r] = "cut"]
  /\ UNCHANGED <<kind, path, shared, flash, reading, history>>

\* A power cut, POST /api/reboot, or the Wi-Fi watchdog: between two callbacks, or
\* in one that has removed a file.
Restart ==
  /\ at' = Cut /\ Reset
  /\ renaming' = None
  /\ cutOff' = IF renaming = None \/ renaming.to \in reading THEN cutOff
               ELSE cutOff \cup {renaming.to}
  /\ UNCHANGED <<kind, path, image>>

\* The callbacks that replace no file, and what happens between callbacks.
Other ==
  \/ \E r \in Requests :
       \/ \E p \in Paths \cup {None} : EditFirst(r, p)
       \/ \E p \in Paths : UploadFirst(r, p)
       \/ EditRefused(r) \/ UploadDropped(r)
       \/ UpdateFirst(r) \/ UpdateLast(r) \/ UpdateEmpty(r)
       \/ Disconnect(r)
  \/ \E p \in Paths : Delete(p) \/ Download(p) \/ Downloaded(p)

Next ==
  \/ renaming = None /\ Other /\ UNCHANGED replaces
  \/ renaming = None /\ \E r \in Requests : EditLast(r) \/ UploadLast(r)
  \/ Rename
  \/ Restart

Spec == Init /\ [][Next]_vars

-----------------------------------------------------------------------------
\* However the pieces mix, clients give up and the device restarts: a file is what
\* it was or the whole body of one request that named it, unless two of a kind
\* overlapped or the disk was full; and it is there, unless it was deleted, or edited
\* while an upload of it was open, or is being replaced.  Between remove and rename
\* it is gone, and for good if the device restarts there.
FilesAreWhole ==
  \A p \in Paths :
    /\ p \notin spoiled =>
         file[p] \in {None, Factory} \cup {Body(r) : r \in {q \in Requests : path[q] = p}}
    /\ file[p] = None => \/ p \in excused \cup cutOff
                         \/ renaming # None /\ renaming.to = p

\* A request that is answered with "ok" is kept: an edit that no other edit came
\* between is on file as it was sent, or cut short by a full disk, and after an update
\* the next boot is the image that this request sent, whatever the updates before it
\* have left in Update.
OkIsKept ==
  [][\A r \in Requests : at[r] = "sending" /\ at'[r] = "ok" =>
       /\ kind[r] = "edit" /\ r \in alone => file'[path[r]] \in Written(Body(r))
       /\ kind[r] = "update" => image' = Body(r)]_vars
=============================================================================
