-------------------------- MODULE WebUploadsProofs --------------------------
(***************************************************************************)
(* The files and the firmware image of WebUploads, for any number of       *)
(* requests and any paths.                                                 *)
(***************************************************************************)
EXTENDS WebUploads, SequenceTheorems, TLAPS

-----------------------------------------------------------------------------
(* The inductive invariant.                                                *)

\* What the requests send.
Sent == Requests \X {1, 2}

\* Where a request stands.
Places == {"new", "sending", "ok", "refused", "failed", "cut", "empty"}

\* The types, that of what is collected included.
Types ==
  /\ kind \in [Requests -> {None, "edit", "upload", "update"}]
  /\ path \in [Requests -> Paths \cup {None}]
  /\ at \in [Requests -> Places]
  /\ editBody \in Seq(Sent)
  /\ uploadFile # None => uploadFile \in Seq(Pieces) /\ uploadPath \in Paths
  /\ update \in [running : BOOLEAN, error : BOOLEAN, written : Seq(Sent)]
  /\ file \in [Paths -> Seq(Pieces) \cup {None}]
  /\ renaming \in Replacements \cup {None}

Sending(r, k) == at[r] = "sending" /\ kind[r] = k

\* The path of a request is that of its first piece, and stays.
NewHasNoPath == \A r \in Requests : at[r] = "new" => path[r] = None

\* A download reads a file.
ReadIsThere == \A p \in Paths : p \in reading => file[p] # None

\* The callback of the last piece is about to rename.
Renaming(r) == renaming # None /\ renaming.by = r

\* The buffer has the first piece of an edit that no other came between.
EditFits ==
  \A r \in Requests : Sending(r, "edit") =>
    /\ editBody # <<>>
    /\ r \in alone /\ ~Renaming(r) => editBody = <<Head1(r)>>

\* So has the open file that of such an upload, if it could be opened and written.
UploadFits ==
  \A r \in Requests : Sending(r, "upload") /\ r \in alone =>
    /\ uploadPath = path[r]
    /\ uploadFile \in {None, <<Head1(r)>>, Short}

\* Update runs while an image is on its way, or knows why it does not.
UpdateFits == \A r \in Requests : Sending(r, "update") => update.running \/ update.error

Unspoiled(content) == \A i \in DOMAIN content : content[i] # Short[1]

\* A replacement that no other of its kind came between is the body of its request.
RenameFits ==
  renaming # None =>
    /\ kind[renaming.by] # "update"
    /\ renaming.by \in alone =>
         /\ renaming.to = path[renaming.by]
         /\ kind[renaming.by] = "edit" => renaming.text \in Written(Body(renaming.by))
         /\ Unspoiled(renaming.text) => renaming.text = Body(renaming.by)

\* Why a file may not be there.
Gone(p) == p \in excused \cup cutOff \/ (renaming # None /\ renaming.to = p)

\* What FilesAreWhole says of one file.
Whole(p) ==
  /\ p \notin spoiled =>
       file[p] \in {None, Factory} \cup {Body(r) : r \in {q \in Requests : path[q] = p}}
  /\ file[p] = None => Gone(p)

\* What is collected fits the requests that are sending.
CollectInv ==
  /\ Types /\ NewHasNoPath /\ EditFits /\ UploadFits /\ UpdateFits /\ RenameFits
  /\ ReadIsThere
UploadsInv == CollectInv /\ FilesAreWhole

USE WebUploadsAssumption DEF requests, shared, flash, history, replaces, Places

-----------------------------------------------------------------------------
(* Pieces and contents.                                                    *)

\* The pieces of a request, and the content that is on file or cut short.
LEMMA PieceTypes ==
  /\ \A r \in Requests : /\ Head1(r) \in Sent /\ Tail2(r) \in Sent
                         /\ <<Head1(r)>> \in Seq(Sent)
                         /\ <<Head1(r)>> \in Seq(Pieces) /\ <<Tail2(r)>> \in Seq(Pieces)
                         /\ Body(r) \in Seq(Pieces)
  /\ Factory \in Seq(Pieces) /\ Short \in Seq(Pieces)
  /\ Sent \subseteq Pieces
<1>1. Sent \subseteq Pieces
  BY DEF Sent, Pieces
<1>2. ASSUME NEW r \in Requests
      PROVE  Head1(r) \in Sent /\ Tail2(r) \in Sent
  BY DEF Head1, Tail2, Sent
<1>3. <<None, 1>> \in Pieces /\ <<None, 0>> \in Pieces
  BY DEF Pieces
<1>4. QED
  BY <1>1, <1>2, <1>3 DEF Body, Factory, Short

\* A piece more in what is collected.
LEMMA OneMore ==
  ASSUME NEW S, NEW s \in Seq(S), NEW e \in S
  PROVE  /\ Append(s, e) \in Seq(S)
         /\ Append(s, e)[1] \in S
         /\ s # <<>> => /\ Append(s, e)[2] \in S /\ Len(Append(s, e)) >= 2
                        /\ Append(s, e)[1] = s[1]
OBVIOUS

\* The first two pieces.
LEMMA FirstTwo ==
  ASSUME NEW S, NEW s \in Seq(S), Len(s) >= 2
  PROVE  SubSeq(s, 1, 2) \in Seq(S)
OBVIOUS

\* Two pieces are the same content, however they are put together.
LEMMA TwoPieces ==
  ASSUME NEW S, NEW h \in S, NEW t \in S
  PROVE  /\ Append(<<h>>, t) = <<h, t>>
         /\ <<h>> \o <<t>> = <<h, t>>
         /\ SubSeq(<<h, t>>, 1, 2) = <<h, t>>
<1>1. ASSUME NEW s \in Seq(S), Len(s) = 2, s[1] = h, s[2] = t
      PROVE  s = <<h, t>>
  <2>1. <<h, t>> \in Seq(S) /\ Len(<<h, t>>) = 2
    OBVIOUS
  <2>2. \A i \in 1 .. Len(s) : s[i] = <<h, t>>[i]
    BY <1>1
  <2>3. QED
    BY <1>1, <2>1, <2>2, SeqEqual
<1>2. /\ Append(<<h>>, t) \in Seq(S) /\ Len(Append(<<h>>, t)) = 2
      /\ Append(<<h>>, t)[1] = h /\ Append(<<h>>, t)[2] = t
  OBVIOUS
<1>3. /\ <<h>> \o <<t>> \in Seq(S) /\ Len(<<h>> \o <<t>>) = 2
      /\ (<<h>> \o <<t>>)[1] = h /\ (<<h>> \o <<t>>)[2] = t
  OBVIOUS
<1>4. /\ SubSeq(<<h, t>>, 1, 2) \in Seq(S) /\ Len(SubSeq(<<h, t>>, 1, 2)) = 2
      /\ SubSeq(<<h, t>>, 1, 2)[1] = h /\ SubSeq(<<h, t>>, 1, 2)[2] = t
  OBVIOUS
<1>5. QED
  BY <1>1, <1>2, <1>3, <1>4

\* What an edit takes from the buffer when its last piece has arrived.
LEMMA EditTakes ==
  ASSUME CollectInv, NEW r \in Requests, Sending(r, "edit"), renaming = None
  PROVE  LET body == Append(editBody, Tail2(r))
         IN  /\ body \in Seq(Sent)
             /\ EditPath(body) \in Paths \cup {None}
             /\ EditContent(body) \subseteq Seq(Pieces)
             /\ r \in alone => EditPath(body) = path[r] /\ EditContent(body) = {Body(r)}
<1> DEFINE body == Append(editBody, Tail2(r))
<1>1. editBody \in Seq(Sent) /\ editBody # <<>> /\ Tail2(r) \in Sent
  BY PieceTypes DEF CollectInv, Types, EditFits
<1>2. body \in Seq(Sent) /\ body[1] \in Sent /\ body[2] \in Sent /\ Len(body) >= 2
  BY <1>1, OneMore
<1>3. EditPath(body) \in Paths \cup {None}
  <2>1. body[1][1] \in Requests
    BY <1>2 DEF Sent
  <2>2. QED
    BY <2>1 DEF EditPath, CollectInv, Types
<1>4. EditContent(body) \subseteq Seq(Pieces)
  <2>1. body \in Seq(Pieces)
    BY <1>2, PieceTypes
  <2>2. SubSeq(body, 1, 2) \in Seq(Pieces) /\ <<>> \in Seq(Pieces)
    BY <1>2, <2>1, FirstTwo
  <2>3. QED
    BY <2>2 DEF EditContent
<1>5. ASSUME r \in alone
      PROVE  EditPath(body) = path[r] /\ EditContent(body) = {Body(r)}
  <2>1. editBody = <<Head1(r)>>
    BY <1>5 DEF CollectInv, EditFits, Renaming
  <2>2. body = Body(r)
    BY <2>1, PieceTypes, TwoPieces DEF Body
  <2>3. body[1][1] = r /\ body[2] = Tail2(r)
    BY <2>2 DEF Body, Head1
  <2>4. SubSeq(Body(r), 1, 2) = Body(r)
    BY PieceTypes, TwoPieces DEF Body
  <2>5. QED
    BY <2>2, <2>3, <2>4 DEF EditPath, EditContent
<1>6. QED
  BY <1>2, <1>3, <1>4, <1>5

\* What an upload leaves in its file, and how it is if nobody spoiled it.
LEMMA UploadTakes ==
  ASSUME CollectInv, NEW r \in Requests, Sending(r, "upload"), uploadFile # None,
         NEW tail \in Written(<<Tail2(r)>>)
  PROVE  /\ uploadPath \in Paths /\ uploadFile \o tail \in Seq(Pieces)
         /\ r \in alone => uploadPath = path[r]
         /\ r \in alone /\ Unspoiled(uploadFile \o tail) => uploadFile \o tail = Body(r)
<1>1. uploadPath \in Paths /\ uploadFile \in Seq(Pieces)
  BY DEF CollectInv, Types
<1>2. tail \in {<<Tail2(r)>>, Short}
  BY DEF Written
<1>3. tail \in Seq(Pieces)
  BY <1>2, PieceTypes
<1>4. uploadFile \o tail \in Seq(Pieces)
  BY <1>1, <1>3
<1>5. ASSUME r \in alone, Unspoiled(uploadFile \o tail)
      PROVE  uploadFile \o tail = Body(r)
  <2>1. uploadPath = path[r] /\ uploadFile \in {<<Head1(r)>>, Short}
    BY <1>5 DEF CollectInv, UploadFits
  <2>2. Len(uploadFile) = 1 /\ Len(tail) = 1
    BY <1>2, <2>1 DEF Short
  <2>3. /\ (uploadFile \o tail)[1] = uploadFile[1]
        /\ (uploadFile \o tail)[2] = tail[1]
        /\ DOMAIN (uploadFile \o tail) = 1 .. 2
    <3>1. /\ Len(uploadFile \o tail) = 2
          /\ \A i \in 1 .. 2 : (uploadFile \o tail)[i] =
               IF i <= 1 THEN uploadFile[i] ELSE tail[i - 1]
      <4>1. /\ Len(uploadFile \o tail) = Len(uploadFile) + Len(tail)
            /\ \A i \in 1 .. Len(uploadFile) + Len(tail) : (uploadFile \o tail)[i] =
                 IF i <= Len(uploadFile) THEN uploadFile[i] ELSE tail[i - Len(uploadFile)]
        BY <1>1, <1>3, ConcatProperties
      <4>2. QED
        BY <2>2, <4>1
    <3>2. DOMAIN (uploadFile \o tail) = 1 .. Len(uploadFile \o tail)
      BY <1>4
    <3>3. QED
      BY <3>1, <3>2
  <2>4. uploadFile # Short /\ tail # Short
    BY <1>5, <2>3 DEF Unspoiled
  <2>5. uploadFile = <<Head1(r)>> /\ tail = <<Tail2(r)>>
    BY <1>2, <2>1, <2>4
  <2>6. QED
    BY <2>1, <2>5, PieceTypes, TwoPieces DEF Body
<1>6. r \in alone => uploadPath = path[r]
  BY DEF CollectInv, UploadFits
<1>7. QED
  BY <1>1, <1>4, <1>5, <1>6

-----------------------------------------------------------------------------
(* Every step keeps the invariant.                                         *)


\* A file that is left alone stays whole: the requests that name a path still do.
LEMMA WholeStays ==
  ASSUME FilesAreWhole, path \in [Requests -> Paths \cup {None}], NEW p \in Paths,
         \A r \in Requests : path[r] # None => path'[r] = path[r],
         file'[p] = file[p],
         p \notin spoiled' => p \notin spoiled,
         Gone(p) => Gone(p)'
  PROVE  Whole(p)'
<1>1. Whole(p)
  BY DEF FilesAreWhole, Whole, Gone
<1>2. p # None
  OBVIOUS
<1>3. {Body(r) : r \in {q \in Requests : path[q] = p}}
        \subseteq {Body(r) : r \in {q \in Requests : path'[q] = p}}
  BY <1>2
<1>4. QED
  BY <1>1, <1>3 DEF Whole

\* At boot the files are those of the image.
LEMMA UploadsInit == Init => UploadsInv
<1> SUFFICES ASSUME Init
             PROVE  UploadsInv
  OBVIOUS
<1>1. Types
  <2>1. <<>> \in Seq(Sent) /\ Factory \in Seq(Pieces)
    BY PieceTypes
  <2>2. update \in [running : BOOLEAN, error : BOOLEAN, written : Seq(Sent)]
    BY <2>1 DEF Init, NoUpdate
  <2>3. file \in [Paths -> Seq(Pieces) \cup {None}]
    BY <2>1 DEF Init
  <2>4. QED
    BY <2>1, <2>2, <2>3 DEF Init, Types
<1>2. NewHasNoPath /\ ReadIsThere /\ EditFits /\ UploadFits /\ UpdateFits /\ RenameFits
  BY PieceTypes DEF Init, ReadIsThere, NewHasNoPath, EditFits, UploadFits, UpdateFits,
     RenameFits, Renaming, Sending
<1>3. FilesAreWhole
  <2>1. Factory # None
    BY PieceTypes
  <2>2. QED
    BY <2>1 DEF Init, FilesAreWhole
<1>4. QED
  BY <1>1, <1>2, <1>3 DEF UploadsInv, CollectInv


\* No file is being replaced, and none begins to be.
Still == renaming = None /\ UNCHANGED replaces

\* The first piece of an edit starts the buffer again.
LEMMA EditFirstInv ==
  ASSUME UploadsInv, Still,
         NEW r \in Requests, NEW p \in Paths \cup {None}, EditFirst(r, p)
  PROVE  UploadsInv'
<1> USE DEF UploadsInv, CollectInv, Still, EditFirst, Begin
<1>1. Types'
  BY PieceTypes DEF Types
<1>2. NewHasNoPath' /\ ReadIsThere'
  BY DEF NewHasNoPath, ReadIsThere, Types
<1>3. EditFits' /\ UploadFits' /\ UpdateFits' /\ RenameFits'
  BY DEF EditFits, UploadFits, UpdateFits, RenameFits, Renaming, Sending, Types
<1>4. FilesAreWhole'
  <2>1. \A p2 \in Paths : Whole(p2)'
    BY WholeStays DEF Gone, NewHasNoPath, Types
  <2>2. QED
    BY <2>1 DEF FilesAreWhole, Whole, Gone
<1>5. QED
  BY <1>1, <1>2, <1>3, <1>4

\* The last piece of an edit that is refused leaves the files alone.
LEMMA EditRefusedInv ==
  ASSUME UploadsInv, Still, NEW r \in Requests, EditRefused(r)
  PROVE  UploadsInv'
<1> USE DEF UploadsInv, CollectInv, Still, EditRefused, End
<1>1. Types'
  <2>1. Append(editBody, Tail2(r)) \in Seq(Sent)
    BY PieceTypes, OneMore DEF Types
  <2>2. QED
    BY <2>1 DEF Types
<1>2. NewHasNoPath' /\ ReadIsThere'
  BY DEF NewHasNoPath, ReadIsThere, Types
<1>3. EditFits' /\ UploadFits' /\ UpdateFits' /\ RenameFits'
  <2>1. editBody' # <<>>
    BY DEF Types
  <2>2. QED
    BY <2>1 DEF EditFits, UploadFits, UpdateFits, RenameFits, Renaming, Sending, Types
<1>4. FilesAreWhole'
  BY DEF FilesAreWhole
<1>5. QED
  BY <1>1, <1>2, <1>3, <1>4

\* The old file is removed: the path is one that is being replaced.
LEMMA ReplaceFiles ==
  ASSUME UploadsInv, NEW r \in Requests, NEW k, NEW p \in Paths, Replace(r, k, p),
         renaming = None, renaming' # None, renaming'.to = p,
         UNCHANGED <<spoiled, excused, cutOff, reading>>
  PROVE  FilesAreWhole' /\ ReadIsThere' /\ file' \in [Paths -> Seq(Pieces) \cup {None}]
<1> USE DEF UploadsInv, CollectInv, Replace
<1>1. file' \in [Paths -> Seq(Pieces) \cup {None}]
  BY DEF Types
<1>2. ASSUME NEW q \in Paths, q # p \/ p \in reading
      PROVE  Whole(q)'
  <2>1. file'[q] = file[q]
    BY <1>2 DEF Types
  <2>2. QED
    BY <2>1, WholeStays DEF Types, Gone
<1>3. ASSUME p \notin reading
      PROVE  Whole(p)'
  <2>1. file'[p] = None /\ Gone(p)'
    BY <1>3 DEF Types, Gone
  <2>2. QED
    BY <2>1 DEF Whole
<1>4. \A q \in Paths : Whole(q)'
  BY <1>2, <1>3
<1>5. ReadIsThere'
  BY DEF ReadIsThere, Types
<1>6. QED
  BY <1>1, <1>4, <1>5 DEF FilesAreWhole, Whole, Gone

\* An edit writes path.tmp and removes the old file: what it will rename is the body
\* of an edit that no other came between.
LEMMA EditLastInv ==
  ASSUME UploadsInv, renaming = None, NEW r \in Requests, EditLast(r)
  PROVE  UploadsInv'
<1> USE DEF UploadsInv, CollectInv
<1> DEFINE body == Append(editBody, Tail2(r))
           p    == EditPath(body)
<1>1. /\ Sending(r, "edit") /\ p # None /\ editBody' = body
      /\ alone' = {q \in alone : kind[q] = "edit" => q = r}
      /\ UNCHANGED <<kind, path, at, uploadPath, uploadFile, update>>
  BY DEF EditLast, Replace, Sending
<1>2. PICK content \in EditContent(body) : \E written \in Written(content) :
        renaming' = [by |-> r, to |-> p, text |-> written]
  BY DEF EditLast
<1>3. PICK written \in Written(content) :
        renaming' = [by |-> r, to |-> p, text |-> written]
  BY <1>2
<1>4. /\ body \in Seq(Sent) /\ p \in Paths /\ content \in Seq(Pieces)
      /\ r \in alone => p = path[r] /\ content = Body(r)
  BY <1>1, EditTakes
<1>5. written \in {content, Short} /\ written \in Seq(Pieces)
  BY <1>3, <1>4, PieceTypes DEF Written
<1>6. Replace(r, "edit", p) /\ UNCHANGED <<spoiled, excused, cutOff, reading>>
  BY DEF EditLast
<1> HIDE DEF body, p
<1>7. /\ renaming' \in Replacements /\ renaming' # None
      /\ renaming'.by = r /\ renaming'.to = p /\ renaming'.text = written
  <2>1. renaming' \in Replacements
    BY <1>3, <1>4, <1>5 DEF Replacements
  <2>2. QED
    BY <1>3, <2>1
<1>8. FilesAreWhole' /\ ReadIsThere' /\ file' \in [Paths -> Seq(Pieces) \cup {None}]
  BY <1>4, <1>6, <1>7, ReplaceFiles
<1>9. Types'
  BY <1>1, <1>4, <1>7, <1>8 DEF Types
<1>10. NewHasNoPath'
  BY <1>1 DEF NewHasNoPath, Types
<1>11. EditFits' /\ UploadFits' /\ UpdateFits'
  <2>1. editBody' # <<>>
    BY <1>1 DEF body, Types
  <2>2. QED
    BY <1>1, <1>7, <2>1 DEF EditFits, UploadFits, UpdateFits, Renaming, Sending, Types
<1>12. RenameFits'
  <2>1. ASSUME r \in alone
        PROVE  /\ p = path[r] /\ written \in Written(Body(r))
               /\ Unspoiled(written) => written = Body(r)
    <3>1. Unspoiled(written) => written # Short
      BY DEF Unspoiled, Short
    <3>2. QED
      BY <1>3, <1>4, <1>5, <2>1, <3>1
  <2>2. QED
    BY <1>1, <1>7, <2>1 DEF RenameFits, Sending
<1>13. QED
  BY <1>8, <1>9, <1>10, <1>11, <1>12

\* The first piece of an upload closes what was open before.
LEMMA UploadFirstInv ==
  ASSUME UploadsInv, Still, NEW r \in Requests, NEW p \in Paths, UploadFirst(r, p)
  PROVE  UploadsInv'
<1> USE DEF UploadsInv, CollectInv, Still, UploadFirst, Begin
<1>1. uploadFile' \in {None, <<Head1(r)>>, Short}
  BY DEF Written
<1>2. Types'
  <2>1. uploadFile' # None => uploadFile' \in Seq(Pieces) /\ uploadPath' \in Paths
    BY <1>1, PieceTypes
  <2>2. QED
    BY <2>1 DEF Types
<1>3. NewHasNoPath' /\ ReadIsThere'
  BY DEF NewHasNoPath, ReadIsThere, Types
<1>4. EditFits' /\ UpdateFits' /\ RenameFits'
  BY DEF EditFits, UpdateFits, RenameFits, Renaming, Sending, Types
<1>5. UploadFits'
  BY <1>1 DEF UploadFits, Sending, Types
<1>6. FilesAreWhole'
  <2>1. \A p2 \in Paths : Whole(p2)'
    BY WholeStays DEF Gone, NewHasNoPath, Types
  <2>2. QED
    BY <2>1 DEF FilesAreWhole, Whole, Gone
<1>7. QED
  BY <1>2, <1>3, <1>4, <1>5, <1>6

\* The last piece of an upload closes the file: what it will rename is the body of an
\* upload that no other came between.
LEMMA UploadLastInv ==
  ASSUME UploadsInv, renaming = None, NEW r \in Requests, UploadLast(r)
  PROVE  UploadsInv'
<1> USE DEF UploadsInv, CollectInv
<1>1. /\ Sending(r, "upload") /\ uploadFile # None /\ uploadFile' = None
      /\ alone' = {q \in alone : kind[q] = "upload" => q = r}
      /\ UNCHANGED <<kind, path, at, editBody, uploadPath, update>>
  BY DEF UploadLast, Replace, Sending
<1>2. PICK tail \in Written(<<Tail2(r)>>) :
        renaming' = [by |-> r, to |-> uploadPath, text |-> uploadFile \o tail]
  BY DEF UploadLast
<1> DEFINE content == uploadFile \o tail
<1>3. /\ uploadPath \in Paths /\ content \in Seq(Pieces)
      /\ r \in alone => uploadPath = path[r]
      /\ r \in alone /\ Unspoiled(content) => content = Body(r)
  BY <1>1, UploadTakes
<1>4. renaming' = [by |-> r, to |-> uploadPath, text |-> content]
  BY <1>2
<1>5. Replace(r, "upload", uploadPath) /\ UNCHANGED <<spoiled, excused, cutOff, reading>>
  BY DEF UploadLast
<1> HIDE DEF content
<1>6. /\ renaming' \in Replacements /\ renaming' # None
      /\ renaming'.by = r /\ renaming'.to = uploadPath /\ renaming'.text = content
  <2>1. renaming' \in Replacements
    BY <1>3, <1>4 DEF Replacements
  <2>2. QED
    BY <1>4, <2>1
<1>7. FilesAreWhole' /\ ReadIsThere' /\ file' \in [Paths -> Seq(Pieces) \cup {None}]
  BY <1>3, <1>5, <1>6, ReplaceFiles
<1>8. Types'
  BY <1>1, <1>6, <1>7 DEF Types
<1>9. NewHasNoPath' /\ EditFits' /\ UploadFits' /\ UpdateFits'
  BY <1>1, <1>6 DEF NewHasNoPath, EditFits, UploadFits, UpdateFits, Renaming, Sending,
     Types
<1>10. RenameFits'
  BY <1>1, <1>3, <1>6 DEF RenameFits, Sending
<1>11. QED
  BY <1>7, <1>8, <1>9, <1>10

\* The rename puts the replacement in place, or is refused.
LEMMA RenameInv ==
  ASSUME UploadsInv, Rename
  PROVE  UploadsInv'
<1> USE DEF UploadsInv, CollectInv
<1> DEFINE r == renaming.by
           p == renaming.to
           text == renaming.text
           refused == p \in reading \/ (uploadFile # None /\ uploadPath = p)
<1>1. renaming # None /\ renaming' = None
  BY DEF Rename
<1>2. r \in Requests /\ p \in Paths /\ text \in Seq(Pieces)
  BY <1>1 DEF Types, Replacements
<1>3. PICK answer \in {"failed", "ok"} :
        /\ at' = [at EXCEPT ![r] = answer]
        /\ alone' = {q \in alone : kind[q] # kind[r]}
        /\ UNCHANGED <<kind, path, shared, reading>>
  BY DEF Rename, End
<1>4. r \in alone => p = path[r] /\ (Unspoiled(text) => text = Body(r))
  BY <1>1 DEF RenameFits
<1>5. NewHasNoPath'
  BY <1>3 DEF NewHasNoPath, Types
<1>6. EditFits' /\ UploadFits' /\ UpdateFits' /\ RenameFits'
  BY <1>1, <1>2, <1>3 DEF EditFits, UploadFits, UpdateFits, RenameFits, Renaming,
     Sending,
     Types
<1>7. CASE refused
  <2>1. /\ UNCHANGED <<file, spoiled, cutOff>>
        /\ excused' = IF p \in reading THEN excused ELSE excused \cup {p}
    BY <1>7 DEF Rename
  <2>2. Types' /\ ReadIsThere'
    BY <1>1, <1>3, <2>1 DEF Types, ReadIsThere
  <2>3. ASSUME NEW q \in Paths
        PROVE  Whole(q)'
    <3>1. file[q] = None /\ Gone(q) => Gone(q)'
      BY <1>1, <1>7, <2>1 DEF Gone, ReadIsThere
    <3>2. Whole(q)
      BY DEF FilesAreWhole, Whole, Gone
    <3>3. QED
      BY <1>3, <2>1, <3>1, <3>2 DEF Whole
  <2>4. QED
    BY <1>5, <1>6, <2>2, <2>3 DEF FilesAreWhole, Whole, Gone
<1>8. CASE ~refused
  <2>1. /\ file' = [file EXCEPT ![p] = text] /\ spoiled' = Spoiled(r, p, text)
        /\ excused' = excused \ {p} /\ cutOff' = cutOff \ {p}
    BY <1>8 DEF Rename
  <2> HIDE DEF r, p, text
  <2>2. Types' /\ ReadIsThere'
    <3>1. file' \in [Paths -> Seq(Pieces) \cup {None}] /\ text # None
      BY <1>2, <2>1 DEF Types
    <3>2. QED
      BY <1>1, <1>2, <1>3, <2>1, <3>1 DEF Types, ReadIsThere
  <2>3. ASSUME NEW q \in Paths, q # p
        PROVE  Whole(q)'
    <3>1. file'[q] = file[q]
      BY <2>1, <2>3 DEF Types
    <3>2. (q \notin spoiled' => q \notin spoiled) /\ (Gone(q) => Gone(q)')
      BY <1>1, <2>1, <2>3 DEF Spoiled, Gone, p
    <3>3. QED
      BY <1>3, <3>1, <3>2, WholeStays DEF Types
  <2>4. ASSUME NEW q \in Paths, q = p
        PROVE  Whole(q)'
    <3>1. file'[q] = text /\ text # None
      BY <1>2, <2>1, <2>4 DEF Types
    <3>2. ASSUME q \notin spoiled'
          PROVE  text = Body(r) /\ path'[r] = q
      <4>1. r \in alone /\ Unspoiled(text)
        BY <2>1, <2>4, <3>2 DEF Spoiled, Unspoiled
      <4>2. QED
        BY <1>3, <1>4, <2>4, <4>1
    <3>3. QED
      BY <1>2, <3>1, <3>2 DEF Whole
  <2>5. FilesAreWhole'
    <3>1. \A q \in Paths : Whole(q)'
      BY <2>3, <2>4
    <3>2. QED
      BY <3>1 DEF FilesAreWhole, Whole, Gone
  <2>6. QED
    BY <1>5, <1>6, <2>2, <2>5
<1>9. QED
  BY <1>7, <1>8

\* The first piece of an image: Update begins, or collects it.
LEMMA UpdateFirstInv ==
  ASSUME UploadsInv, Still, NEW r \in Requests, UpdateFirst(r)
  PROVE  UploadsInv'
<1> USE DEF UploadsInv, CollectInv, Still, UpdateFirst, Begin
<1>1. /\ update' \in [running : BOOLEAN, error : BOOLEAN, written : Seq(Sent)]
      /\ update'.running \/ update'.error
  <2>1. update \in [running : BOOLEAN, error : BOOLEAN, written : Seq(Sent)]
    BY DEF Types
  <2>2. Append(update.written, Head1(r)) \in Seq(Sent) /\ <<Head1(r)>> \in Seq(Sent)
    BY <2>1, PieceTypes, OneMore
  <2>3. CASE update.running
    BY <2>1, <2>2, <2>3
  <2>4. CASE update' = [running |-> TRUE, error |-> FALSE, written |-> <<Head1(r)>>]
    BY <2>2, <2>4
  <2>5. CASE update' = Failed
    BY <2>5 DEF Failed
  <2>6. QED
    BY <2>3, <2>4, <2>5
<1>2. Types'
  BY <1>1 DEF Types
<1>3. NewHasNoPath' /\ ReadIsThere'
  BY DEF NewHasNoPath, ReadIsThere, Types
<1>4. EditFits' /\ UploadFits' /\ UpdateFits' /\ RenameFits'
  BY <1>1 DEF EditFits, UploadFits, UpdateFits, RenameFits, Renaming, Sending, Types
<1>5. FilesAreWhole'
  <2>1. \A p \in Paths : Whole(p)'
    BY WholeStays DEF Gone, NewHasNoPath, Types
  <2>2. QED
    BY <2>1 DEF FilesAreWhole, Whole, Gone
<1>6. QED
  BY <1>2, <1>3, <1>4, <1>5

\* No piece arrives that is collected, and no file changes.
Quiet ==
  /\ UNCHANGED <<path, editBody, uploadPath, uploadFile, file, spoiled, excused>>
  /\ \A r \in Requests :
       /\ at'[r] = "sending" => at[r] = "sending" /\ kind'[r] = kind[r]
       /\ at'[r] = "new" => at[r] = "new"
  /\ alone' \subseteq alone
  /\ \A p \in Paths : p \in reading' => p \in reading \/ file[p] # None
  /\ UNCHANGED replaces /\ (renaming = None \/ UNCHANGED kind)
  /\ update.running \/ update.error => update'.running \/ update'.error

\* The actions that are such keep the invariant.
LEMMA QuietInv ==
  ASSUME UploadsInv, Quiet,
         kind' \in [Requests -> {None, "edit", "upload", "update"}],
         at' \in [Requests -> Places],
         update' \in [running : BOOLEAN, error : BOOLEAN, written : Seq(Sent)]
  PROVE  UploadsInv'
<1> USE DEF UploadsInv, CollectInv, Still, Quiet
<1>1. Types'
  BY DEF Types
<1>2. /\ NewHasNoPath' /\ ReadIsThere'
      /\ EditFits' /\ UploadFits' /\ UpdateFits' /\ RenameFits'
  BY DEF NewHasNoPath, ReadIsThere, EditFits, UploadFits, UpdateFits, RenameFits,
     Renaming, Sending
<1>3. FilesAreWhole'
  BY DEF FilesAreWhole
<1>4. QED
  BY <1>1, <1>2, <1>3

\* After a restart nothing is collected, and nobody sends.
LEMMA ResetInv ==
  ASSUME UploadsInv, Reset, path' = path, renaming' = None,
         \A p \in Paths : Gone(p) => file[p] # None \/ p \in excused \cup cutOff',
         kind' \in [Requests -> {None, "edit", "upload", "update"}],
         \/ at' = Cut
         \/ \E r \in Requests, answer \in {"ok", "empty"} :
              at' = [Cut EXCEPT ![r] = answer]
  PROVE  UploadsInv'
<1> USE DEF UploadsInv, CollectInv, Still, Reset
<1>1. /\ Cut \in [Requests -> {"new", "ok", "refused", "failed", "cut", "empty"}]
      /\ \A r \in Requests : Cut[r] = "new" => at[r] = "new"
  BY DEF Cut, Types
<1>2. /\ at' \in [Requests -> {"new", "ok", "refused", "failed", "cut", "empty"}]
      /\ \A r \in Requests : at'[r] = "new" => at[r] = "new"
  BY <1>1
<1>3. ASSUME NEW r \in Requests
      PROVE  at'[r] # "sending"
  BY <1>2
<1>4. Types'
  <2>1. <<>> \in Seq(Sent)
    OBVIOUS
  <2>2. NoUpdate \in [running : BOOLEAN, error : BOOLEAN, written : Seq(Sent)]
    BY <2>1 DEF NoUpdate
  <2>3. at' \in [Requests -> Places]
    BY <1>2
  <2>4. QED
    BY <2>1, <2>2, <2>3 DEF Types
<1>5. /\ NewHasNoPath' /\ ReadIsThere'
      /\ EditFits' /\ UploadFits' /\ UpdateFits' /\ RenameFits'
  BY <1>2, <1>3 DEF NewHasNoPath, ReadIsThere, EditFits, UploadFits, UpdateFits,
     RenameFits, Renaming, Sending
<1>6. FilesAreWhole'
  <2>1. ASSUME NEW p \in Paths
        PROVE  Whole(p)'
    <3>1. Whole(p)
      BY DEF FilesAreWhole, Whole, Gone
    <3>2. file[p] = None => Gone(p)'
      BY <3>1 DEF Whole, Gone
    <3>3. QED
      BY <3>1, <3>2 DEF Whole
  <2>2. QED
    BY <2>1 DEF FilesAreWhole, Whole, Gone
<1>7. QED
  BY <1>4, <1>5, <1>6

\* The last piece of an image, or the handler without one: an error is answered,
\* or the device restarts.
LEMMA UpdateLastInv ==
  ASSUME UploadsInv, Still, NEW r \in Requests, UpdateLast(r) \/ UpdateEmpty(r)
  PROVE  UploadsInv'
<1> USE DEF UploadsInv, CollectInv
<1>1. /\ kind \in [Requests -> {None, "edit", "upload", "update"}]
      /\ at \in [Requests -> Places]
      /\ update \in [running : BOOLEAN, error : BOOLEAN, written : Seq(Sent)]
  BY DEF Types
<1>2. path' = path /\ kind' \in [Requests -> {None, "edit", "upload", "update"}]
  BY <1>1 DEF UpdateLast, UpdateEmpty, End
<1>3. CASE Reset /\ \E answer \in {"ok", "empty"} : at' = [Cut EXCEPT ![r] = answer]
  BY <1>2, <1>3, ResetInv DEF Gone, Still
<1>4. CASE /\ End(r, "update", "failed")
           /\ update' = Failed
           /\ UNCHANGED <<editBody, uploadPath, uploadFile, file,
                          reading, spoiled, excused>>
  <2>1. update' \in [running : BOOLEAN, error : BOOLEAN, written : Seq(Sent)]
    BY <1>4 DEF Failed
  <2>2. update'.error
    BY <1>4 DEF Failed
  <2>3. /\ at' \in [Requests -> Places]
        /\ Quiet
    BY <1>1, <1>4, <2>2 DEF Quiet, Still, End
  <2>4. QED
    BY <1>2, <2>1, <2>3, QuietInv
<1>5. CASE /\ kind' = [kind EXCEPT ![r] = "update"] /\ at' = [at EXCEPT ![r] = "failed"]
           /\ UNCHANGED <<shared, file, reading, history>>
  <2>1. /\ at' \in [Requests -> Places]
        /\ Quiet
    BY <1>1, <1>2, <1>5 DEF Quiet, Still
  <2>2. QED
    BY <1>1, <1>2, <1>5, <2>1, QuietInv
<1>6. QED
  BY <1>3, <1>4, <1>5 DEF UpdateLast, UpdateEmpty

\* A file is deleted.
LEMMA DeleteInv ==
  ASSUME UploadsInv, Still, NEW p \in Paths, Delete(p)
  PROVE  UploadsInv'
<1> USE DEF UploadsInv, CollectInv, Still, Delete
<1>1. Types'
  BY DEF Types
<1>2. /\ NewHasNoPath' /\ ReadIsThere'
      /\ EditFits' /\ UploadFits' /\ UpdateFits' /\ RenameFits'
  BY DEF NewHasNoPath, ReadIsThere, EditFits, UploadFits, UpdateFits, RenameFits,
     Renaming, Sending
<1>3. Whole(p)'
  BY DEF Types, Whole, Gone
<1>4. ASSUME NEW q \in Paths, q # p
      PROVE  Whole(q)'
  BY <1>4, WholeStays DEF Types, Gone
<1>5. FilesAreWhole'
  BY <1>3, <1>4 DEF FilesAreWhole, Whole, Gone
<1>6. QED
  BY <1>1, <1>2, <1>5

\* Every step keeps the invariant.
LEMMA UploadsStep == UploadsInv /\ [Next]_vars => UploadsInv'
<1> SUFFICES ASSUME UploadsInv, [Next]_vars
             PROVE  UploadsInv'
  OBVIOUS
<1>1. Types
  BY DEF UploadsInv, CollectInv
<1>2. CASE Still /\ Other
  <2>1. ASSUME NEW r \in Requests,
               \/ \E p \in Paths \cup {None} : EditFirst(r, p)
               \/ \E p \in Paths : UploadFirst(r, p)
               \/ EditRefused(r)
               \/ UpdateFirst(r) \/ UpdateLast(r) \/ UpdateEmpty(r)
        PROVE  UploadsInv'
    BY <1>2, <2>1, EditFirstInv, UploadFirstInv, EditRefusedInv, UpdateFirstInv,
       UpdateLastInv
  <2>2. ASSUME (\E r \in Requests : Disconnect(r) \/ UploadDropped(r))
                 \/ \E p \in Paths : Download(p) \/ Downloaded(p)
        PROVE  UploadsInv'
    <3>1. Quiet /\ kind' = kind /\ update' = update
      BY <1>1, <1>2, <2>2 DEF Quiet, Still, Disconnect, UploadDropped, End, Download,
         Downloaded, Types
    <3>2. at' \in [Requests -> Places]
      <4>1. at \in [Requests -> Places]
        BY <1>1 DEF Types
      <4>2. CASE at' = at
        BY <4>1, <4>2
      <4>3. CASE \E r \in Requests : at' = [at EXCEPT ![r] = "cut"]
        BY <4>1, <4>3
      <4>4. CASE \E r \in Requests : at' = [at EXCEPT ![r] = "ok"]
        BY <4>1, <4>4
      <4>5. QED
        BY <2>2, <4>2, <4>3, <4>4 DEF Disconnect, UploadDropped, End, Download,
           Downloaded
    <3>3. QED
      BY <1>1, <3>1, <3>2, QuietInv DEF Types
  <2>3. QED
    BY <1>2, <2>1, <2>2, DeleteInv DEF Other
<1>3. CASE UNCHANGED vars
  <2>1. Quiet
    BY <1>3 DEF Quiet, vars
  <2>2. QED
    BY <1>1, <1>3, <2>1, QuietInv DEF Types, vars
<1>4. CASE Restart
  <2>1. \A p \in Paths : Gone(p) => file[p] # None \/ p \in excused \cup cutOff'
    BY <1>4 DEF Restart, Gone, UploadsInv, CollectInv, ReadIsThere
  <2>2. QED
    BY <1>1, <1>4, <2>1, ResetInv DEF Restart, Types
<1>5. QED
  BY <1>2, <1>3, <1>4, EditLastInv, UploadLastInv, RenameInv DEF Next, Still

-----------------------------------------------------------------------------
(* The theorems.                                                           *)

\* The parts of UploadsInv hold in every reachable state.
THEOREM UploadsInvariance == Spec => []UploadsInv
BY UploadsInit, UploadsStep, PTL DEF Spec

\* However the pieces of any number of requests mix with lost clients, downloads and
\* restarts, between remove and rename too: a file that no overlap and no full disk
\* has spoiled is one whole body, and it is missing only for one of the reasons that
\* FilesAreWhole names.
THEOREM Files == Spec => []FilesAreWhole
<1>1. UploadsInv => FilesAreWhole
  BY DEF UploadsInv
<1>2. QED
  BY <1>1, UploadsInvariance, PTL

\* An image that is activated and ends with this request's piece is this request's.
LEMMA ActivatedIsSent ==
  ASSUME UploadsInv, NEW r \in Requests,
         Verifies(Append(update.written, Tail2(r)))
  PROVE  Append(update.written, Tail2(r)) = Body(r)
<1>1. update.written \in Seq(Sent) /\ Tail2(r) \in Sent
  BY PieceTypes DEF UploadsInv, CollectInv, Types
<1>2. PICK q \in Requests : Append(update.written, Tail2(r)) = Body(q)
  BY DEF Verifies
<1>3. Len(Append(update.written, Tail2(r))) = 2
  BY <1>2 DEF Body
<1>4. Append(update.written, Tail2(r))[2] = Tail2(r)
  BY <1>1, <1>3
<1>5. Tail2(q) = Tail2(r)
  BY <1>2, <1>4 DEF Body
<1>6. q = r
  BY <1>5 DEF Tail2
<1>7. QED
  BY <1>2, <1>6

\* A request that is answered with "ok" is kept.
THEOREM Kept == Spec => OkIsKept
<1>1. UploadsInv /\ [Next]_vars =>
        [\A r \in Requests : at[r] = "sending" /\ at'[r] = "ok" =>
           /\ kind[r] = "edit" /\ r \in alone => file'[path[r]] \in Written(Body(r))
           /\ kind[r] = "update" => image' = Body(r)]_vars
  <2> SUFFICES ASSUME UploadsInv, Next, NEW r \in Requests,
                      at[r] = "sending", at'[r] = "ok"
               PROVE  /\ kind[r] = "edit" /\ r \in alone =>
                           file'[path[r]] \in Written(Body(r))
                      /\ kind[r] = "update" => image' = Body(r)
    OBVIOUS
  <2> USE DEF UploadsInv, CollectInv
  <2>1. (Rename /\ renaming.by = r) \/ UploadDropped(r) \/ UpdateLast(r)
    <3>1. at \in [Requests -> Places]
      BY DEF Types
    <3>2. at' # at /\ Cut[r] = "cut" /\ at' # Cut
      BY <3>1 DEF Cut
    <3>3. CASE Rename
      <4>1. \E answer : at' = [at EXCEPT ![renaming.by] = answer]
        BY <3>3 DEF Rename, End
      <4>2. QED
        BY <3>1, <3>2, <3>3, <4>1
    <3>4. CASE Other
      <4>1. PICK q \in Requests :
              \/ \E p \in Paths \cup {None} : EditFirst(q, p)
              \/ \E p \in Paths : UploadFirst(q, p)
              \/ EditRefused(q) \/ UploadDropped(q)
              \/ UpdateFirst(q) \/ UpdateLast(q) \/ UpdateEmpty(q)
              \/ Disconnect(q)
        BY <3>2, <3>4 DEF Other, Delete, Download, Downloaded
      <4>2. \E answer : \/ at' = [at EXCEPT ![q] = answer]
                        \/ at' = [Cut EXCEPT ![q] = answer]
        BY <4>1 DEF EditFirst, UploadFirst, UpdateFirst, Begin, EditRefused,
           UploadDropped, UpdateLast, UpdateEmpty, End, Disconnect
      <4>3. q = r
        BY <3>1, <3>2, <4>2 DEF Cut
      <4>4. at[q] = "sending" /\ at'[q] = "ok"
        BY <4>3
      <4>5. ~Disconnect(q) /\ ~EditRefused(q)
        BY <3>1, <4>4 DEF Disconnect, EditRefused, End
      <4>6. /\ \A p \in Paths \cup {None} : ~EditFirst(q, p) /\ ~UploadFirst(q, p)
            /\ ~UpdateFirst(q) /\ ~UpdateEmpty(q)
        BY <4>4 DEF EditFirst, UploadFirst, UpdateFirst, Begin, UpdateEmpty
      <4>7. QED
        BY <4>1, <4>3, <4>5, <4>6
    <3>5. QED
      BY <3>2, <3>3, <3>4 DEF Next, Restart, EditLast, UploadLast, Replace
  <2>2. CASE Rename /\ renaming.by = r
    <3> DEFINE refused == \/ renaming.to \in reading
                          \/ uploadFile # None /\ uploadPath = renaming.to
    <3>1. SUFFICES ASSUME kind[r] = "edit", r \in alone
                   PROVE  file'[path[r]] \in Written(Body(r))
      BY <2>2 DEF Rename, End, RenameFits, Types
    <3>2. at' = [at EXCEPT ![r] = IF refused THEN "failed" ELSE "ok"]
      BY <2>2, <3>1 DEF Rename, End
    <3>3. ~refused
      BY <3>2 DEF Types
    <3>4. file' = [file EXCEPT ![renaming.to] = renaming.text] /\ renaming.to \in Paths
      BY <2>2, <3>3 DEF Rename, Types, Replacements
    <3>5. renaming.to = path[r] /\ renaming.text \in Written(Body(r))
      BY <2>2, <3>1 DEF Rename, RenameFits
    <3>6. QED
      BY <3>4, <3>5 DEF Types
  <2>3. CASE UploadDropped(r)
    BY <2>3 DEF UploadDropped, End
  <2>4. CASE UpdateLast(r)
    <3> DEFINE written == Append(update.written, Tail2(r))
    <3>1. PICK activated \in BOOLEAN :
            /\ activated => Verifies(written)
            /\ image' = IF activated THEN written ELSE image
            /\ IF (IF update.running THEN ~activated ELSE update.error)
               THEN End(r, "update", "failed") ELSE TRUE
      BY <2>4 DEF UpdateLast
    <3>2. kind[r] = "update" /\ Sending(r, "update")
      BY <2>4 DEF UpdateLast, Sending
    <3>3. ~End(r, "update", "failed")
      BY DEF End, Types
    <3>4. update.running \/ update.error
      BY <3>2 DEF UpdateFits
    <3>5. activated
      BY <3>1, <3>3, <3>4
    <3>6. written = Body(r)
      BY <3>1, <3>5, ActivatedIsSent
    <3>7. QED
      BY <3>1, <3>2, <3>5, <3>6
  <2>5. QED
    BY <2>1, <2>2, <2>3, <2>4
<1>2. QED
  BY <1>1, UploadsInvariance, PTL DEF Spec, OkIsKept
=============================================================================
