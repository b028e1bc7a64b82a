---------------------------- MODULE Canvas_proofs ----------------------------
(***************************************************************************)
(* The canvas, for any number of devices, attachments, drafts, connections *)
(* and requests: taking back a delete gives everything back and the files  *)
(* on the disk follow the rows; a draft becomes one device; two devices    *)
(* are joined once, and the canvas shows what its panel changed; nothing   *)
(* on the canvas is inside itself, and it shows where the inventory has    *)
(* its devices; undo and redo give back what there was.                    *)
(***************************************************************************)
EXTENDS Connections, CanvasUndo, DraftPublish, Containers, UndoStack, FiniteSetTheorems,
        SequenceTheorems, TLAPS

(***************************************************************************)
(* Deleting a device and taking that back (CanvasUndo).                    *)
(***************************************************************************)

\* A sender without a request is a well-typed one.
LEMMA NoRequestTyped == NoRequest \in Request
<1>1. 1 \in 1..MaxVersion /\ 0 \in 0..Cardinality(Files)
  BY CanvasUndoAssumption, FS_CardinalityType
<1> QED  BY <1>1 DEF NoRequest, Request

\* What a request of client c becomes leaves the other requests as they are.
LEMMA RequestsKept ==
  ASSUME UndoTypeOK, RequestsInv, NEW c \in Senders, NEW r \in Request,
         request' = [request EXCEPT ![c] = r],
         uploaded \subseteq uploaded', RequestFits(r)',
         r.op = "upload" =>
           /\ r.file \notin rows' /\ \A t \in Tokens : r.file \notin snapshot'[t].rows
           /\ \A y \in Senders \ {c} :
                request[y].op \in {"upload", "detach"} => request[y].file # r.file,
         r.op = "detach" =>
           \A y \in Senders \ {c} : Uploads(y) => request[y].file # r.file,
         \A y \in Senders \ {c} : Uploads(y) =>
           /\ request[y].file \notin rows'
           /\ \A t \in Tokens : request[y].file \notin snapshot'[t].rows
  PROVE  RequestsInv' /\ request' \in [Senders -> Request]
<1>1. /\ request' \in [Senders -> Request] /\ request'[c] = r
      /\ \A x \in Senders \ {c} : request'[x] = request[x]
  BY DEF UndoTypeOK
<1>2. \A x \in Senders : RequestFits(request[x])'
  BY <1>1 DEF RequestsInv, RequestFits
<1>3. ASSUME NEW x \in Senders, NEW y \in Senders, request'[x].op = "upload",
             request'[y].op \in {"upload", "detach"}, request'[y].file = request'[x].file
      PROVE  x = y
  <2>1. CASE x = c /\ y # c
    BY <1>1, <1>3, <2>1
  <2>2. CASE x # c /\ y = c
    BY <1>1, <1>3, <2>2 DEF Uploads
  <2>3. CASE x # c /\ y # c
    BY <1>1, <1>3, <2>3 DEF RequestsInv, Uploads
  <2> QED  BY <2>1, <2>2, <2>3
<1>4. \A x \in Senders : request'[x].op = "upload" =>
         /\ request'[x].file \notin rows'
         /\ \A t \in Tokens : request'[x].file \notin snapshot'[t].rows
  BY <1>1 DEF Uploads
<1> QED  BY <1>1, <1>2, <1>3, <1>4 DEF RequestsInv, Uploads

\* Which files are written for rows to come.
LEMMA Arrivals ==
  ASSUME UndoTypeOK, RequestsInv, NEW c \in Senders, NEW r \in Request,
         request' = [request EXCEPT ![c] = r]
  PROVE  /\ Arriving' \subseteq Arriving \cup
              (IF r.op = "upload" /\ r.pc = "commit" THEN {r.file} ELSE {})
         /\ request[c].op = "upload" /\ r.op # "upload" => request[c].file \notin Arriving'
         /\ request[c].op = "upload" /\ request[c].pc = "commit" => request[c].file \in Arriving
<1>1. /\ request'[c] = r
      /\ \A x \in Senders \ {c} : request'[x] = request[x]
  BY DEF UndoTypeOK
<1>2. ASSUME NEW f \in Arriving'
      PROVE  /\ f \in Arriving \/ (r.op = "upload" /\ r.pc = "commit" /\ f = r.file)
             /\ request[c].op = "upload" /\ r.op # "upload" => f # request[c].file
  <2>1. PICK x \in Senders : /\ request'[x].op = "upload" /\ request'[x].pc = "commit"
                             /\ f = request'[x].file
    BY <1>2 DEF Arriving, Uploads
  <2>2. CASE x = c
    BY <1>1, <2>1, <2>2
  <2>3. CASE x # c
    <3>1. request[x].op = "upload" /\ request[x].pc = "commit" /\ f = request[x].file
      BY <1>1, <2>1, <2>3
    <3> QED  BY <2>3, <3>1 DEF Arriving, Uploads, RequestsInv
  <2> QED  BY <2>2, <2>3
<1>3. request[c].op = "upload" /\ request[c].pc = "commit" => request[c].file \in Arriving
  BY DEF Arriving, Uploads
<1> QED  BY <1>2, <1>3

-----------------------------------------------------------------------------
(* Uploads.                                                                 *)

\* The start of an upload takes a file nobody has had.
LEMMA UploadHolds ==
  ASSUME FilesInv, NEW c \in Senders, Upload(c)
  PROVE  FilesInv'
<1> USE CanvasUndoAssumption
<1>1. PICK f \in Files \ uploaded :
        /\ live /\ request[c] = NoRequest
        /\ request' = [request EXCEPT ![c] = [NoRequest EXCEPT !.op = "upload",
                                                 !.pc = "files", !.file = f]]
        /\ uploaded' = uploaded \cup {f}
        /\ UNCHANGED <<db, disk, snapshot, harm, last>>
  BY DEF Upload, Begin
<1>2. PICK r : r = [NoRequest EXCEPT !.op = "upload", !.pc = "files", !.file = f]
  OBVIOUS
<1>3. /\ r \in Request /\ r.op = "upload" /\ r.pc = "files" /\ r.file = f
      /\ r.token = Absent
  BY <1>2, NoRequestTyped DEF Request, NoRequest
<1>4. UNCHANGED <<live, child, peer, linked, rows, layout, dir, stash>>
  BY <1>1 DEF db, disk
<1>5. request' = [request EXCEPT ![c] = r]
  BY <1>1, <1>2
<1>6. RequestsInv' /\ request' \in [Senders -> Request]
  <2>1. /\ r.file \notin rows' /\ \A t \in Tokens : r.file \notin snapshot'[t].rows
        /\ \A y \in Senders \ {c} :
             request[y].op \in {"upload", "detach"} => request[y].file # r.file
    BY <1>1, <1>3, <1>4 DEF FilesInv, UndoTypeOK, RequestsInv, RequestFits, SnapshotsInv,
         NoRequest
  <2>2. RequestFits(r)'
    BY <1>1, <1>3 DEF RequestFits
  <2>3. \A y \in Senders \ {c} : Uploads(y) =>
           /\ request[y].file \notin rows'
           /\ \A t \in Tokens : request[y].file \notin snapshot'[t].rows
    BY <1>1, <1>4 DEF FilesInv, RequestsInv
  <2> QED  BY <1>1, <1>3, <1>5, <2>1, <2>2, <2>3, RequestsKept DEF FilesInv
<1>7. /\ request'[c] = r /\ \A x \in Senders \ {c} : request'[x] = request[x]
  BY <1>5 DEF FilesInv, UndoTypeOK
<1>8. UndoTypeOK'
  BY <1>1, <1>4, <1>6 DEF FilesInv, UndoTypeOK
<1>9. SnapshotsInv'
  BY <1>1, <1>3, <1>4, <1>7 DEF FilesInv, SnapshotsInv
<1>10. Arriving' \subseteq Arriving
  BY <1>3, <1>5, Arrivals DEF FilesInv
<1>11. ~harm => MoversInv'
  BY <1>1, <1>3, <1>4, <1>7 DEF FilesInv, MoversInv, Mover
<1>12. ~harm => PlacesInv'
  <2> SUFFICES ASSUME ~harm PROVE PlacesInv'
    OBVIOUS
  <2>1. \A x \in Senders : x # c => (Takes(x)' <=> Takes(x)) /\ (Staged(x)' <=> Staged(x))
    BY <1>7 DEF Takes, Staged
  <2>2. ~Takes(c)' /\ ~Staged(c)' /\ ~Staged(c)
    BY <1>1, <1>3, <1>7 DEF Takes, Staged, NoRequest
  <2> QED  BY <1>1, <1>3, <1>4, <1>7, <1>10, <2>1, <2>2 DEF FilesInv, PlacesInv, StashHolds, FilesIn
<1> QED  BY <1>1, <1>4, <1>6, <1>8, <1>9, <1>11, <1>12 DEF FilesInv

\* A file that is written, or a directory that a full disk leaves behind.
LEMMA WriteHolds ==
  ASSUME FilesInv, NEW c \in Senders, UploadWrite(c)
  PROVE  FilesInv'
<1> USE CanvasUndoAssumption
<1>1. /\ request[c].op = "upload" /\ request[c].pc = "files"
      /\ request[c].file \in uploaded /\ request[c].file \in Files
      /\ UNCHANGED <<db, uploaded, stash, snapshot, harm, last>>
  BY DEF UploadWrite, FilesInv, UndoTypeOK, RequestsInv, RequestFits, NoRequest
<1>2. UNCHANGED <<live, child, peer, linked, rows, layout>>
  BY <1>1 DEF db
<1>3. PICK r \in Request :
        /\ request' = [request EXCEPT ![c] = r]
        /\ \/ r = NoRequest /\ dir' = FilesIn(dir)
           \/ /\ r = [request[c] EXCEPT !.pc = "commit"]
              /\ dir' = FilesIn(dir) \cup {request[c].file}
  <2>1. CASE dir' = WriteFile(request[c].file) /\ Go(c, "commit")
    <3>1. PICK r : r = [request[c] EXCEPT !.pc = "commit"]
      OBVIOUS
    <3>2. r \in Request
      BY <3>1 DEF FilesInv, UndoTypeOK, Request
    <3>3. request' = [request EXCEPT ![c] = r]
      BY <2>1, <3>1 DEF Go, FilesInv, UndoTypeOK
    <3> QED  BY <2>1, <3>1, <3>2, <3>3 DEF WriteFile
  <2>2. CASE dir' = FilesIn(dir) /\ End(c)
    BY <2>2, NoRequestTyped DEF End
  <2> QED  BY <2>1, <2>2 DEF UploadWrite
<1>4. /\ r.op \in {"none", "upload"}
      /\ r.op = "none" => r = NoRequest
      /\ r.op = "upload" => r.pc = "commit" /\ r.file = request[c].file
      /\ r.token = Absent \/ r.token = request[c].token
      /\ FilesIn(dir') = IF r.op = "upload" THEN FilesIn(dir) \cup {r.file} ELSE FilesIn(dir)
      /\ dir' \in Folder
  <2>1. FilesIn(dir) \in SUBSET Files
    BY DEF FilesIn, FilesInv, UndoTypeOK, Folder
  <2>2. CASE r = NoRequest /\ dir' = FilesIn(dir)
    BY <2>1, <2>2 DEF NoRequest, FilesIn, Folder
  <2>3. CASE r = [request[c] EXCEPT !.pc = "commit"] /\ dir' = FilesIn(dir) \cup {request[c].file}
    <3>1. request[c] \in Request
      BY DEF FilesInv, UndoTypeOK
    <3>2. /\ r.op = "upload" /\ r.pc = "commit" /\ r.file = request[c].file
          /\ r.token = request[c].token
      BY <1>1, <2>3, <3>1 DEF Request
    <3>3. dir' \in SUBSET Files /\ dir' # Absent
      BY <1>1, <2>1, <2>3
    <3> QED  BY <2>3, <3>2, <3>3 DEF FilesIn, Folder
  <2> QED  BY <1>3, <2>2, <2>3
<1>5. RequestsInv' /\ request' \in [Senders -> Request]
  <2>1. \A y \in Senders : Uploads(y) =>
           /\ request[y].file \notin rows'
           /\ \A t \in Tokens : request[y].file \notin snapshot'[t].rows
    BY <1>1, <1>2 DEF FilesInv, RequestsInv
  <2>2. r.op = "upload" => \A y \in Senders \ {c} :
             request[y].op \in {"upload", "detach"} => request[y].file # r.file
    BY <1>1, <1>4 DEF FilesInv, RequestsInv, Uploads
  <2>3. RequestFits(r)'
    BY <1>1, <1>4 DEF RequestFits
  <2> QED  BY <1>1, <1>3, <1>4, <2>1, <2>2, <2>3, RequestsKept DEF FilesInv, Uploads
<1>6. /\ request'[c] = r /\ \A x \in Senders \ {c} : request'[x] = request[x]
  BY <1>3 DEF FilesInv, UndoTypeOK
<1>7. UndoTypeOK'
  BY <1>1, <1>2, <1>4, <1>5 DEF FilesInv, UndoTypeOK
<1>8. SnapshotsInv'
  BY <1>1, <1>2, <1>4, <1>6 DEF FilesInv, SnapshotsInv
<1>9. Arriving' \subseteq Arriving \cup (IF r.op = "upload" THEN {r.file} ELSE {})
  BY <1>3, <1>4, Arrivals DEF FilesInv
<1>10. ~harm => MoversInv'
  BY <1>1, <1>2, <1>4, <1>6 DEF FilesInv, MoversInv, Mover
<1>11. ~harm => PlacesInv'
  <2> SUFFICES ASSUME ~harm PROVE PlacesInv'
    OBVIOUS
  <2>1. \A x \in Senders : /\ Takes(x)' <=> Takes(x)
                           /\ Staged(x)' <=> Staged(x)
                           /\ Returned(x)' <=> Returned(x)
                           /\ Takes(x) => request'[x] = request[x]
    BY <1>1, <1>4, <1>6 DEF Takes, Staged, Returned
  <2>2. rows' \cup Arriving' \subseteq (rows \cup Arriving) \cup FilesIn(dir')
    BY <1>2, <1>4, <1>9
  <2>3. FilesIn(dir) \subseteq FilesIn(dir')
    BY <1>4
  <2> QED  BY <1>1, <1>2, <2>1, <2>2, <2>3 DEF FilesInv, PlacesInv, StashHolds, FilesIn, Staged
<1> QED  BY <1>1, <1>2, <1>5, <1>7, <1>8, <1>10, <1>11 DEF FilesInv

\* The row is written, or the file is deleted with the device.
LEMMA CommitUploadHolds ==
  ASSUME FilesInv, NEW c \in Senders, CommitUpload(c)
  PROVE  FilesInv'
<1> USE CanvasUndoAssumption
<1>1. PICK f : f = request[c].file
  OBVIOUS
<1>2. /\ request[c].op = "upload" /\ request[c].pc = "commit"
      /\ f \in uploaded /\ f \in Files
      /\ UNCHANGED <<live, child, peer, linked, layout, uploaded, stash, snapshot, harm, last>>
      /\ request' = [request EXCEPT ![c] = NoRequest]
      /\ IF live THEN rows' = rows \cup {f} /\ dir' = dir ELSE rows' = rows /\ dir' = DeletePath(f)
      /\ \A x \in Senders : ~Returned(x)
  BY <1>1 DEF CommitUpload, FilesInv, UndoTypeOK, RequestsInv, RequestFits, NoRequest, End,
       Locked, Returned
<1>3. /\ NoRequest.op = "none" /\ NoRequest.token = Absent
      /\ FilesIn(dir') = IF live THEN FilesIn(dir) ELSE FilesIn(dir) \ {f}
      /\ dir' \in Folder
  BY <1>2 DEF NoRequest, FilesIn, DeletePath, FilesInv, UndoTypeOK, Folder
<1>4. RequestsInv' /\ request' \in [Senders -> Request]
  <2>1. \A y \in Senders \ {c} : Uploads(y) =>
           /\ request[y].file \notin rows'
           /\ \A t \in Tokens : request[y].file \notin snapshot'[t].rows
    BY <1>1, <1>2 DEF FilesInv, RequestsInv, Uploads
  <2>2. RequestFits(NoRequest)'
    BY DEF RequestFits, NoRequest
  <2> QED  BY <1>2, <1>3, <2>1, <2>2, RequestsKept, NoRequestTyped DEF FilesInv
<1>5. /\ request'[c] = NoRequest /\ \A x \in Senders \ {c} : request'[x] = request[x]
  BY <1>2 DEF FilesInv, UndoTypeOK
<1>6. UndoTypeOK'
  BY <1>2, <1>3, <1>4 DEF FilesInv, UndoTypeOK
<1>7. SnapshotsInv'
  BY <1>2, <1>3, <1>5 DEF FilesInv, SnapshotsInv
<1>8. /\ Arriving' \subseteq Arriving /\ f \notin Arriving' /\ f \in Arriving
  BY <1>1, <1>2, <1>3, NoRequestTyped, Arrivals DEF FilesInv
<1>9. ~harm => MoversInv'
  <2>1. \A x \in Senders \ {c} : request[x].op = "detach" => request[x].file # f
    BY <1>1, <1>2 DEF FilesInv, RequestsInv, Uploads
  <2> QED  BY <1>2, <1>3, <1>5, <2>1 DEF FilesInv, MoversInv, Mover
<1>10. ~harm => PlacesInv'
  <2> SUFFICES ASSUME ~harm PROVE PlacesInv'
    OBVIOUS
  <2>1. \A x \in Senders : /\ Takes(x)' <=> Takes(x)
                           /\ Staged(x)' <=> Staged(x)
                           /\ ~Returned(x)'
                           /\ Takes(x) => request'[x] = request[x]
    BY <1>2, <1>3, <1>5 DEF Takes, Staged, Returned
  <2>2. rows \subseteq rows' /\ rows' \cup Arriving' \subseteq rows \cup Arriving
    BY <1>2, <1>8
  <2>3. CASE live
    BY <1>2, <1>3, <2>1, <2>2, <2>3 DEF FilesInv, PlacesInv, StashHolds, FilesIn, Staged
  <2>4. CASE ~live
    <3>1. \A x \in Senders : ~Takes(x)
      BY <2>4 DEF FilesInv, MoversInv, Takes
    <3>2. Arriving' \subseteq Arriving \ {f}
      BY <1>8
    <3> QED  BY <1>2, <1>3, <2>1, <2>4, <3>1, <3>2 DEF FilesInv, PlacesInv, StashHolds, Staged, FilesIn
  <2> QED  BY <2>3, <2>4
<1> QED  BY <1>2, <1>4, <1>6, <1>7, <1>9, <1>10 DEF FilesInv

-----------------------------------------------------------------------------
(* Requests that take rows or move files.                                   *)

\* A request of a mover goes on, or ends.
LEMMA MoverGoes ==
  ASSUME FilesInv, NEW c \in Senders, NEW pc \in {"commit", "clean"}, Mover(c),
         Go(c, pc) \/ End(c)
  PROVE  \E r \in Request :
           /\ request' = [request EXCEPT ![c] = r]
           /\ request'[c] = r /\ \A x \in Senders \ {c} : request'[x] = request[x]
           /\ \/ End(c) /\ r = NoRequest /\ r.op = "none" /\ r.token = Absent
              \/ /\ Go(c, pc) /\ r.op = request[c].op /\ r.pc = pc
                 /\ r.file = request[c].file /\ r.token = request[c].token
<1>1. CASE Go(c, pc)
  <2>1. PICK r : r = [request[c] EXCEPT !.pc = pc]
    OBVIOUS
  <2>2. request[c] \in Request
    BY DEF FilesInv, UndoTypeOK
  <2>3. /\ r \in Request /\ r.op = request[c].op /\ r.pc = pc
        /\ r.file = request[c].file /\ r.token = request[c].token
    BY <2>1, <2>2 DEF Request
  <2>4. request' = [request EXCEPT ![c] = r]
    BY <1>1, <2>1 DEF Go, FilesInv, UndoTypeOK
  <2> QED  BY <1>1, <2>3, <2>4 DEF FilesInv, UndoTypeOK
<1>2. CASE End(c)
  BY <1>2, NoRequestTyped DEF End, NoRequest, FilesInv, UndoTypeOK
<1> QED  BY <1>1, <1>2

\* A move starts while no other is under way, unless harm is done.
LEMMA MoveBegins ==
  ASSUME FilesInv, NEW c \in Senders, NEW r \in Request, request[c] = NoRequest,
         request' = [request EXCEPT ![c] = r], r.op \notin {"none", "upload"},
         ~harm' => ~harm /\ ~Moving
  PROVE  /\ request'[c] = r /\ \A x \in Senders \ {c} : request'[x] = request[x]
         /\ Arriving' \subseteq Arriving
         /\ ~harm' => /\ ~harm /\ MoversInv /\ PlacesInv
                      /\ \A x \in Senders : Mover(x)' => x = c
                      /\ \A x \in Senders : ~Mover(x) /\ ~Takes(x) /\ ~Staged(x) /\ ~Returned(x)
<1>1. request'[c] = r /\ \A x \in Senders \ {c} : request'[x] = request[x]
  BY DEF FilesInv, UndoTypeOK
<1>2. Arriving' \subseteq Arriving
  BY Arrivals DEF FilesInv
<1>3. ~harm' => /\ ~harm /\ MoversInv /\ PlacesInv
                /\ \A x \in Senders : request[x].op \in {"none", "upload"}
  BY DEF FilesInv, Moving
<1> QED  BY <1>1, <1>2, <1>3 DEF Mover, Takes, Staged, Returned

\* A detach begins only where no other request moves, or as harm.
LEMMA DetachHolds ==
  ASSUME FilesInv, NEW c \in Senders, Detach(c)
  PROVE  FilesInv'
<1> USE CanvasUndoAssumption
<1>1. PICK f \in rows :
        /\ request[c] = NoRequest
        /\ request' = [request EXCEPT ![c] = [NoRequest EXCEPT !.op = "detach",
                                                 !.pc = "commit", !.file = f]]
        /\ harm' = (harm \/ Moving)
        /\ UNCHANGED <<db, disk, uploaded, snapshot, last>>
  BY DEF Detach, StartMove, Begin
<1>2. UNCHANGED <<live, child, peer, linked, rows, layout, dir, stash>>
  BY <1>1 DEF db, disk
<1>3. PICK r : r = [NoRequest EXCEPT !.op = "detach", !.pc = "commit", !.file = f]
  OBVIOUS
<1>4. /\ r \in Request /\ r.op = "detach" /\ r.pc = "commit" /\ r.file = f /\ r.token = Absent
      /\ f \in uploaded /\ live
  BY <1>1, <1>3, NoRequestTyped DEF Request, NoRequest, FilesInv, UndoTypeOK
<1>5. request' = [request EXCEPT ![c] = r] /\ (~harm' => ~harm /\ ~Moving) /\ harm' \in BOOLEAN
  BY <1>1, <1>3 DEF FilesInv, UndoTypeOK, Moving
<1>6. RequestsInv' /\ request' \in [Senders -> Request]
  <2>1. \A y \in Senders : Uploads(y) =>
           /\ request[y].file \notin rows'
           /\ \A t \in Tokens : request[y].file \notin snapshot'[t].rows
    BY <1>1, <1>2 DEF FilesInv, RequestsInv
  <2>2. RequestFits(r)'
    BY <1>1, <1>4 DEF RequestFits
  <2> QED  BY <1>1, <1>2, <1>4, <1>5, <2>1, <2>2, RequestsKept DEF FilesInv
<1>7. UndoTypeOK'
  BY <1>1, <1>2, <1>5, <1>6 DEF FilesInv, UndoTypeOK
<1>8. /\ request'[c] = r /\ \A x \in Senders \ {c} : request'[x] = request[x]
      /\ Arriving' \subseteq Arriving
      /\ ~harm' => /\ ~harm /\ MoversInv /\ PlacesInv
                   /\ \A x \in Senders : Mover(x)' => x = c
                   /\ \A x \in Senders : ~Mover(x) /\ ~Takes(x) /\ ~Staged(x) /\ ~Returned(x)
  BY <1>1, <1>4, <1>5, MoveBegins
<1>9. SnapshotsInv'
  BY <1>1, <1>2, <1>4, <1>8 DEF FilesInv, SnapshotsInv
<1>10. ~harm' => MoversInv'
  BY <1>2, <1>4, <1>8 DEF MoversInv, Mover
<1>11. ~harm' => PlacesInv'
  <2>1. \A x \in Senders : ~harm' => ~Takes(x)' /\ ~Staged(x)' /\ ~Returned(x)'
    BY <1>4, <1>8 DEF Takes, Staged, Returned
  <2> QED  BY <1>1, <1>2, <1>4, <1>8, <2>1 DEF PlacesInv
<1> QED  BY <1>2, <1>4, <1>6, <1>7, <1>9, <1>10, <1>11 DEF FilesInv

\* The row goes first, its file stays until the next step.
LEMMA CommitDetachHolds ==
  ASSUME FilesInv, NEW c \in Senders, CommitDetach(c)
  PROVE  FilesInv'
<1> USE CanvasUndoAssumption
<1>1. /\ request[c].op = "detach" /\ request[c].pc = "commit" /\ Go(c, "clean")
      /\ rows' = rows \ {request[c].file}
      /\ UNCHANGED <<live, child, peer, linked, layout, uploaded, dir, stash, snapshot,
                     harm, last>>
      /\ Mover(c)
  BY DEF CommitDetach, disk, Mover
<1>2. PICK r \in Request :
        /\ request' = [request EXCEPT ![c] = r]
        /\ request'[c] = r /\ \A x \in Senders \ {c} : request'[x] = request[x]
        /\ \/ End(c) /\ r = NoRequest /\ r.op = "none" /\ r.token = Absent
           \/ /\ r.op = request[c].op /\ r.pc = "clean"
              /\ r.file = request[c].file /\ r.token = request[c].token
  BY <1>1, MoverGoes
<1>3. r.op \in {"none", "detach"} /\ (r.op = "none" => r = NoRequest)
      /\ (r.op # "none" => r.pc = "clean" /\ r.file = request[c].file)
      /\ (r.token = Absent \/ r.token = request[c].token)
  BY <1>1, <1>2
<1>4. RequestsInv' /\ request' \in [Senders -> Request]
  <2>1. \A y \in Senders : Uploads(y) =>
           /\ request[y].file \notin rows' /\ request[y].file # request[c].file
           /\ \A t \in Tokens : request[y].file \notin snapshot'[t].rows
    BY <1>1 DEF FilesInv, RequestsInv, Uploads
  <2>2. RequestFits(r)'
    BY <1>1, <1>3 DEF RequestFits, FilesInv, RequestsInv, NoRequest
  <2>3. /\ r.op # "upload" /\ request' = [request EXCEPT ![c] = r]
        /\ r.op = "detach" => \A y \in Senders \ {c} : Uploads(y) => request[y].file # r.file
    BY <1>2, <1>3, <2>1
  <2>4. UndoTypeOK /\ RequestsInv /\ uploaded \subseteq uploaded'
    BY <1>1 DEF FilesInv
  <2> QED  BY <2>1, <2>2, <2>3, <2>4, RequestsKept
<1>5. UndoTypeOK'
  BY <1>1, <1>4 DEF FilesInv, UndoTypeOK
<1>6. SnapshotsInv'
  BY <1>1, <1>2, <1>3 DEF FilesInv, SnapshotsInv
<1>7. Arriving' \subseteq Arriving
  BY <1>1, <1>2, <1>3, Arrivals DEF FilesInv
<1>8. ~harm => MoversInv'
  BY <1>1, <1>2, <1>3 DEF FilesInv, MoversInv, Mover
<1>9. ~harm => PlacesInv'
  <2> SUFFICES ASSUME ~harm PROVE PlacesInv'
    OBVIOUS
  <2>1. \A x \in Senders : ~Takes(x) /\ ~Staged(x) /\ ~Returned(x) /\ (Mover(x) => x = c)
    BY <1>1 DEF FilesInv, MoversInv, Mover, Takes, Staged, Returned
  <2>2. live /\ \A x \in Senders : ~Takes(x)' /\ ~Staged(x)'
    BY <1>1, <1>2, <1>3, <2>1 DEF Takes, Staged, FilesInv, MoversInv
  <2> QED  BY <1>1, <1>7, <2>1, <2>2 DEF FilesInv, PlacesInv
<1> QED  BY <1>1, <1>4, <1>5, <1>6, <1>8, <1>9 DEF FilesInv

\* The file of a detached attachment has no row.
LEMMA DetachFilesHolds ==
  ASSUME FilesInv, NEW c \in Senders, DetachFiles(c)
  PROVE  FilesInv'
<1> USE CanvasUndoAssumption
<1>1. PICK f : f = request[c].file
  OBVIOUS
<1>2. /\ request[c].op = "detach" /\ request[c].pc = "clean"
      /\ request' = [request EXCEPT ![c] = NoRequest]
      /\ dir' = RemoveDirIfEmpty(DeletePath(f))
      /\ UNCHANGED <<live, child, peer, linked, layout, rows, uploaded, stash, snapshot,
                     harm, last>>
      /\ NoRequest.op = "none" /\ NoRequest.token = Absent
  BY <1>1 DEF DetachFiles, db, End, NoRequest
<1>3. FilesIn(dir) \in SUBSET Files
  BY DEF FilesIn, FilesInv, UndoTypeOK, Folder
<1>4. FilesIn(dir') = FilesIn(dir) \ {f} /\ dir' \in Folder
  <2>1. CASE dir = Absent
    BY <1>2, <2>1 DEF FilesIn, DeletePath, RemoveDirIfEmpty, Folder
  <2>2. CASE dir # Absent
    <3>1. dir \in SUBSET Files /\ dir \ {f} \in SUBSET Files
      BY <2>2 DEF FilesInv, UndoTypeOK, Folder
    <3> QED  BY <1>2, <2>2, <3>1 DEF FilesIn, DeletePath, RemoveDirIfEmpty, Folder
  <2> QED  BY <2>1, <2>2
<1>5. /\ request'[c] = NoRequest /\ \A x \in Senders \ {c} : request'[x] = request[x]
  BY <1>2 DEF FilesInv, UndoTypeOK
<1>6. RequestsInv' /\ request' \in [Senders -> Request]
  <2>1. \A y \in Senders : Uploads(y) =>
           /\ request[y].file \notin rows'
           /\ \A t \in Tokens : request[y].file \notin snapshot'[t].rows
    BY <1>2 DEF FilesInv, RequestsInv
  <2>2. RequestFits(NoRequest)'
    BY DEF RequestFits, NoRequest
  <2> QED  BY <1>2, <2>1, <2>2, NoRequestTyped, RequestsKept DEF FilesInv
<1>7. UndoTypeOK'
  BY <1>2, <1>4, <1>6 DEF FilesInv, UndoTypeOK
<1>8. SnapshotsInv'
  BY <1>2, <1>5 DEF FilesInv, SnapshotsInv
<1>9. Arriving' \subseteq Arriving /\ f \notin Arriving
  <2>1. Arriving' \subseteq Arriving
    BY <1>2, NoRequestTyped, Arrivals DEF FilesInv
  <2>2. f \notin Arriving
    BY <1>1, <1>2 DEF Arriving, FilesInv, RequestsInv, Uploads
  <2> QED  BY <2>1, <2>2
<1>10. ~harm => MoversInv'
  BY <1>2, <1>5 DEF FilesInv, MoversInv, Mover
<1>11. ~harm => PlacesInv'
  <2> SUFFICES ASSUME ~harm PROVE PlacesInv'
    OBVIOUS
  <2>1. \A x \in Senders : ~Takes(x) /\ ~Staged(x) /\ ~Returned(x)
    BY <1>2 DEF FilesInv, MoversInv, Mover, Takes, Staged, Returned
  <2>2. live /\ f \notin rows /\ \A x \in Senders : ~Takes(x)' /\ ~Staged(x)'
    BY <1>1, <1>2, <1>5, <2>1 DEF Takes, Staged, FilesInv, MoversInv
  <2> QED  BY <1>2, <1>4, <1>9, <2>1, <2>2 DEF FilesInv, PlacesInv
<1> QED  BY <1>2, <1>6, <1>7, <1>8, <1>10, <1>11 DEF FilesInv

\* A plain delete begins and takes nothing yet.
LEMMA PlainDeleteHolds ==
  ASSUME FilesInv, NEW c \in Senders, PlainDelete(c)
  PROVE  FilesInv'
<1> USE CanvasUndoAssumption
<1>1. PICK r : r = [NoRequest EXCEPT !.op = "delete", !.pc = "commit",
                                     !.count = Cardinality(rows)]
  OBVIOUS
<1>2. Cardinality(rows) \in 0..Cardinality(Files)
  BY FS_Subset, FS_CardinalityType DEF FilesInv, UndoTypeOK
<1>3. /\ r \in Request /\ r.op = "delete" /\ r.pc = "commit" /\ r.token = Absent
  BY <1>1, <1>2, NoRequestTyped DEF Request, NoRequest
<1>4. /\ live /\ request[c] = NoRequest
      /\ request' = [request EXCEPT ![c] = r]
      /\ harm' = (harm \/ Moving)
      /\ UNCHANGED <<live, child, peer, linked, rows, layout, dir, stash, uploaded,
                     snapshot, last>>
  BY <1>1 DEF PlainDelete, StartMove, Begin, db, disk
<1>5. (~harm' => ~harm /\ ~Moving) /\ harm' \in BOOLEAN
  BY <1>4 DEF FilesInv, UndoTypeOK, Moving
<1>6. RequestsInv' /\ request' \in [Senders -> Request]
  <2>1. \A y \in Senders : Uploads(y) =>
           /\ request[y].file \notin rows'
           /\ \A t \in Tokens : request[y].file \notin snapshot'[t].rows
    BY <1>4 DEF FilesInv, RequestsInv
  <2>2. RequestFits(r)'
    BY <1>3 DEF RequestFits
  <2> QED  BY <1>3, <1>4, <2>1, <2>2, RequestsKept DEF FilesInv
<1>7. UndoTypeOK'
  BY <1>4, <1>5, <1>6 DEF FilesInv, UndoTypeOK
<1>8. /\ request'[c] = r /\ \A x \in Senders \ {c} : request'[x] = request[x]
      /\ Arriving' \subseteq Arriving
      /\ ~harm' => /\ ~harm /\ MoversInv /\ PlacesInv
                   /\ \A x \in Senders : Mover(x)' => x = c
                   /\ \A x \in Senders : ~Mover(x) /\ ~Takes(x) /\ ~Staged(x) /\ ~Returned(x)
  BY <1>3, <1>4, <1>5, MoveBegins
<1>9. SnapshotsInv'
  BY <1>3, <1>4, <1>8 DEF FilesInv, SnapshotsInv
<1>10. ~harm' => MoversInv'
  BY <1>3, <1>4, <1>8 DEF MoversInv, Mover
<1>11. ~harm' => PlacesInv'
  <2>1. \A x \in Senders : ~harm' => ~Takes(x)' /\ ~Staged(x)' /\ ~Returned(x)'
    BY <1>3, <1>8 DEF Takes, Staged, Returned
  <2> QED  BY <1>4, <1>8, <2>1 DEF PlacesInv
<1> QED  BY <1>4, <1>6, <1>7, <1>9, <1>10, <1>11 DEF FilesInv

\* A plain delete takes the rows; the directory is left to its clean-up.
LEMMA CommitPlainDeleteHolds ==
  ASSUME FilesInv, NEW c \in Senders, CommitPlainDelete(c)
  PROVE  FilesInv'
<1> USE CanvasUndoAssumption
<1>1. /\ request[c].op = "delete" /\ request[c].pc = "commit" /\ Mover(c)
      /\ Go(c, "clean") \/ End(c)
      /\ UNCHANGED <<dir, stash, uploaded, snapshot, harm>>
  BY DEF CommitPlainDelete, disk, Mover
<1>2. \/ End(c) /\ UNCHANGED <<live, child, peer, linked, rows, layout, last>>
      \/ /\ live' = FALSE /\ linked' = FALSE /\ rows' = {} /\ UNCHANGED <<child, peer>>
         /\ last' = Absent
         /\ layout' = [l \in Layouts |-> IF l \in Immutable THEN layout[l]
                         ELSE [layout[l] EXCEPT !.doc = FilterDevice(layout[l].doc)]]
  BY DEF CommitPlainDelete, DropDevice, db
<1>3. PICK r \in Request :
        /\ request' = [request EXCEPT ![c] = r]
        /\ request'[c] = r /\ \A x \in Senders \ {c} : request'[x] = request[x]
        /\ \/ End(c) /\ r = NoRequest /\ r.op = "none" /\ r.token = Absent
           \/ /\ Go(c, "clean") /\ r.op = request[c].op /\ r.pc = "clean"
              /\ r.file = request[c].file /\ r.token = request[c].token
  BY <1>1, MoverGoes
<1>4. /\ r.op \in {"none", "delete"} /\ (r.op = "none" => r = NoRequest)
      /\ r.op # "none" => r.pc = "clean"
      /\ r.token = Absent \/ r.token = request[c].token
      /\ r.op # "none" => live' = FALSE /\ last' = Absent
  <2>1. End(c) => r.op = "none"
    <3>1. End(c) => request'[c] = NoRequest
      BY DEF End, FilesInv, UndoTypeOK
    <3> QED  BY <1>3, <3>1 DEF NoRequest
  <2> QED  BY <1>1, <1>2, <1>3, <2>1
<1>5. layout' \in [Layouts -> Layout]
  <2>1. ASSUME NEW l \in Layouts
        PROVE  [layout[l] EXCEPT !.doc = FilterDevice(layout[l].doc)] \in Layout
    <3>1. layout[l] \in Layout /\ FilterDevice(layout[l].doc) \in Document
      BY DEF FilesInv, UndoTypeOK, Layout, Document, FilterDevice
    <3> QED  BY <3>1 DEF Layout
  <2> QED  BY <1>2, <2>1 DEF FilesInv, UndoTypeOK
<1>6. rows' \subseteq rows /\ live' \in BOOLEAN /\ linked' \in BOOLEAN /\ (live' => live)
      /\ UNCHANGED <<child, peer>> /\ last' \in Tokens \cup {Absent} /\ (~live' => rows' = {})
  <2>1. CASE UNCHANGED <<live, child, peer, linked, rows, layout, last>>
    BY <2>1 DEF FilesInv, UndoTypeOK
  <2>2. CASE live' = FALSE /\ linked' = FALSE /\ rows' = {} /\ UNCHANGED <<child, peer>> /\ last' = Absent
    BY <2>2
  <2> QED  BY <1>2, <2>1, <2>2
<1>7. RequestsInv' /\ request' \in [Senders -> Request]
  <2>1. \A y \in Senders : Uploads(y) =>
           /\ request[y].file \notin rows'
           /\ \A t \in Tokens : request[y].file \notin snapshot'[t].rows
    BY <1>1, <1>6 DEF FilesInv, RequestsInv, Uploads
  <2>2. RequestFits(r)'
    BY <1>4 DEF RequestFits
  <2> QED  BY <1>1, <1>3, <1>4, <2>1, <2>2, RequestsKept DEF FilesInv
<1>8. UndoTypeOK'
  BY <1>1, <1>5, <1>6, <1>7 DEF FilesInv, UndoTypeOK
<1>9. SnapshotsInv'
  BY <1>1, <1>3, <1>4 DEF FilesInv, SnapshotsInv
<1>10. Arriving' \subseteq Arriving
  BY <1>1, <1>3, <1>4, Arrivals DEF FilesInv
<1>11. ~harm => \A x \in Senders : /\ Mover(x) => x = c
                                   /\ ~Takes(x) /\ ~Staged(x) /\ ~Returned(x) /\ live
  BY <1>1 DEF FilesInv, MoversInv, Mover, Takes, Staged, Returned
<1>12. \A x \in Senders : ~harm => ~Takes(x)' /\ ~Staged(x)' /\ ~Returned(x)'
  BY <1>3, <1>4, <1>11 DEF Takes, Staged, Returned
<1>13. ~harm => MoversInv'
  BY <1>1, <1>3, <1>4, <1>6, <1>11 DEF FilesInv, MoversInv, Mover, NoRequest
<1>14. ~harm => PlacesInv'
  BY <1>1, <1>2, <1>6, <1>10, <1>11, <1>12 DEF FilesInv, PlacesInv
<1> QED  BY <1>1, <1>6, <1>7, <1>8, <1>9, <1>13, <1>14 DEF FilesInv

\* The directory that goes is that of a device without rows.
LEMMA CleanupHolds ==
  ASSUME FilesInv, NEW c \in Senders, CleanupStorage(c)
  PROVE  FilesInv'
<1> USE CanvasUndoAssumption
<1>1. /\ request[c].op = "delete" /\ request[c].pc = "clean"
      /\ request' = [request EXCEPT ![c] = NoRequest] /\ dir' = Absent
      /\ UNCHANGED <<live, child, peer, linked, layout, rows, uploaded, stash, snapshot,
                     harm, last>>
      /\ NoRequest.op = "none" /\ NoRequest.token = Absent
  BY DEF CleanupStorage, db, End, NoRequest
<1>2. /\ request'[c] = NoRequest /\ \A x \in Senders \ {c} : request'[x] = request[x]
  BY <1>1 DEF FilesInv, UndoTypeOK
<1>3. RequestsInv' /\ request' \in [Senders -> Request]
  <2>1. \A y \in Senders : Uploads(y) =>
           /\ request[y].file \notin rows'
           /\ \A t \in Tokens : request[y].file \notin snapshot'[t].rows
    BY <1>1 DEF FilesInv, RequestsInv
  <2>2. RequestFits(NoRequest)'
    BY DEF RequestFits
  <2> QED  BY <1>1, <2>1, <2>2, NoRequestTyped, RequestsKept DEF FilesInv
<1>4. UndoTypeOK'
  BY <1>1, <1>3 DEF FilesInv, UndoTypeOK, Folder
<1>5. SnapshotsInv'
  BY <1>1, <1>2 DEF FilesInv, SnapshotsInv
<1>6. ~harm => MoversInv'
  BY <1>1, <1>2 DEF FilesInv, MoversInv, Mover
<1>7. ~harm => PlacesInv'
  <2>1. ~harm => ~live /\ last = Absent /\ \A x \in Senders : ~Takes(x)
    BY <1>1 DEF FilesInv, MoversInv, Takes
  <2>2. \A x \in Senders : ~harm => ~Takes(x)' /\ ~Staged(x)'
    BY <1>1, <1>2, <2>1 DEF Takes, Staged
  <2> QED  BY <1>1, <2>1, <2>2 DEF PlacesInv
<1> QED  BY <1>1, <1>3, <1>4, <1>5, <1>6, <1>7 DEF FilesInv

\* The snapshot of a delete holds every row and every placement.
LEMMA CanvasDeleteHolds ==
  ASSUME FilesInv, NEW c \in Senders, CanvasDelete(c)
  PROVE  FilesInv'
<1> USE CanvasUndoAssumption
<1>1. PICK t \in Tokens :
        /\ live /\ snapshot[t].state = "unused" /\ request[c] = NoRequest
        /\ request' = [request EXCEPT ![c] =
             [NoRequest EXCEPT !.op = "canvas_delete", !.pc = "files", !.token = t,
                               !.versions = [l \in Layouts |-> layout[l].version]]]
        /\ harm' = (harm \/ Moving)
        /\ snapshot' = [snapshot EXCEPT ![t] =
             [state |-> "captured", linked |-> linked, rows |-> rows, placed |-> Placements]]
        /\ UNCHANGED <<db, disk, uploaded, last>>
  BY DEF CanvasDelete, StartMove, Begin
<1>2. UNCHANGED <<live, child, peer, linked, rows, layout, dir, stash>>
  BY <1>1 DEF db, disk
<1>3. PICK r : r = [NoRequest EXCEPT !.op = "canvas_delete", !.pc = "files", !.token = t,
                               !.versions = [l \in Layouts |-> layout[l].version]]
  OBVIOUS
<1>4. /\ r \in Request /\ r.op = "canvas_delete" /\ r.pc = "files" /\ r.token = t
  <2>1. [l \in Layouts |-> layout[l].version] \in [Layouts -> 1..MaxVersion]
    BY DEF FilesInv, UndoTypeOK, Layout
  <2> QED  BY <1>3, <2>1, NoRequestTyped DEF Request, NoRequest
<1>5. request' = [request EXCEPT ![c] = r] /\ (~harm' => ~harm /\ ~Moving) /\ harm' \in BOOLEAN
  BY <1>1, <1>3 DEF FilesInv, UndoTypeOK, Moving
<1>6. PICK s : s = [state |-> "captured", linked |-> linked, rows |-> rows,
                    placed |-> Placements]
  OBVIOUS
<1>7. /\ Placements \in [Layouts -> Document]
      /\ \A l \in Layouts : Placements[l] # {} => "node" \in Placements[l]
  BY DEF Placements, FilesInv, UndoTypeOK, Layout, Document
<1>8. /\ s \in Snapshot /\ s.state = "captured" /\ s.rows = rows
      /\ \A l \in Layouts : s.placed[l] # {} => "node" \in s.placed[l]
  BY <1>6, <1>7 DEF Snapshot, FilesInv, UndoTypeOK
<1>9. /\ snapshot' \in [Tokens -> Snapshot] /\ snapshot'[t] = s
      /\ \A x \in Tokens \ {t} : snapshot'[x] = snapshot[x]
  BY <1>1, <1>6, <1>8 DEF FilesInv, UndoTypeOK
<1>10. RequestsInv' /\ request' \in [Senders -> Request]
  <2>1. \A y \in Senders : Uploads(y) =>
           /\ request[y].file \notin rows'
           /\ \A x \in Tokens : request[y].file \notin snapshot'[x].rows
    BY <1>2, <1>8, <1>9 DEF FilesInv, RequestsInv
  <2>2. RequestFits(r)'
    BY <1>4 DEF RequestFits
  <2> QED  BY <1>1, <1>4, <1>5, <2>1, <2>2, RequestsKept DEF FilesInv
<1>11. UndoTypeOK'
  BY <1>1, <1>2, <1>5, <1>9, <1>10 DEF FilesInv, UndoTypeOK
<1>12. /\ request'[c] = r /\ \A x \in Senders \ {c} : request'[x] = request[x]
       /\ Arriving' \subseteq Arriving
       /\ ~harm' => /\ ~harm /\ MoversInv /\ PlacesInv
                    /\ \A x \in Senders : Mover(x)' => x = c
                    /\ \A x \in Senders : ~Mover(x) /\ ~Takes(x) /\ ~Staged(x) /\ ~Returned(x)
  BY <1>1, <1>4, <1>5, MoveBegins
<1>13. SnapshotsInv'
  BY <1>1, <1>2, <1>4, <1>8, <1>9, <1>12 DEF FilesInv, SnapshotsInv, UndoTypeOK
<1>14. ~harm' => MoversInv'
  BY <1>1, <1>2, <1>4, <1>12 DEF MoversInv, Mover
<1>15. ~harm' => PlacesInv'
  <2>1. \A x \in Senders : ~harm' => ~Staged(x)' /\ ~Returned(x)' /\ (Takes(x)' => x = c)
    BY <1>4, <1>12 DEF Takes, Staged, Returned
  <2>2. stash[t] = Absent
    BY <1>1 DEF FilesInv, SnapshotsInv
  <2> QED  BY <1>1, <1>2, <1>4, <1>8, <1>9, <1>12, <2>1, <2>2 DEF PlacesInv
<1> QED  BY <1>2, <1>1, <1>10, <1>11, <1>13, <1>14, <1>15 DEF FilesInv

\* The files go to the stash of the token that has captured their rows.
LEMMA StageHolds ==
  ASSUME FilesInv, NEW c \in Senders, StageAttachments(c)
  PROVE  FilesInv'
<1> USE CanvasUndoAssumption
<1>1. PICK t : t = request[c].token
  OBVIOUS
<1>2. /\ request[c].op = "canvas_delete" /\ request[c].pc = "files" /\ Mover(c)
      /\ t \in Tokens /\ snapshot[t].state # "unused"
      /\ Go(c, "commit") \/ End(c)
      /\ UNCHANGED <<live, child, peer, linked, layout, rows, uploaded, snapshot, harm, last>>
  BY <1>1 DEF StageAttachments, db, Mover, FilesInv, RequestsInv, RequestFits, NoRequest,
       SnapshotsInv
<1>3. PICK r \in Request :
        /\ request' = [request EXCEPT ![c] = r]
        /\ request'[c] = r /\ \A x \in Senders \ {c} : request'[x] = request[x]
        /\ \/ End(c) /\ r = NoRequest /\ r.op = "none" /\ r.token = Absent
           \/ /\ Go(c, "commit") /\ r.op = request[c].op /\ r.pc = "commit"
              /\ r.file = request[c].file /\ r.token = request[c].token
  BY <1>2, MoverGoes
<1>4. /\ r.op \in {"none", "canvas_delete"} /\ (r.op = "none" => r = NoRequest)
      /\ r.op # "none" => r.pc = "commit" /\ r.token = t
      /\ r.token = Absent \/ r.token = t
      /\ End(c) => r.op = "none"
  <2>1. End(c) => r.op = "none"
    <3>1. End(c) => request'[c] = NoRequest
      BY DEF End, FilesInv, UndoTypeOK
    <3> QED  BY <1>3, <3>1 DEF NoRequest
  <2> QED  BY <1>1, <1>2, <1>3, <2>1
<1>5. \/ UNCHANGED <<dir, stash>> /\ (r.op # "none" => snapshot[t].rows = {})
      \/ /\ snapshot[t].rows # {} /\ dir # Absent /\ stash[t] = Absent
         /\ stash' = [stash EXCEPT ![t] = dir] /\ dir' = Absent
  BY <1>1, <1>4 DEF StageAttachments, disk, MoveTree
<1>6. /\ dir' \in Folder /\ stash' \in [Tokens -> Folder]
      /\ \A x \in Tokens \ {t} : stash'[x] = stash[x]
      /\ FilesIn(dir) = IF stash' = stash THEN FilesIn(dir')
                        ELSE FilesIn(stash'[t])
  BY <1>2, <1>5 DEF FilesInv, UndoTypeOK, Folder
<1>7. RequestsInv' /\ request' \in [Senders -> Request]
  <2>1. \A y \in Senders : Uploads(y) =>
           /\ request[y].file \notin rows'
           /\ \A x \in Tokens : request[y].file \notin snapshot'[x].rows
    BY <1>2 DEF FilesInv, RequestsInv
  <2>2. RequestFits(r)'
    BY <1>2, <1>4 DEF RequestFits
  <2> QED  BY <1>2, <1>3, <1>4, <2>1, <2>2, RequestsKept DEF FilesInv
<1>8. UndoTypeOK'
  BY <1>2, <1>6, <1>7 DEF FilesInv, UndoTypeOK
<1>9. SnapshotsInv'
  BY <1>2, <1>3, <1>4, <1>6 DEF FilesInv, SnapshotsInv
<1>10. Arriving' \subseteq Arriving
  BY <1>2, <1>3, <1>4, Arrivals DEF FilesInv
<1>11. ~harm => /\ \A x \in Senders : /\ Mover(x) => x = c
                                      /\ ~Staged(x) /\ ~Returned(x)
                /\ live /\ stash[t] = Absent /\ snapshot[t].rows \subseteq rows
                /\ rows \cup Arriving \subseteq FilesIn(dir)
  <2>1. ~harm => \A x \in Senders : (Mover(x) => x = c) /\ ~Staged(x) /\ ~Returned(x)
    BY <1>2 DEF FilesInv, MoversInv, Mover, Takes, Staged, Returned
  <2> QED  BY <1>1, <1>2, <2>1 DEF FilesInv, MoversInv, PlacesInv, Takes, Staged
<1>12. ~harm => MoversInv'
  BY <1>2, <1>3, <1>4, <1>11 DEF FilesInv, MoversInv, Mover
<1>13. ~harm => PlacesInv'
  <2> SUFFICES ASSUME ~harm PROVE PlacesInv'
    OBVIOUS
  <2>1. \A x \in Senders : ~Returned(x)' /\ (Takes(x)' => x = c /\ Staged(x)' /\ r.op # "none")
    BY <1>3, <1>4, <1>11 DEF Takes, Staged, Returned, Mover
  <2>2. CASE r.op = "none"
    <3>1. UNCHANGED <<dir, stash>>
      <4>1. ~Go(c, "commit") \/ request'[c].op = "canvas_delete"
        BY <1>2 DEF Go, FilesInv, UndoTypeOK, Request
      <4> QED  BY <1>1, <1>3, <2>2, <4>1 DEF StageAttachments, disk
    <3>2. \A x \in Senders : ~Takes(x)' /\ ~Staged(x)'
      BY <1>3, <2>1, <2>2 DEF Takes, Staged
    <3> QED  BY <1>2, <1>10, <1>11, <3>1, <3>2 DEF PlacesInv
  <2>3. CASE r.op # "none"
    <3>1. Takes(c)' /\ Staged(c)' /\ request'[c].token = t
      BY <1>3, <1>4, <2>3 DEF Takes, Staged
    <3>2. StashHolds(t)'
      <4>1. CASE snapshot[t].rows = {}
        BY <1>2, <1>5, <1>11, <4>1 DEF StashHolds
      <4>2. CASE snapshot[t].rows # {}
        <5>1. FilesIn(dir) = FilesIn(stash'[t])
          BY <1>2, <1>5, <2>3, <4>2 DEF FilesInv, UndoTypeOK
        <5> QED  BY <1>2, <1>11, <4>2, <5>1 DEF StashHolds, FilesIn
      <4> QED  BY <4>1, <4>2
    <3>3. FilesIn(dir) \subseteq FilesIn(dir') \cup FilesIn(stash'[t])
      BY <1>6 
    <3>4. /\ rows' \cup Arriving' \subseteq FilesIn(dir)' \cup FilesIn(stash[t])'
          /\ live' /\ \A x \in Senders : Takes(x)' => request'[x].token = t
      BY <1>2, <1>3, <1>4, <1>10, <1>11, <2>1, <2>3, <3>3 DEF FilesIn
    <3> QED  BY <2>1, <3>1, <3>2, <3>4 DEF PlacesInv, Staged
  <2> QED  BY <2>2, <2>3
<1> QED  BY <1>2, <1>7, <1>8, <1>9, <1>12, <1>13 DEF FilesInv

\* The delete is refused, and the directory moved back if nothing is in the way.
LEMMA CanvasRefusedHolds ==
  ASSUME FilesInv, NEW c \in Senders, CommitCanvasDelete(c), child
  PROVE  FilesInv'
<1> USE CanvasUndoAssumption
<1>1. PICK t : t = request[c].token
  OBVIOUS
<1>2. /\ request[c].op = "canvas_delete" /\ request[c].pc = "commit" /\ t \in Tokens
      /\ snapshot[t].state # "unused"
      /\ dir' = Unstaged(t).dir /\ stash' = Unstaged(t).stash
      /\ harm' = (harm \/ (FilesIn(stash[t]) # {} /\ dir # Absent))
      /\ request' = [request EXCEPT ![c] = NoRequest]
      /\ UNCHANGED <<live, child, peer, linked, layout, rows, uploaded, snapshot, last>>
      /\ NoRequest.op = "none" /\ NoRequest.token = Absent
  BY <1>1 DEF CommitCanvasDelete, RollbackStaged, db, End, FilesInv, RequestsInv,
       RequestFits, NoRequest, SnapshotsInv
<1>3. \/ /\ stash[t] # Absent /\ dir = Absent
         /\ dir' = stash[t] /\ stash' = [stash EXCEPT ![t] = Absent]
      \/ (stash[t] = Absent \/ dir # Absent) /\ UNCHANGED <<dir, stash>>
  BY <1>2 DEF Unstaged, MoveTree
<1>4. /\ dir' \in Folder /\ stash' \in [Tokens -> Folder]
      /\ \A x \in Tokens \ {t} : stash'[x] = stash[x]
  BY <1>2, <1>3 DEF FilesInv, UndoTypeOK, Folder
<1>5. /\ request'[c] = NoRequest /\ \A x \in Senders \ {c} : request'[x] = request[x]
  BY <1>2 DEF FilesInv, UndoTypeOK
<1>6. RequestsInv' /\ request' \in [Senders -> Request]
  <2>1. \A y \in Senders : Uploads(y) =>
           /\ request[y].file \notin rows'
           /\ \A x \in Tokens : request[y].file \notin snapshot'[x].rows
    BY <1>2 DEF FilesInv, RequestsInv
  <2>2. RequestFits(NoRequest)'
    BY DEF RequestFits
  <2> QED  BY <1>2, <2>1, <2>2, NoRequestTyped, RequestsKept DEF FilesInv
<1>7. UndoTypeOK'
  BY <1>2, <1>4, <1>6 DEF FilesInv, UndoTypeOK
<1>8. SnapshotsInv'
  BY <1>2, <1>4, <1>5 DEF FilesInv, SnapshotsInv
<1>9. Arriving' \subseteq Arriving
  BY <1>2, NoRequestTyped, Arrivals DEF FilesInv
<1>10. ~harm' => ~harm /\ MoversInv /\ PlacesInv /\ (FilesIn(stash[t]) = {} \/ dir = Absent)
  BY <1>2 DEF FilesInv
<1>11. ~harm' => MoversInv'
  BY <1>2, <1>5, <1>10 DEF MoversInv, Mover
<1>12. ~harm' => PlacesInv'
  <2> SUFFICES ASSUME ~harm' PROVE PlacesInv'
    OBVIOUS
  <2>1. live /\ \A x \in Senders : (Takes(x) => x = c)
    BY <1>2, <1>10 DEF MoversInv, Mover, Takes
  <2>2. \A x \in Senders : ~Takes(x)' /\ ~Staged(x)'
    BY <1>2, <1>5, <2>1 DEF Takes, Staged
  <2>3. rows \cup Arriving \subseteq FilesIn(dir) \cup FilesIn(stash[t])
    BY <1>1, <1>2, <1>10 DEF PlacesInv, Staged, Takes
  <2>4. FilesIn(dir) \cup FilesIn(stash[t]) \subseteq FilesIn(dir')
    BY <1>3, <1>10 DEF FilesIn
  <2> QED  BY <1>2, <1>9, <2>1, <2>2, <2>3, <2>4 DEF PlacesInv, FilesIn
<1> QED  BY <1>2, <1>6, <1>7, <1>8, <1>11, <1>12 DEF FilesInv

\* The rows go; what was staged stays for a restore.
LEMMA CanvasDeletedHolds ==
  ASSUME FilesInv, NEW c \in Senders, CommitCanvasDelete(c), ~child
  PROVE  FilesInv'
<1> USE CanvasUndoAssumption
<1>1. PICK t : t = request[c].token
  OBVIOUS
<1> DEFINE on(l) == l \in Layouts \ Immutable /\ snapshot[t].placed[l] # {} /\ layout[l].stored
<1>2. /\ request[c].op = "canvas_delete" /\ request[c].pc = "commit" /\ t \in Tokens
      /\ snapshot[t].state # "unused"
      /\ \A l \in Layouts : on(l) => request[c].versions[l] < MaxVersion
      /\ live' = FALSE /\ linked' = FALSE /\ rows' = {} /\ UNCHANGED <<child, peer>>
      /\ snapshot' = [snapshot EXCEPT ![t].state = "issued"]
      /\ last' = t
      /\ request' = [request EXCEPT ![c] = NoRequest]
      /\ UNCHANGED <<dir, stash, uploaded, harm>>
      /\ NoRequest.op = "none" /\ NoRequest.token = Absent
  <2>1. /\ request[c].op = "canvas_delete" /\ request[c].pc = "commit"
        /\ live' = FALSE /\ linked' = FALSE /\ rows' = {} /\ UNCHANGED <<child, peer>>
        /\ snapshot' = [snapshot EXCEPT ![t].state = "issued"]
        /\ last' = t
        /\ request' = [request EXCEPT ![c] = NoRequest]
        /\ UNCHANGED <<dir, stash, uploaded, harm>>
    BY <1>1 DEF CommitCanvasDelete, DropDevice, disk, End
  <2>2. \A l \in {k \in Layouts \ Immutable : snapshot[t].placed[k] # {} /\ layout[k].stored} :
           request[c].versions[l] < MaxVersion
    BY <1>1 DEF CommitCanvasDelete
  <2>3. t \in Tokens /\ snapshot[t].state # "unused"
    BY <1>1, <2>1 DEF FilesInv, RequestsInv, RequestFits, NoRequest, SnapshotsInv
  <2> QED  BY <2>1, <2>2, <2>3 DEF NoRequest
<1>3. layout' \in [Layouts -> Layout]
  <2>1. layout' = [l \in Layouts |->
          IF l \in {k \in Layouts \ Immutable : snapshot[t].placed[k] # {} /\ layout[k].stored}
          THEN [layout[l] EXCEPT !.doc = FilterDevice(snapshot[t].placed[l]),
                                 !.version = request[c].versions[l] + 1]
          ELSE layout[l]]
    BY <1>1 DEF CommitCanvasDelete, DropDevice
  <2>2. ASSUME NEW l \in Layouts, on(l)
        PROVE  [layout[l] EXCEPT !.doc = FilterDevice(snapshot[t].placed[l]),
                                 !.version = request[c].versions[l] + 1] \in Layout
    <3>1. /\ layout[l] \in Layout /\ snapshot[t].placed[l] \in Document
          /\ request[c].versions[l] \in 1..MaxVersion
      BY <1>2 DEF FilesInv, UndoTypeOK, Snapshot, Request
    <3>2. request[c].versions[l] + 1 \in 1..MaxVersion
      BY <1>2, <2>2, <3>1
    <3>3. FilterDevice(snapshot[t].placed[l]) \in Document
      BY <3>1 DEF FilterDevice, Document
    <3> QED  BY <3>1, <3>2, <3>3 DEF Layout
  <2> QED  BY <2>1, <2>2 DEF FilesInv, UndoTypeOK
<1>4. /\ snapshot' \in [Tokens -> Snapshot]
      /\ \A x \in Tokens : /\ snapshot'[x].rows = snapshot[x].rows
                           /\ snapshot'[x].placed = snapshot[x].placed
                           /\ snapshot'[x].state = "unused" => snapshot[x].state = "unused"
  <2>1. \A x \in Tokens : snapshot[x] \in Snapshot
    BY DEF FilesInv, UndoTypeOK
  <2>2. PICK s : s = [snapshot[t] EXCEPT !.state = "issued"]
    OBVIOUS
  <2>3. /\ s \in Snapshot /\ s.rows = snapshot[t].rows /\ s.placed = snapshot[t].placed
        /\ s.state = "issued"
    BY <1>2, <2>1, <2>2 DEF Snapshot
  <2>4. snapshot' = [snapshot EXCEPT ![t] = s]
    BY <1>2, <2>2 DEF FilesInv, UndoTypeOK
  <2> QED  BY <2>1, <2>3, <2>4 DEF FilesInv, UndoTypeOK
<1>5. /\ request'[c] = NoRequest /\ \A x \in Senders \ {c} : request'[x] = request[x]
  BY <1>2 DEF FilesInv, UndoTypeOK
<1> HIDE DEF on
<1>6. RequestsInv' /\ request' \in [Senders -> Request]
  <2>1. \A y \in Senders : Uploads(y) =>
           /\ request[y].file \notin rows'
           /\ \A x \in Tokens : request[y].file \notin snapshot'[x].rows
    BY <1>2, <1>4 DEF FilesInv, RequestsInv
  <2>2. RequestFits(NoRequest)'
    BY DEF RequestFits
  <2> QED  BY <1>2, <2>1, <2>2, NoRequestTyped, RequestsKept DEF FilesInv
<1>7. UndoTypeOK'
  BY <1>2, <1>3, <1>4, <1>6 DEF FilesInv, UndoTypeOK
<1>8. SnapshotsInv'
  BY <1>2, <1>4, <1>5 DEF FilesInv, SnapshotsInv
<1>9. Arriving' \subseteq Arriving
  BY <1>2, NoRequestTyped, Arrivals DEF FilesInv
<1>10. ~harm => \A x \in Senders : /\ Mover(x) => x = c
                                   /\ ~Returned(x) /\ (Takes(x) => x = c)
  BY <1>2 DEF FilesInv, MoversInv, Mover, Returned, Takes
<1>11. ~harm => MoversInv'
  BY <1>2, <1>5, <1>10 DEF MoversInv, Mover
<1>12. ~harm => PlacesInv'
  <2> SUFFICES ASSUME ~harm PROVE PlacesInv'
    OBVIOUS
  <2>1. \A x \in Senders : ~Takes(x)' /\ ~Staged(x)' /\ ~Returned(x)'
    BY <1>2, <1>5, <1>10 DEF Takes, Staged, Returned
  <2>2. StashHolds(t) /\ Arriving \subseteq FilesIn(dir) \cup FilesIn(stash[t])
    BY <1>1, <1>2 DEF FilesInv, PlacesInv, Staged, Takes
  <2>3. StashHolds(t)' /\ Arriving' \subseteq FilesIn(dir)' \cup FilesIn(stash[t])'
    BY <1>2, <1>4, <1>9, <2>2 DEF StashHolds, FilesIn
  <2>4. last' = t /\ ~live'
    BY <1>2
  <2> QED  BY <2>1, <2>3, <2>4 DEF PlacesInv, StashHolds
<1> QED  BY <1>2, <1>6, <1>7, <1>8, <1>11, <1>12 DEF FilesInv

-----------------------------------------------------------------------------
(* Restoring.                                                               *)

\* A restore begins with the token of the last delete, or as harm.
LEMMA RestoreHolds ==
  ASSUME FilesInv, NEW c \in Senders, Restore(c)
  PROVE  FilesInv'
<1> USE CanvasUndoAssumption
<1>1. PICK t \in Tokens :
        /\ snapshot[t].state = "issued" /\ ~live /\ request[c] = NoRequest
        /\ request' = [request EXCEPT ![c] =
             [NoRequest EXCEPT !.op = "restore", !.pc = "begin", !.token = t]]
        /\ harm' = (harm \/ Moving \/ t # last)
        /\ UNCHANGED <<db, disk, uploaded, snapshot, last>>
  BY DEF Restore, Begin
<1>2. UNCHANGED <<live, child, peer, linked, rows, layout, dir, stash>>
  BY <1>1 DEF db, disk
<1>3. PICK r : r = [NoRequest EXCEPT !.op = "restore", !.pc = "begin", !.token = t]
  OBVIOUS
<1>4. /\ r \in Request /\ r.op = "restore" /\ r.pc = "begin" /\ r.token = t
  BY <1>3, NoRequestTyped DEF Request, NoRequest
<1>5. /\ request' = [request EXCEPT ![c] = r] /\ (~harm' => ~harm /\ ~Moving /\ t = last)
      /\ harm' \in BOOLEAN
  BY <1>1, <1>3 DEF FilesInv, UndoTypeOK, Moving
<1>6. RequestsInv' /\ request' \in [Senders -> Request]
  <2>1. \A y \in Senders : Uploads(y) =>
           /\ request[y].file \notin rows'
           /\ \A x \in Tokens : request[y].file \notin snapshot'[x].rows
    BY <1>1, <1>2 DEF FilesInv, RequestsInv
  <2>2. RequestFits(r)'
    BY <1>4 DEF RequestFits
  <2> QED  BY <1>1, <1>4, <1>5, <2>1, <2>2, RequestsKept DEF FilesInv
<1>7. UndoTypeOK'
  BY <1>1, <1>2, <1>5, <1>6 DEF FilesInv, UndoTypeOK
<1>8. /\ request'[c] = r /\ \A x \in Senders \ {c} : request'[x] = request[x]
      /\ Arriving' \subseteq Arriving
      /\ ~harm' => /\ ~harm /\ MoversInv /\ PlacesInv
                   /\ \A x \in Senders : Mover(x)' => x = c
                   /\ \A x \in Senders : ~Mover(x) /\ ~Takes(x) /\ ~Staged(x) /\ ~Returned(x)
  BY <1>1, <1>4, <1>5, MoveBegins
<1>9. SnapshotsInv'
  BY <1>1, <1>2, <1>4, <1>8 DEF FilesInv, SnapshotsInv
<1>10. ~harm' => MoversInv'
  BY <1>1, <1>2, <1>4, <1>5, <1>8 DEF MoversInv, Mover
<1>11. ~harm' => PlacesInv'
  <2> SUFFICES ASSUME ~harm' PROVE PlacesInv'
    OBVIOUS
  <2>1. \A x \in Senders : ~Takes(x)' /\ ~Staged(x)' /\ ~Returned(x)'
    BY <1>4, <1>8 DEF Takes, Staged, Returned
  <2>2. StashHolds(last) /\ Arriving \subseteq FilesIn(dir) \cup FilesIn(stash[last])
    BY <1>1, <1>5, <1>8 DEF PlacesInv
  <2> QED  BY <1>1, <1>2, <1>8, <2>1, <2>2 DEF PlacesInv, StashHolds, FilesIn
<1> QED  BY <1>2, <1>6, <1>7, <1>9, <1>10, <1>11 DEF FilesInv

\* The files are back in the directory before the rows are committed.
LEMMA ApplyRestoreHolds ==
  ASSUME FilesInv, NEW c \in Senders, ApplyRestore(c)
  PROVE  FilesInv'
<1> USE CanvasUndoAssumption
<1>1. PICK t : t = request[c].token
  OBVIOUS
<1>2. /\ request[c].op = "restore" /\ request[c].pc = "begin" /\ Mover(c)
      /\ t \in Tokens /\ snapshot[t].state # "unused"
      /\ Go(c, "commit") \/ End(c)
      /\ UNCHANGED <<live, child, peer, linked, layout, rows, uploaded, snapshot, harm, last>>
  BY <1>1 DEF ApplyRestore, db, Mover, FilesInv, RequestsInv, RequestFits, NoRequest,
       SnapshotsInv
<1>3. PICK r \in Request :
        /\ request' = [request EXCEPT ![c] = r]
        /\ request'[c] = r /\ \A x \in Senders \ {c} : request'[x] = request[x]
        /\ \/ End(c) /\ r = NoRequest /\ r.op = "none" /\ r.token = Absent
           \/ /\ Go(c, "commit") /\ r.op = request[c].op /\ r.pc = "commit"
              /\ r.file = request[c].file /\ r.token = request[c].token
  BY <1>2, MoverGoes
<1>4. /\ r.op \in {"none", "restore"} /\ (r.op = "none" => r = NoRequest)
      /\ r.op # "none" => r.pc = "commit" /\ r.token = t
      /\ r.token = Absent \/ r.token = t
      /\ r.op = "none" <=> End(c)
  <2>1. End(c) => r.op = "none"
    <3>1. End(c) => request'[c] = NoRequest
      BY DEF End, FilesInv, UndoTypeOK
    <3> QED  BY <1>3, <3>1 DEF NoRequest
  <2> QED  BY <1>1, <1>2, <1>3, <2>1
<1>5. \/ UNCHANGED <<dir, stash>> /\ (r.op # "none" => snapshot[t].rows = {})
      \/ /\ r.op # "none" /\ snapshot[t].rows # {} /\ dir = Absent /\ stash[t] # Absent
         /\ stash' = [stash EXCEPT ![t] = Absent] /\ dir' = stash[t]
  <2>1. CASE Restorable(t)
    <3>1. Go(c, "commit")
      BY <1>1, <2>1 DEF ApplyRestore
    <3>2. r.op # "none"
      <4>1. request'[c].op = "restore"
        BY <1>2, <3>1 DEF Go, FilesInv, UndoTypeOK, Request
      <4> QED  BY <1>3, <4>1
    <3> QED  BY <1>1, <2>1, <3>2 DEF ApplyRestore, Restorable, MoveTree, disk
  <2>2. CASE ~Restorable(t)
    BY <1>1, <1>4, <2>2 DEF ApplyRestore, disk
  <2> QED  BY <2>1, <2>2
<1>6. /\ dir' \in Folder /\ stash' \in [Tokens -> Folder]
      /\ \A x \in Tokens \ {t} : stash'[x] = stash[x]
  BY <1>2, <1>5 DEF FilesInv, UndoTypeOK, Folder
<1>7. RequestsInv' /\ request' \in [Senders -> Request]
  <2>1. \A y \in Senders : Uploads(y) =>
           /\ request[y].file \notin rows'
           /\ \A x \in Tokens : request[y].file \notin snapshot'[x].rows
    BY <1>2 DEF FilesInv, RequestsInv
  <2>2. RequestFits(r)'
    BY <1>2, <1>4 DEF RequestFits
  <2> QED  BY <1>2, <1>3, <1>4, <2>1, <2>2, RequestsKept DEF FilesInv
<1>8. UndoTypeOK'
  BY <1>2, <1>6, <1>7 DEF FilesInv, UndoTypeOK
<1>9. SnapshotsInv'
  BY <1>2, <1>3, <1>4, <1>6 DEF FilesInv, SnapshotsInv
<1>10. Arriving' \subseteq Arriving
  BY <1>2, <1>3, <1>4, Arrivals DEF FilesInv
<1>11. ~harm => /\ \A x \in Senders : /\ Mover(x) => x = c
                                      /\ ~Takes(x) /\ ~Staged(x) /\ ~Returned(x)
                /\ ~live /\ t = last /\ StashHolds(t)
                /\ Arriving \subseteq FilesIn(dir) \cup FilesIn(stash[t])
  <2>1. ~harm => /\ \A x \in Senders : /\ Mover(x) => x = c
                                       /\ ~Takes(x) /\ ~Staged(x) /\ ~Returned(x)
                 /\ ~live /\ t = last
    BY <1>1, <1>2 DEF FilesInv, MoversInv, Mover, Takes, Staged, Returned
  <2> QED  BY <1>2, <2>1 DEF FilesInv, PlacesInv
<1>12. ~harm => MoversInv'
  BY <1>2, <1>3, <1>4, <1>11 DEF FilesInv, MoversInv, Mover
<1>13. ~harm => PlacesInv'
  <2> SUFFICES ASSUME ~harm PROVE PlacesInv'
    OBVIOUS
  <2>1. \A x \in Senders : ~Takes(x)' /\ ~Staged(x)'
    BY <1>3, <1>4, <1>11 DEF Takes, Staged
  <2>2. (\E x \in Senders : Returned(x))' <=> r.op # "none"
    BY <1>3, <1>4, <1>11 DEF Returned
  <2>3. CASE r.op = "none"
    BY <1>2, <1>5, <1>10, <1>11, <2>1, <2>2, <2>3 DEF PlacesInv, StashHolds, FilesIn
  <2>4. CASE r.op # "none"
    <3>1. snapshot[t].rows \cup Arriving \subseteq FilesIn(dir')
      BY <1>5, <1>11, <2>4 DEF StashHolds, FilesIn
    <3> QED  BY <1>2, <1>10, <1>11, <2>1, <2>2, <2>4, <3>1 DEF PlacesInv, FilesIn
  <2> QED  BY <2>3, <2>4
<1> QED  BY <1>2, <1>7, <1>8, <1>9, <1>12, <1>13 DEF FilesInv

\* Every placement comes back with its node.
LEMMA PlacementsReturn ==
  ASSUME FilesInv, NEW t \in Tokens, NEW l \in Layouts, snapshot[t].placed[l] # {},
         layout[l].version < MaxVersion
  PROVE  /\ RestorePlacement(l, snapshot[t].placed[l]) \in Layout
         /\ "node" \in RestorePlacement(l, snapshot[t].placed[l]).doc
<1>1. /\ layout[l] \in Layout /\ snapshot[t].placed[l] \in Document
      /\ "node" \in snapshot[t].placed[l]
  BY DEF FilesInv, UndoTypeOK, SnapshotsInv, Snapshot
<1>2. PICK doc : doc = RestoreDevice(layout[l].doc, snapshot[t].placed[l])
  OBVIOUS
<1>3. doc \in Document /\ "node" \in doc
  BY <1>1, <1>2 DEF RestoreDevice, Document, Layout
<1>4. layout[l].version \in 1..MaxVersion /\ layout[l].version + 1 \in 1..MaxVersion
  BY <1>1, CanvasUndoAssumption DEF Layout
<1> QED  BY <1>1, <1>2, <1>3, <1>4 DEF RestorePlacement, Layout

\* A restore that commits gives the rows back to files that are there.
LEMMA CommitRestoreHolds ==
  ASSUME FilesInv, NEW c \in Senders, CommitRestore(c)
  PROVE  /\ FilesInv'
         /\ ~harm => rows' = snapshot[request[c].token].rows /\ rows' \subseteq FilesIn(dir')
         /\ linked' = snapshot[request[c].token].linked
         /\ \A l \in Layouts \ Immutable :
              snapshot[request[c].token].placed[l] # {} => "node" \in layout'[l].doc
<1> USE CanvasUndoAssumption
<1>1. PICK t : t = request[c].token
  OBVIOUS
<1>2. /\ request[c].op = "restore" /\ request[c].pc = "commit" /\ Mover(c) /\ Returned(c)
      /\ live' = TRUE /\ linked' = snapshot[t].linked /\ rows' = snapshot[t].rows
      /\ request' = [request EXCEPT ![c] = NoRequest]
      /\ UNCHANGED <<child, peer, uploaded, dir, stash, snapshot, harm, last>>
      /\ NoRequest.op = "none" /\ NoRequest.token = Absent
  BY <1>1 DEF CommitRestore, disk, Mover, Returned, End, NoRequest
<1>3. t \in Tokens
  BY <1>1, <1>2 DEF FilesInv, RequestsInv, RequestFits, NoRequest
<1>4. /\ layout' \in [Layouts -> Layout]
      /\ \A l \in Layouts \ Immutable : snapshot[t].placed[l] # {} => "node" \in layout'[l].doc
  <2> DEFINE on == {l \in Layouts \ Immutable : snapshot[t].placed[l] # {}}
  <2>1. /\ \A l \in on : layout[l].version < MaxVersion
        /\ layout' = [l \in Layouts |->
             IF l \in on THEN RestorePlacement(l, snapshot[t].placed[l]) ELSE layout[l]]
    BY <1>1 DEF CommitRestore
  <2>2. \A l \in on : /\ RestorePlacement(l, snapshot[t].placed[l]) \in Layout
                      /\ "node" \in RestorePlacement(l, snapshot[t].placed[l]).doc
    BY <1>3, <2>1, PlacementsReturn
  <2>3. \A l \in Layouts : l \notin on => layout[l] \in Layout
    BY DEF FilesInv, UndoTypeOK
  <2> QED  BY <2>1, <2>2, <2>3
<1>5. /\ rows' \subseteq uploaded /\ linked' \in BOOLEAN
      /\ \A y \in Senders : Uploads(y) => request[y].file \notin rows'
  BY <1>2, <1>3 DEF FilesInv, UndoTypeOK, SnapshotsInv, RequestsInv, Snapshot
<1>6. /\ request'[c] = NoRequest /\ \A x \in Senders \ {c} : request'[x] = request[x]
  BY <1>2 DEF FilesInv, UndoTypeOK
<1>7. RequestsInv' /\ request' \in [Senders -> Request]
  <2>1. \A y \in Senders : Uploads(y) =>
           \A x \in Tokens : request[y].file \notin snapshot'[x].rows
    BY <1>2 DEF FilesInv, RequestsInv
  <2>2. RequestFits(NoRequest)'
    BY DEF RequestFits
  <2> QED  BY <1>2, <1>5, <2>1, <2>2, NoRequestTyped, RequestsKept DEF FilesInv
<1>8. UndoTypeOK'
  BY <1>2, <1>4, <1>5, <1>7 DEF FilesInv, UndoTypeOK
<1>9. SnapshotsInv'
  BY <1>2, <1>6 DEF FilesInv, SnapshotsInv
<1>10. Arriving' \subseteq Arriving
  BY <1>2, NoRequestTyped, Arrivals DEF FilesInv
<1>11. ~harm => /\ \A x \in Senders : (Mover(x) => x = c) /\ ~Takes(x)
                /\ ~live /\ t = last
                /\ snapshot[t].rows \cup Arriving \subseteq FilesIn(dir)
  <2>1. ~harm => ~live /\ t = last /\ \A x \in Senders : (Mover(x) => x = c) /\ ~Takes(x)
    BY <1>1, <1>2 DEF FilesInv, MoversInv, Mover, Takes
  <2>2. t # Absent
    BY <1>3
  <2> QED  BY <1>2, <2>1, <2>2 DEF FilesInv, PlacesInv
<1>12. ~harm => MoversInv'
  BY <1>2, <1>6, <1>11 DEF MoversInv, Mover
<1>13. ~harm => PlacesInv'
  <2> SUFFICES ASSUME ~harm PROVE PlacesInv'
    OBVIOUS
  <2>1. \A x \in Senders : ~Takes(x)' /\ ~Staged(x)'
    BY <1>2, <1>6, <1>11 DEF Takes, Staged
  <2> QED  BY <1>2, <1>10, <1>11, <2>1 DEF PlacesInv, FilesIn
<1>14. FilesInv'
  BY <1>2, <1>7, <1>8, <1>9, <1>12, <1>13 DEF FilesInv
<1> QED  BY <1>1, <1>2, <1>4, <1>11, <1>14 DEF FilesIn

-----------------------------------------------------------------------------
(* What is cut off, and what others do.                                     *)

\* The end of the process between the files and the commit counts as harm.
LEMMA AbortHolds ==
  ASSUME FilesInv, NEW c \in Senders, Abort(c)
  PROVE  FilesInv'
<1> USE CanvasUndoAssumption
<1>1. /\ request[c].op \in {"upload", "delete", "canvas_delete", "restore"}
      /\ request' = [request EXCEPT ![c] = NoRequest]
      /\ harm' = (harm \/ request[c].op \in {"canvas_delete", "restore"})
      /\ UNCHANGED <<live, child, peer, linked, layout, rows, uploaded, dir, stash,
                     snapshot, last>>
      /\ NoRequest.op = "none" /\ NoRequest.token = Absent
  BY DEF Abort, db, disk, End, NoRequest
<1>2. /\ request'[c] = NoRequest /\ \A x \in Senders \ {c} : request'[x] = request[x]
      /\ harm' \in BOOLEAN
  BY <1>1 DEF FilesInv, UndoTypeOK
<1>3. RequestsInv' /\ request' \in [Senders -> Request]
  <2>1. \A y \in Senders : Uploads(y) =>
           /\ request[y].file \notin rows'
           /\ \A t \in Tokens : request[y].file \notin snapshot'[t].rows
    BY <1>1 DEF FilesInv, RequestsInv
  <2>2. RequestFits(NoRequest)'
    BY DEF RequestFits
  <2> QED  BY <1>1, <2>1, <2>2, NoRequestTyped, RequestsKept DEF FilesInv
<1>4. UndoTypeOK'
  BY <1>1, <1>2, <1>3 DEF FilesInv, UndoTypeOK
<1>5. SnapshotsInv'
  BY <1>1, <1>2 DEF FilesInv, SnapshotsInv
<1>6. Arriving' \subseteq Arriving
  BY <1>1, NoRequestTyped, Arrivals DEF FilesInv
<1>7. ~harm' => /\ ~harm /\ MoversInv /\ PlacesInv
                /\ request[c].op \in {"upload", "delete"}
  BY <1>1 DEF FilesInv
<1>8. ~harm' => MoversInv'
  BY <1>1, <1>2, <1>7 DEF MoversInv, Mover
<1>9. ~harm' => PlacesInv'
  <2> SUFFICES ASSUME ~harm' PROVE PlacesInv'
    OBVIOUS
  <2>1. \A x \in Senders : /\ Takes(x)' <=> Takes(x)
                           /\ Staged(x)' <=> Staged(x)
                           /\ Returned(x)' <=> Returned(x)
                           /\ Takes(x) => request'[x] = request[x]
    BY <1>1, <1>2, <1>7 DEF Takes, Staged, Returned
  <2> QED  BY <1>1, <1>6, <1>7, <2>1 DEF PlacesInv, StashHolds, FilesIn, Staged
<1> QED  BY <1>1, <1>3, <1>4, <1>5, <1>8, <1>9 DEF FilesInv

\* Others write neither rows of attachments nor files.
LEMMA OthersHold ==
  ASSUME FilesInv, Others
  PROVE  FilesInv' /\ UNCHANGED <<live, request>>
<1>1. /\ UNCHANGED <<live, rows, dir, stash, uploaded, snapshot, request, harm, last>>
      /\ child' \in BOOLEAN /\ peer' \in BOOLEAN /\ linked' \in BOOLEAN
      /\ layout' \in [Layouts -> Layout]
  <2>1. CASE Adopt \/ DeletePeer
    BY <2>1 DEF Adopt, DeletePeer, disk, FilesInv, UndoTypeOK
  <2>2. ASSUME NEW l \in Layouts, DeleteLayout(l) \/ SaveLayout(l)
        PROVE  /\ UNCHANGED <<live, child, peer, linked, rows, dir, stash, uploaded,
                              snapshot, request, harm, last>>
               /\ layout' \in [Layouts -> Layout]
    <3>1. layout[l] \in Layout
      BY DEF FilesInv, UndoTypeOK
    <3>2. CASE DeleteLayout(l)
      <4>1. [layout[l] EXCEPT !.stored = FALSE] \in Layout
        BY <3>1 DEF Layout
      <4>2. layout' = [layout EXCEPT ![l] = [layout[l] EXCEPT !.stored = FALSE]]
        BY <3>2 DEF DeleteLayout
      <4> QED  BY <3>2, <4>1, <4>2 DEF DeleteLayout, disk, FilesInv, UndoTypeOK
    <3>3. CASE SaveLayout(l)
      <4>1. PICK doc \in {{}, {"node"}} :
              /\ layout[l].version < MaxVersion
              /\ layout' = [layout EXCEPT ![l].doc = doc, ![l].version = @ + 1]
              /\ UNCHANGED <<live, child, peer, linked, rows, disk, uploaded, snapshot,
                             request, harm, last>>
        BY <3>3 DEF SaveLayout
      <4>2. PICK q : q = [layout[l] EXCEPT !.doc = doc, !.version = @ + 1]
        OBVIOUS
      <4>3. q \in Layout
        <5>1. layout[l].version + 1 \in 1..MaxVersion /\ doc \in Document
          BY <3>1, <4>1, CanvasUndoAssumption DEF Layout, Document
        <5> QED  BY <3>1, <4>2, <5>1 DEF Layout
      <4>4. layout' = [layout EXCEPT ![l] = q]
        BY <4>1, <4>2 DEF FilesInv, UndoTypeOK, Layout
      <4> QED  BY <4>1, <4>3, <4>4 DEF disk, FilesInv, UndoTypeOK
    <3> QED  BY <2>2, <3>2, <3>3
  <2>3. {child, peer, linked} \subseteq BOOLEAN
    BY DEF FilesInv, UndoTypeOK
  <2> QED  BY <2>1, <2>2, <2>3 DEF Others
<1>2. UndoTypeOK'
  BY <1>1 DEF FilesInv, UndoTypeOK
<1>3. Arriving' = Arriving /\ \A x \in Senders : /\ Takes(x)' <=> Takes(x)
                                                 /\ Staged(x)' <=> Staged(x)
                                                 /\ Returned(x)' <=> Returned(x)
  BY <1>1 DEF Arriving, Takes, Staged, Returned, Uploads
<1>4. RequestsInv' /\ SnapshotsInv' /\ (MoversInv => MoversInv')
  BY <1>1 DEF FilesInv, RequestsInv, SnapshotsInv, MoversInv, RequestFits, Uploads, Mover
<1>5. PlacesInv => PlacesInv'
  BY <1>1, <1>3 DEF PlacesInv, StashHolds, FilesIn
<1> QED  BY <1>1, <1>2, <1>4, <1>5 DEF FilesInv

-----------------------------------------------------------------------------
\* Before any request there is nothing to lose.
LEMMA FilesInitHolds == UndoInit => FilesInv
<1> SUFFICES ASSUME UndoInit PROVE FilesInv
  OBVIOUS
<1> USE CanvasUndoAssumption
<1>1. /\ live = TRUE /\ rows = {} /\ uploaded = {} /\ dir = Absent /\ harm = FALSE /\ last = Absent
      /\ \A x \in Senders : request[x] = NoRequest
      /\ \A t \in Tokens : snapshot[t] = NoSnapshot /\ stash[t] = Absent
  BY DEF UndoInit
<1>2. UndoTypeOK
  <2>1. layout \in [Layouts -> Layout]
    <3>1. 1 \in 1..MaxVersion /\ MaxVersion \in 1..MaxVersion
      OBVIOUS
    <3> QED  BY <3>1 DEF UndoInit, Layout, Document
  <2>2. NoSnapshot \in Snapshot
    BY DEF NoSnapshot, Snapshot, Document
  <2>3. snapshot \in [Tokens -> Snapshot] /\ request \in [Senders -> Request]
    BY <2>2, NoRequestTyped DEF UndoInit
  <2> QED  BY <2>1, <2>3 DEF UndoInit, UndoTypeOK, Folder
<1>3. NoRequest.op = "none" /\ NoRequest.token = Absent
  BY DEF NoRequest
<1>4. RequestsInv /\ SnapshotsInv /\ MoversInv
  BY <1>1, <1>3 DEF RequestsInv, SnapshotsInv, MoversInv, RequestFits, Uploads, Mover,
       NoSnapshot
<1>5. PlacesInv
  <2>1. Arriving = {} /\ \A x \in Senders : ~Takes(x) /\ ~Staged(x)
    BY <1>1, <1>3 DEF Arriving, Takes, Staged, Uploads
  <2> QED  BY <1>1, <2>1 DEF PlacesInv
<1> QED  BY <1>1, <1>2, <1>4, <1>5 DEF FilesInv

\* Every step of every request, and of the others, keeps the invariant.
LEMMA FilesStepHolds ==
  ASSUME FilesInv, NEW c \in Senders, RequestStep(c)
  PROVE  FilesInv'
<1>1. CASE Upload(c) \/ UploadWrite(c) \/ CommitUpload(c)
  BY <1>1, UploadHolds, WriteHolds, CommitUploadHolds
<1>2. CASE Detach(c) \/ CommitDetach(c) \/ DetachFiles(c)
  BY <1>2, DetachHolds, CommitDetachHolds, DetachFilesHolds
<1>3. CASE PlainDelete(c) \/ CommitPlainDelete(c) \/ CleanupStorage(c)
  BY <1>3, PlainDeleteHolds, CommitPlainDeleteHolds, CleanupHolds
<1>4. CASE CanvasDelete(c) \/ StageAttachments(c)
  BY <1>4, CanvasDeleteHolds, StageHolds
<1>5. CASE CommitCanvasDelete(c)
  BY <1>5, CanvasRefusedHolds, CanvasDeletedHolds
<1>6. CASE Restore(c) \/ ApplyRestore(c)
  BY <1>6, RestoreHolds, ApplyRestoreHolds
<1>7. CASE CommitRestore(c)
  BY <1>7, CommitRestoreHolds
<1>8. CASE Abort(c)
  BY <1>8, AbortHolds
<1> QED  BY <1>1, <1>2, <1>3, <1>4, <1>5, <1>6, <1>7, <1>8 DEF RequestStep

\* Of every number of attachments, tokens, layouts and senders: the invariant
\* FilesInv, which follows the files through every step of every request.
THEOREM FilesInductive == UndoSpec => []FilesInv
<1>1. FilesInv /\ [UndoNext]_undoVars => FilesInv'
  <2> SUFFICES ASSUME FilesInv, [UndoNext]_undoVars PROVE FilesInv'
    OBVIOUS
  <2>1. CASE Others
    BY <2>1, OthersHold
  <2>2. CASE \E c \in Senders : RequestStep(c)
    BY <2>2, FilesStepHolds
  <2>3. CASE UNCHANGED undoVars
    BY <2>3 DEF undoVars, FilesInv, UndoTypeOK, RequestsInv, SnapshotsInv, MoversInv,
         PlacesInv, RequestFits, Uploads, Mover, Takes, Staged, Returned, Arriving,
         StashHolds, FilesIn
  <2> QED  BY <2>1, <2>2, <2>3 DEF UndoNext
<1> QED  BY <1>1, FilesInitHolds, PTL DEF UndoSpec

\* canvas_undo_service.py, attachment_service.py: when no request is under way and
\* none of the mishaps named at harm befell it, each attachment that has a row has
\* its file in the directory of the device.
THEOREM AttachmentsCorrect == UndoSpec => []AttachmentsHold
<1>1. FilesInv => AttachmentsHold
  <2> SUFFICES ASSUME FilesInv, Quiet, ~harm PROVE rows \subseteq FilesIn(dir)
    BY DEF AttachmentsHold, FilesFollowRows, FilesInv
  <2>1. \A x \in Senders : ~Staged(x)
    BY DEF Quiet, Staged, Takes, NoRequest
  <2> QED  BY <2>1 DEF FilesInv, PlacesInv
<1> QED  BY <1>1, FilesInductive, PTL

\* Only the commit of a restore brings the device back.
LEMMA OnlyRestoreRevives ==
  ASSUME FilesInv, NEW x \in Senders, RequestStep(x), ~live, live'
  PROVE  CommitRestore(x)
BY DEF RequestStep, Upload, UploadWrite, CommitUpload, Detach, CommitDetach, DetachFiles,
     PlainDelete, CommitPlainDelete, CleanupStorage, CanvasDelete, StageAttachments,
     CommitCanvasDelete, Restore, ApplyRestore, Abort, DropDevice, db

\* canvas_undo_service.py: a restore that nothing disturbed gives back the
\* connection, every attachment that the delete captured, with its file, and the node
\* on every working layout.
THEOREM UndoCorrect == UndoSpec => UndoGivesBack
<1>1. FilesInv /\ [UndoNext]_undoVars => [UndoGivesBackStep]_undoVars
  <2> SUFFICES ASSUME FilesInv, UndoNext, NEW c \in Senders, live', ~live, ~harm,
                      request[c].op = "restore", request'[c] = NoRequest
               PROVE  LET s == snapshot[request[c].token]
                      IN /\ rows' = s.rows /\ rows' \subseteq FilesIn(dir')
                         /\ linked' = s.linked
                         /\ \A l \in Layouts \ Immutable :
                              s.placed[l] # {} => "node" \in layout'[l].doc
    BY DEF UndoGivesBackStep
  <2>1. PICK x \in Senders : RequestStep(x)
    BY OthersHold DEF UndoNext
  <2>2. CommitRestore(x)
    BY <2>1, OnlyRestoreRevives
  <2>3. x = c
    <3>1. NoRequest.op # "restore"
      BY DEF NoRequest
    <3> QED  BY <2>2, <3>1 DEF CommitRestore, End, FilesInv, UndoTypeOK
  <2> QED  BY <2>2, <2>3, CommitRestoreHolds
<1> QED  BY <1>1, FilesInductive, PTL DEF UndoSpec, UndoGivesBack

-----------------------------------------------------------------------------
(***************************************************************************)
(* Drafts that become devices (DraftPublish).                              *)
(***************************************************************************)

\* An edge is a set of two nodes, and still is when one end gets another id.
LEMMA PairKept ==
  ASSUME NEW p \in Pairs, NEW x \in p, NEW d \in Nodes, d \notin p
  PROVE  (p \ {x}) \cup {d} \in Pairs
<1>1. IsFiniteSet(Nodes)
  BY DraftPublishAssumption, FS_Union DEF Nodes
<1>2. p \subseteq Nodes /\ Cardinality(p) = 2 /\ IsFiniteSet(p)
  BY <1>1, FS_Subset DEF Pairs
<1>3. IsFiniteSet(p \ {x}) /\ Cardinality(p \ {x}) = 1
  BY <1>2, FS_RemoveElement
<1>4. PICK q : q = p \ {x}
  OBVIOUS
<1>5. IsFiniteSet(q) /\ Cardinality(q) = 1
  BY <1>3, <1>4, Zenon
<1>6. d \notin q
  BY <1>4
<1>7. Cardinality(q \cup {d}) = 2
  <2>1. Cardinality(q \cup {d}) = Cardinality(q) + 1
    BY <1>5, <1>6, FS_AddElement, Zenon
  <2> QED  BY <1>5, <2>1
<1> QED  BY <1>2, <1>4, <1>7 DEF Pairs

\* A request that is not used is a well-typed one.
LEMMA IdleTyped == Idle \in DraftRequest
  BY DEF Idle, DraftRequest

\* What a request becomes.
LEMMA ReqsTyped ==
  ASSUME PublishTypeOK, NEW r \in Requests, NEW q \in DraftRequest,
         reqs' = [reqs EXCEPT ![r] = q]
  PROVE  /\ reqs' \in [Requests -> DraftRequest] /\ reqs'[r] = q
         /\ \A s \in Requests \ {r} : reqs'[s] = reqs[s]
  BY DEF PublishTypeOK

\* A step that makes no device and shows no node leaves the devices as they stand.
LEMMA DevicesKept ==
  ASSUME PublishInv, UNCHANGED <<shown, source, used, removed, lost>>,
         reqs' \in [Requests -> DraftRequest],
         \A r \in Requests :
           /\ reqs'[r].at \in {"posting", "created"} <=> reqs[r].at \in {"posting", "created"}
           /\ reqs'[r].at \in {"posting", "created"} =>
                reqs'[r].at = reqs[r].at /\ reqs'[r].draft = reqs[r].draft /\ reqs'[r].new = reqs[r].new
  PROVE  AnswersInv' /\ LandedInv'
<1>1. AnswersInv'
  BY DEF PublishInv, AnswersInv
<1>2. LandedInv'
  BY DEF PublishInv, LandedInv, DraftsAreKept
<1> QED  BY <1>1, <1>2

-----------------------------------------------------------------------------
(* What the user does.                                                      *)

\* A draft that is placed has a new id and no edge.
LEMMA PlaceHolds ==
  ASSUME PublishInv, NEW x \in Drafts, PlaceDraft(x)
  PROVE  PublishInv'
<1>1. /\ x \notin used /\ shown' = shown \cup {x} /\ used' = used \cup {x}
      /\ UNCHANGED <<server, drawn, joined, reqs, source, removed, edits, lost, refused>>
  BY DEF PlaceDraft
<1>2. PublishTypeOK' /\ CanvasInv'
  BY <1>1 DEF PublishInv, PublishTypeOK, CanvasInv, Nodes
<1>3. AnswersInv'
  BY <1>1, DraftPublishAssumption DEF PublishInv, PublishTypeOK, AnswersInv
<1>4. LandedInv'
  BY <1>1 DEF PublishInv, LandedInv, DraftsAreKept, CanvasInv
<1>5. EdgesInv'
  BY <1>1 DEF PublishInv, EdgesInv, Published
<1> QED  BY <1>2, <1>3, <1>4, <1>5 DEF PublishInv

\* An edge that is drawn has both its ends on the canvas.
LEMMA DrawHolds ==
  ASSUME PublishInv, NEW p \in Pairs, DrawDraftEdge(p) \/ OthersConnect(p)
  PROVE  PublishInv'
<1>1. /\ UNCHANGED <<shown, joined, reqs, used, source, removed, lost, refused>>
      /\ \/ drawn' = drawn \cup {p} /\ p \subseteq shown /\ ~Published(p) /\ server' = server
         \/ drawn' = drawn /\ server' = [server EXCEPT !.link = @ \cup {p}]
  BY DEF DrawDraftEdge, OthersConnect
<1>2. PublishTypeOK' /\ CanvasInv'
  BY <1>1 DEF PublishInv, PublishTypeOK, CanvasInv
<1>3. AnswersInv' /\ LandedInv'
  BY <1>1 DEF PublishInv, AnswersInv, LandedInv, DraftsAreKept
<1>4. EdgesInv'
  BY <1>1 DEF PublishInv, EdgesInv, Published
<1> QED  BY <1>2, <1>3, <1>4 DEF PublishInv

\* A request starts with what the canvas shows at that moment.
LEMMA RequestHolds ==
  ASSUME PublishInv,
         (\E p \in Pairs : RequestConnection(p)) \/ (\E x \in Drafts : PublishDraft(x))
  PROVE  PublishInv'
<1>1. PICK r \in Requests, q \in DraftRequest :
        /\ reqs[r].at = "none" /\ reqs' = [reqs EXCEPT ![r] = q]
        /\ q.at \in {"connecting", "posting"}
        /\ q.at = "posting" => q.draft \in shown \cap Drafts
        /\ UNCHANGED <<server, shown, drawn, joined, used, source, removed, lost, refused>>
  <2>1. CASE \E p \in Pairs : RequestConnection(p)
    <3>1. PICK p \in Pairs, r \in Requests :
            /\ reqs[r].at = "none"
            /\ reqs' = [reqs EXCEPT ![r] = [Idle EXCEPT !.at = "connecting", !.asked = {p}]]
            /\ UNCHANGED <<server, shown, drawn, joined, used, source, removed, lost, refused>>
      BY <2>1 DEF RequestConnection
    <3>2. PICK q : q = [Idle EXCEPT !.at = "connecting", !.asked = {p}]
      OBVIOUS
    <3>3. q \in DraftRequest /\ q.at = "connecting"
      BY <3>2 DEF Idle, DraftRequest
    <3> QED  BY <3>1, <3>2, <3>3
  <2>2. CASE \E x \in Drafts : PublishDraft(x)
    <3>1. PICK x \in Drafts, r \in Requests :
            /\ x \in shown /\ reqs[r].at = "none"
            /\ reqs' = [reqs EXCEPT ![r] = [Idle EXCEPT !.at = "posting", !.draft = x]]
            /\ UNCHANGED <<server, shown, drawn, joined, used, source, removed, lost, refused>>
      BY <2>2 DEF PublishDraft
    <3>2. PICK q : q = [Idle EXCEPT !.at = "posting", !.draft = x]
      OBVIOUS
    <3>3. q \in DraftRequest /\ q.at = "posting" /\ q.draft = x
      BY <3>2 DEF Idle, DraftRequest
    <3> QED  BY <3>1, <3>2, <3>3
  <2> QED  BY <2>1, <2>2
<1>2. /\ reqs' \in [Requests -> DraftRequest] /\ reqs'[r] = q
      /\ \A s \in Requests \ {r} : reqs'[s] = reqs[s]
  BY <1>1, ReqsTyped DEF PublishInv
<1>3. PublishTypeOK' /\ CanvasInv'
  BY <1>1, <1>2 DEF PublishInv, PublishTypeOK, CanvasInv
<1>4. AnswersInv'
  BY <1>1, <1>2 DEF PublishInv, AnswersInv, CanvasInv
<1>5. LandedInv'
  BY <1>1, <1>2 DEF PublishInv, LandedInv, DraftsAreKept
<1>6. EdgesInv'
  BY <1>1, <1>2 DEF PublishInv, EdgesInv, Published
<1> QED  BY <1>3, <1>4, <1>5, <1>6 DEF PublishInv

\* A node that is removed takes its edges along.
LEMMA RemoveHolds ==
  ASSUME PublishInv, NEW n \in Nodes, RemoveNode(n)
  PROVE  PublishInv'
<1>1. /\ n \in shown /\ shown' = shown \ {n} /\ drawn' = drawn \ At(n, drawn)
      /\ joined' = joined \ At(n, joined) /\ removed' = removed \cup {n}
      /\ UNCHANGED <<server, reqs, used, source, lost, refused>>
  BY DEF RemoveNode
<1>2. PublishTypeOK' /\ CanvasInv'
  BY <1>1 DEF PublishInv, PublishTypeOK, CanvasInv, At
<1>3. AnswersInv'
  BY <1>1 DEF PublishInv, AnswersInv
<1>4. LandedInv'
  BY <1>1 DEF PublishInv, LandedInv, DraftsAreKept
<1>5. EdgesInv'
  BY <1>1 DEF PublishInv, EdgesInv, Published
<1> QED  BY <1>2, <1>3, <1>4, <1>5 DEF PublishInv

-----------------------------------------------------------------------------
(* The server.                                                              *)

\* The id of a new device is nobody else's and not on the canvas yet.
LEMMA PostDeviceHolds ==
  ASSUME PublishInv, NEW r \in Requests, PostDevice(r)
  PROVE  PublishInv'
<1>1. PICK d \in DeviceIds \ used :
        /\ reqs[r].at = "posting"
        /\ server' = [server EXCEPT !.device = @ \cup {d}]
        /\ used' = used \cup {d} /\ source' = [source EXCEPT ![d] = reqs[r].draft]
        /\ reqs' = [reqs EXCEPT ![r] = [@ EXCEPT !.at = "created", !.new = d]]
        /\ UNCHANGED <<shown, drawn, joined, removed, edits, lost, refused>>
  BY DEF PostDevice
<1>2. PICK q : q = [reqs[r] EXCEPT !.at = "created", !.new = d]
  OBVIOUS
<1>3. /\ reqs[r] \in DraftRequest /\ q \in DraftRequest
      /\ q.at = "created" /\ q.new = d /\ q.draft = reqs[r].draft
      /\ reqs[r].draft \in Drafts \cap used
  BY <1>1, <1>2 DEF PublishInv, PublishTypeOK, DraftRequest, AnswersInv
<1>4. reqs' = [reqs EXCEPT ![r] = q]
  BY <1>1, <1>2 DEF PublishInv, PublishTypeOK
<1>5. /\ reqs' \in [Requests -> DraftRequest] /\ reqs'[r] = q
      /\ \A s \in Requests \ {r} : reqs'[s] = reqs[s]
  BY <1>3, <1>4, ReqsTyped DEF PublishInv
<1>6. /\ source' \in [DeviceIds -> Drafts \cup {NoDraft}] /\ source'[d] = reqs[r].draft
      /\ \A e \in DeviceIds \ {d} : source'[e] = source[e]
  BY <1>1, <1>3 DEF PublishInv, PublishTypeOK
<1>7. PublishTypeOK' /\ CanvasInv'
  BY <1>1, <1>3, <1>5, <1>6 DEF PublishInv, PublishTypeOK, CanvasInv
<1>8. AnswersInv'
  BY <1>1, <1>3, <1>5, <1>6 DEF PublishInv, AnswersInv, CanvasInv
<1>9. LandedInv'
  <2>1. DraftsAreKept'
    BY <1>1, <1>6, DraftPublishAssumption DEF PublishInv, LandedInv, DraftsAreKept, CanvasInv
  <2>2. ASSUME NEW e \in DeviceIds \ lost, source'[e] # NoDraft
        PROVE  \/ \E s \in Requests : reqs'[s].at = "created" /\ reqs'[s].new = e
               \/ e \in shown \cup removed /\ source'[e] \notin shown
    BY <1>1, <1>3, <1>5, <1>6, <2>2 DEF PublishInv, LandedInv
  <2> QED  BY <1>1, <2>1, <2>2 DEF LandedInv
<1>10. EdgesInv'
  BY <1>1, <1>3, <1>5 DEF PublishInv, EdgesInv, Published
<1> QED  BY <1>7, <1>8, <1>9, <1>10 DEF PublishInv

\* A refusal leaves the draft a draft.
LEMMA RefuseDeviceHolds ==
  ASSUME PublishInv, NEW r \in Requests, RefuseDevice(r) \/ KeepDraft(r)
  PROVE  PublishInv'
<1>1. PICK q \in DraftRequest :
        /\ reqs[r].at \in {"posting", "refused"} /\ q.at \in {"none", "refused"}
        /\ reqs' = [reqs EXCEPT ![r] = q]
        /\ UNCHANGED <<server, shown, drawn, joined, used, source, removed, lost, refused>>
  <2>1. CASE RefuseDevice(r)
    <3>1. PICK q : q = [reqs[r] EXCEPT !.at = "refused"]
      OBVIOUS
    <3>2. q \in DraftRequest /\ q.at = "refused"
      BY <3>1 DEF PublishInv, PublishTypeOK, DraftRequest
    <3>3. reqs' = [reqs EXCEPT ![r] = q]
      BY <2>1, <3>1 DEF RefuseDevice, PublishInv, PublishTypeOK
    <3> QED  BY <2>1, <3>2, <3>3 DEF RefuseDevice
  <2>2. CASE KeepDraft(r)
    BY <2>2, IdleTyped DEF KeepDraft, Idle
  <2> QED  BY <2>1, <2>2
<1>2. /\ reqs' \in [Requests -> DraftRequest] /\ reqs'[r] = q
      /\ \A s \in Requests \ {r} : reqs'[s] = reqs[s]
  BY <1>1, ReqsTyped DEF PublishInv
<1>3. PublishTypeOK' /\ CanvasInv'
  BY <1>1, <1>2 DEF PublishInv, PublishTypeOK, CanvasInv
<1>4. AnswersInv'
  BY <1>1, <1>2 DEF PublishInv, AnswersInv
<1>5. LandedInv'
  BY <1>1, <1>2 DEF PublishInv, LandedInv, DraftsAreKept
<1>6. EdgesInv'
  BY <1>1, <1>2 DEF PublishInv, EdgesInv, Published
<1> QED  BY <1>3, <1>4, <1>5, <1>6 DEF PublishInv

\* A connection is made between two devices that the server knows.
LEMMA ConnectHolds ==
  ASSUME PublishInv, NEW r \in Requests, NEW p \in Pairs, PostConnection(r, p)
  PROVE  PublishInv'
<1>1. PICK q : q = [reqs[r] EXCEPT !.made = @ \cup {p}]
  OBVIOUS
<1>2. /\ q \in DraftRequest /\ q.at = reqs[r].at /\ q.draft = reqs[r].draft
      /\ q.new = reqs[r].new /\ q.asked = reqs[r].asked
  BY <1>1 DEF PublishInv, PublishTypeOK, DraftRequest
<1>3. /\ reqs' = [reqs EXCEPT ![r] = q]
      /\ server' \in [device : SUBSET DeviceIds, link : SUBSET Pairs]
      /\ UNCHANGED <<shown, drawn, joined, used, source, removed, lost, refused>>
  BY <1>1 DEF PostConnection, PublishInv, PublishTypeOK
<1>4. /\ reqs' \in [Requests -> DraftRequest] /\ reqs'[r] = q
      /\ \A s \in Requests \ {r} : reqs'[s] = reqs[s]
  BY <1>2, <1>3, ReqsTyped DEF PublishInv
<1>5. PublishTypeOK' /\ CanvasInv'
  BY <1>3, <1>4 DEF PublishInv, PublishTypeOK, CanvasInv
<1>6. AnswersInv' /\ LandedInv'
  BY <1>2, <1>3, <1>4, DevicesKept
<1>7. EdgesInv'
  BY <1>2, <1>3, <1>4 DEF PublishInv, EdgesInv, Published
<1> QED  BY <1>5, <1>6, <1>7 DEF PublishInv

\* A pair that the page no longer asks for is one that was refused, or whose answer
\* was lost.
LEMMA GiveUpHolds ==
  ASSUME PublishInv, NEW r \in Requests, NEW p \in Pairs, GiveUpConnection(r, p)
  PROVE  PublishInv'
<1>1. PICK q : q = [reqs[r] EXCEPT !.asked = @ \ {p}, !.made = @ \ {p}]
  OBVIOUS
<1>2. /\ q \in DraftRequest /\ q.at = reqs[r].at /\ q.draft = reqs[r].draft
      /\ q.new = reqs[r].new /\ q.asked = reqs[r].asked \ {p}
  BY <1>1 DEF PublishInv, PublishTypeOK, DraftRequest
<1>3. /\ reqs' = [reqs EXCEPT ![r] = q]
      /\ refused \subseteq refused' /\ refused' \subseteq refused \cup {p}
      /\ reqs[r].at = "promoting" => p \in refused'
      /\ UNCHANGED <<server, shown, drawn, joined, used, source, removed, lost>>
  BY <1>1 DEF GiveUpConnection, PublishInv, PublishTypeOK, DraftRequest
<1>4. /\ reqs' \in [Requests -> DraftRequest] /\ reqs'[r] = q
      /\ \A s \in Requests \ {r} : reqs'[s] = reqs[s]
  BY <1>2, <1>3, ReqsTyped DEF PublishInv
<1>5. PublishTypeOK' /\ CanvasInv'
  BY <1>3, <1>4 DEF PublishInv, PublishTypeOK, CanvasInv
<1>6. AnswersInv' /\ LandedInv'
  BY <1>2, <1>3, <1>4, DevicesKept
<1>7. EdgesInv'
  BY <1>2, <1>3, <1>4 DEF PublishInv, EdgesInv, Published
<1> QED  BY <1>5, <1>6, <1>7 DEF PublishInv

-----------------------------------------------------------------------------
(* The answers.                                                             *)

\* A device whose answer is lost is not shown, now or later, and its draft stays.
LEMMA LoseDeviceHolds ==
  ASSUME PublishInv, NEW r \in Requests, LoseDeviceAnswer(r)
  PROVE  PublishInv'
<1>1. PICK d, q : d = reqs[r].new /\ q = [reqs[r] EXCEPT !.at = "refused"]
  OBVIOUS
<1>2. /\ reqs[r].at = "created" /\ reqs' = [reqs EXCEPT ![r] = q]
      /\ lost' = lost \cup {d}
      /\ UNCHANGED <<server, shown, drawn, joined, used, source, removed, refused>>
  BY <1>1 DEF LoseDeviceAnswer, PublishInv, PublishTypeOK
<1>3. /\ d \in DeviceIds \cap used /\ d \notin shown
      /\ \A s \in Requests \ {r} : reqs[s].at = "created" => reqs[s].new # d
  BY <1>1, <1>2 DEF PublishInv, AnswersInv
<1>4. q \in DraftRequest /\ q.at = "refused"
  BY <1>1 DEF PublishInv, PublishTypeOK, DraftRequest
<1>5. /\ reqs' \in [Requests -> DraftRequest] /\ reqs'[r] = q
      /\ \A s \in Requests \ {r} : reqs'[s] = reqs[s]
  BY <1>2, <1>4, ReqsTyped DEF PublishInv
<1>6. PublishTypeOK' /\ CanvasInv'
  BY <1>2, <1>3, <1>5 DEF PublishInv, PublishTypeOK, CanvasInv
<1>7. AnswersInv'
  BY <1>2, <1>3, <1>4, <1>5 DEF PublishInv, AnswersInv
<1>8. LandedInv'
  <2>1. DraftsAreKept'
    BY <1>2 DEF PublishInv, LandedInv, DraftsAreKept
  <2>2. ASSUME NEW e \in DeviceIds \ lost', source[e] # NoDraft
        PROVE  \/ \E s \in Requests : reqs'[s].at = "created" /\ reqs'[s].new = e
               \/ e \in shown \cup removed /\ source[e] \notin shown
    BY <1>1, <1>2, <1>5, <2>2 DEF PublishInv, LandedInv
  <2> QED  BY <1>2, <2>1, <2>2 DEF LandedInv
<1>9. EdgesInv'
  BY <1>2, <1>4, <1>5 DEF PublishInv, EdgesInv, Published
<1> QED  BY <1>6, <1>7, <1>8, <1>9 DEF PublishInv

\* The device takes the place of its draft, and the edges go over to it.
LEMMA ReplaceHolds ==
  ASSUME PublishInv, NEW r \in Requests, ReplaceDraft(r)
  PROVE  PublishInv'
<1>1. PICK x, d : x = reqs[r].draft /\ d = reqs[r].new
  OBVIOUS
<1>2. PICK lines : lines = BuildReplacementEdges(At(x, drawn), x, d)
  OBVIOUS
<1>3. PICK all : all = (drawn \ At(x, drawn)) \cup lines
  OBVIOUS
<1>4. PICK known : known = {p \in Promoted(all, d) : p \in joined}
  OBVIOUS
<1>5. PICK q : q = [reqs[r] EXCEPT !.at = "promoting", !.asked = Promoted(all, d) \ known]
  OBVIOUS
<1>6. /\ reqs[r].at = "created"
      /\ shown' = (shown \ {x}) \cup {d} /\ drawn' = all \ known
      /\ reqs' = [reqs EXCEPT ![r] = q]
      /\ UNCHANGED <<server, joined, used, source, removed, edits, lost, refused>>
  BY <1>1, <1>2, <1>3, <1>4, <1>5 DEF ReplaceDraft, ReplaceNode, PublishInv, PublishTypeOK
<1>7. /\ x \in Drafts \cap used /\ d \in DeviceIds \cap used /\ d \notin shown \cup lost
      /\ source[d] = x /\ x # d /\ d \notin Drafts
  BY <1>1, <1>6, DraftPublishAssumption DEF PublishInv, AnswersInv
<1>8. ASSUME NEW p \in all
      PROVE  /\ p \in Pairs /\ p \subseteq (shown \ {x}) \cup {d}
             /\ (p \in drawn /\ d \notin p) \/ d \in p
  <2>1. CASE p \in drawn \ At(x, drawn)
    BY <1>7, <2>1 DEF PublishInv, PublishTypeOK, CanvasInv, At
  <2>2. CASE p \in lines
    <3>1. PICK o \in drawn : x \in o /\ p = (o \ {x}) \cup {d}
      BY <1>2, <2>2 DEF BuildReplacementEdges, At
    <3>2. o \in Pairs /\ o \subseteq shown /\ d \notin o /\ d \in Nodes
      BY <1>7 DEF PublishInv, PublishTypeOK, CanvasInv, Nodes
    <3>3. p \in Pairs
      BY <3>1, <3>2, PairKept
    <3> QED  BY <3>1, <3>2, <3>3
  <2> QED  BY <1>3, <1>8, <2>1, <2>2
<1>9. Promoted(all, d) \subseteq all /\ \A p \in all : d \in p /\ Published(p) => p \in Promoted(all, d)
  BY DEF Promoted, At
<1>10. /\ q \in DraftRequest /\ q.at = "promoting" /\ q.asked = Promoted(all, d) \ known
  <2>1. Promoted(all, d) \ known \in SUBSET Pairs
    BY <1>8, <1>9
  <2>2. reqs[r] \in DraftRequest
    BY DEF PublishInv, PublishTypeOK
  <2> QED  BY <1>5, <2>1, <2>2 DEF DraftRequest
<1>11. /\ reqs' \in [Requests -> DraftRequest] /\ reqs'[r] = q
       /\ \A s \in Requests \ {r} : reqs'[s] = reqs[s]
  BY <1>6, <1>10, ReqsTyped DEF PublishInv
<1>12. PublishTypeOK'
  <2>1. drawn' \subseteq Pairs
    BY <1>6, <1>8
  <2>2. shown' \subseteq Nodes
    BY <1>6, <1>7 DEF PublishInv, PublishTypeOK, Nodes
  <2> QED  BY <1>6, <1>11, <2>1, <2>2 DEF PublishInv, PublishTypeOK
<1>13. CanvasInv'
  BY <1>6, <1>7, <1>8 DEF PublishInv, CanvasInv
<1>14. AnswersInv'
  <2>1. \A s \in Requests \ {r} : reqs[s].at = "created" => reqs[s].new # d
    BY <1>1, <1>6 DEF PublishInv, AnswersInv
  <2>2. \A s \in Requests : reqs[s].at = "created" => reqs[s].new \in DeviceIds
    BY DEF PublishInv, AnswersInv
  <2> QED  BY <1>6, <1>7, <1>10, <1>11, <2>1, <2>2 DEF PublishInv, AnswersInv
<1>15. LandedInv'
  <2>1. DraftsAreKept'
    <3> SUFFICES ASSUME NEW y \in Drafts \cap used
                 PROVE  \/ y \in shown' \cup removed
                        \/ \E e \in DeviceIds : source[e] = y /\ e \in shown' \cup removed
      BY <1>6 DEF DraftsAreKept
    <3>1. CASE y = x
      BY <1>6, <1>7, <3>1
    <3>2. CASE y # x
      <4>1. \A e \in DeviceIds : e \in shown \cup removed => e \in shown' \cup removed
        BY <1>6, <1>7, DraftPublishAssumption
      <4>2. y \in shown \cup removed => y \in shown' \cup removed
        BY <1>6, <3>2
      <4> QED  BY <4>1, <4>2 DEF PublishInv, LandedInv, DraftsAreKept
    <3> QED  BY <3>1, <3>2
  <2>2. ASSUME NEW e \in DeviceIds \ lost, source[e] # NoDraft
        PROVE  \/ \E s \in Requests : reqs'[s].at = "created" /\ reqs'[s].new = e
               \/ e \in shown' \cup removed /\ source[e] \notin shown'
    <3>1. CASE e = d
      BY <1>6, <1>7, <3>1
    <3>2. CASE e # d
      <4>1. CASE \E s \in Requests : reqs[s].at = "created" /\ reqs[s].new = e
        BY <1>1, <1>11, <3>2, <4>1
      <4>2. CASE e \in shown \cup removed /\ source[e] \notin shown
        <5>1. e # x /\ source[e] # d
          BY <1>7, DraftPublishAssumption, <2>2 DEF PublishInv, PublishTypeOK
        <5> QED  BY <1>6, <4>2, <5>1
      <4> QED  BY <2>2, <4>1, <4>2 DEF PublishInv, LandedInv
    <3> QED  BY <3>1, <3>2
  <2> QED  BY <1>6, <2>1, <2>2 DEF LandedInv
<1>16. EdgesInv'
  <2> SUFFICES ASSUME NEW p \in drawn' \ refused, Published(p)
               PROVE  \E s \in Requests : reqs'[s].at = "promoting" /\ p \in reqs'[s].asked
    BY <1>6 DEF EdgesInv, Published
  <2>1. CASE d \in p
    BY <1>6, <1>9, <1>10, <1>11, <2>1
  <2>2. CASE d \notin p
    <3>1. p \in drawn
      BY <1>6, <1>8, <2>2
    <3>2. PICK s \in Requests : reqs[s].at = "promoting" /\ p \in reqs[s].asked
      BY <3>1 DEF PublishInv, EdgesInv
    <3> QED  BY <1>6, <1>11, <3>2
  <2> QED  BY <2>1, <2>2
<1> QED  BY <1>12, <1>13, <1>14, <1>15, <1>16 DEF PublishInv

\* The canvas takes over what the answer of a connection says.
LEMMA ShowHolds ==
  ASSUME PublishInv, NEW r \in Requests, NEW p \in Pairs, ShowConnection(r, p)
  PROVE  PublishInv'
<1>1. PICK q : q = [reqs[r] EXCEPT !.made = @ \ {p}, !.asked = @ \ {p}]
  OBVIOUS
<1>2. /\ q \in DraftRequest /\ q.at = reqs[r].at /\ q.draft = reqs[r].draft
      /\ q.new = reqs[r].new /\ q.asked = reqs[r].asked \ {p}
  BY <1>1 DEF PublishInv, PublishTypeOK, DraftRequest
<1>3. /\ reqs' = [reqs EXCEPT ![r] = q]
      /\ UNCHANGED <<server, shown, used, source, removed, lost, refused>>
      /\ \/ /\ joined' = joined \cup {p}
            /\ drawn' = IF reqs[r].at = "promoting" THEN drawn \ {p} ELSE drawn
         \/ ~(p \subseteq shown) /\ UNCHANGED <<joined, drawn>>
  BY <1>1 DEF ShowConnection, PublishInv, PublishTypeOK, DraftRequest
<1>4. /\ reqs' \in [Requests -> DraftRequest] /\ reqs'[r] = q
      /\ \A s \in Requests \ {r} : reqs'[s] = reqs[s]
  BY <1>2, <1>3, ReqsTyped DEF PublishInv
<1>5. drawn' \subseteq drawn
  BY <1>3
<1>6. PublishTypeOK' /\ CanvasInv'
  BY <1>3, <1>4, <1>5 DEF PublishInv, PublishTypeOK, CanvasInv
<1>7. AnswersInv' /\ LandedInv'
  BY <1>2, <1>3, <1>4, DevicesKept
<1>8. reqs[r].at = "promoting" => p \notin drawn'
  BY <1>3 DEF PublishInv, CanvasInv
<1>9. EdgesInv'
  BY <1>2, <1>3, <1>4, <1>5, <1>8 DEF PublishInv, EdgesInv, Published
<1> QED  BY <1>6, <1>7, <1>9 DEF PublishInv

\* Of two edges between the same nodes one stays.
LEMMA PruneHolds ==
  ASSUME PublishInv, NEW r \in Requests, PrunePromotedDraftEdges(r)
  PROVE  PublishInv'
<1>1. /\ reqs[r].at \in {"promoting", "connecting"} /\ reqs[r].asked = {}
      /\ reqs' = [reqs EXCEPT ![r] = Idle] /\ drawn' \subseteq drawn
      /\ UNCHANGED <<server, shown, joined, used, source, removed, lost, refused>>
  BY DEF PrunePromotedDraftEdges
<1>2. Idle.at = "none"
  BY DEF Idle
<1>3. /\ reqs' \in [Requests -> DraftRequest] /\ reqs'[r] = Idle
      /\ \A s \in Requests \ {r} : reqs'[s] = reqs[s]
  BY <1>1, IdleTyped, ReqsTyped DEF PublishInv
<1>4. PublishTypeOK' /\ CanvasInv'
  BY <1>1, <1>3 DEF PublishInv, PublishTypeOK, CanvasInv
<1>5. AnswersInv' /\ LandedInv'
  BY <1>1, <1>2, <1>3, DevicesKept
<1>6. EdgesInv'
  BY <1>1, <1>2, <1>3 DEF PublishInv, EdgesInv, Published
<1> QED  BY <1>4, <1>5, <1>6 DEF PublishInv

-----------------------------------------------------------------------------
\* An empty canvas satisfies the invariant.
LEMMA PublishInitHolds == PublishInit => PublishInv
<1> SUFFICES ASSUME PublishInit PROVE PublishInv
  OBVIOUS
<1>1. PICK d \in DeviceIds :
        /\ server = [device |-> {d}, link |-> {}]
        /\ shown = {d} /\ drawn = {} /\ joined = {}
        /\ reqs = [r \in Requests |-> Idle]
        /\ used = {d} /\ source = [x \in DeviceIds |-> NoDraft] /\ removed = {}
        /\ lost = {} /\ refused = {}
  BY DEF PublishInit
<1>2. PublishTypeOK
  BY <1>1, IdleTyped DEF PublishTypeOK, Nodes
<1>3. CanvasInv /\ AnswersInv /\ LandedInv /\ EdgesInv
  BY <1>1, DraftPublishAssumption DEF CanvasInv, AnswersInv, LandedInv, DraftsAreKept, EdgesInv, Idle
<1> QED  BY <1>2, <1>3 DEF PublishInv

\* Of every number of devices, drafts and requests: the invariant PublishInv, which
\* ties every answer under way to the draft it was asked for.
THEOREM PublishInductive == PublishSpec => []PublishInv
<1>1. PublishInv /\ [PublishNext]_publishVars => PublishInv'
  <2> SUFFICES ASSUME PublishInv, [PublishNext]_publishVars PROVE PublishInv'
    OBVIOUS
  <2>1. CASE \E x \in Drafts : PlaceDraft(x) \/ PublishDraft(x)
    BY <2>1, PlaceHolds, RequestHolds
  <2>2. CASE \E n \in Nodes : RemoveNode(n)
    BY <2>2, RemoveHolds
  <2>3. CASE \E p \in Pairs : DrawDraftEdge(p) \/ RequestConnection(p) \/ OthersConnect(p)
    BY <2>3, DrawHolds, RequestHolds
  <2>4. ASSUME NEW r \in Requests,
               \/ PostDevice(r) \/ RefuseDevice(r) \/ ReplaceDraft(r) \/ KeepDraft(r)
               \/ LoseDeviceAnswer(r) \/ PrunePromotedDraftEdges(r)
               \/ \E p \in Pairs :
                    \/ PostConnection(r, p) \/ RefuseConnection(r, p)
                    \/ ShowConnection(r, p) \/ LoseConnectionAnswer(r, p)
        PROVE  PublishInv'
    BY <2>4, PostDeviceHolds, RefuseDeviceHolds, ReplaceHolds, LoseDeviceHolds, PruneHolds,
       ConnectHolds, GiveUpHolds, ShowHolds DEF RefuseConnection, LoseConnectionAnswer
  <2>5. CASE UNCHANGED publishVars
    BY <2>5 DEF publishVars, PublishInv, PublishTypeOK, CanvasInv, AnswersInv, LandedInv,
         DraftsAreKept, EdgesInv, Published
  <2> QED  BY <2>1, <2>2, <2>3, <2>4, <2>5 DEF PublishNext
<1> QED  BY <1>1, PublishInitHolds, PTL DEF PublishSpec

\* canvas_draft_publish.py: a draft is kept until the user takes it off or a device
\* made from it appears, whatever answers are lost; when no request is under way, a
\* draft whose device was answered is shown as that device and never beside it, a
\* device whose answer was lost is not shown, and no edge between two published nodes
\* is left without its connection, but where that was refused or its answer lost.
THEOREM PublishCorrect == PublishSpec => []DraftsPublished
<1>1. PublishInv => DraftsPublished
  BY DEF PublishInv, DraftsPublished, PublishedIsShown, NoEdgeLeftBehind, quiet, LandedInv,
       AnswersInv, EdgesInv
<1> QED  BY <1>1, PublishInductive, PTL

-----------------------------------------------------------------------------
(***************************************************************************)
(* Connections (Connections).                                              *)
(***************************************************************************)

\* No call is well typed.
LEMMA NoCallFits == NoCall \in Call /\ Fits(NoCall)
  BY DEF NoCall, Call, Fits

\* A row without a loop has two ends.
LEMMA TwoEnds ==
  ASSUME NEW row, NoSelfLoop(row)
  PROVE  Cardinality(Ends(row)) = 2
<1>1. IsFiniteSet({row.source}) /\ Cardinality({row.source}) = 1
  BY FS_Singleton
<1>2. PICK S : S = {row.source}
  OBVIOUS
<1>3. row.target \notin S /\ IsFiniteSet(S) /\ Cardinality(S) = 1
  BY <1>1, <1>2 DEF NoSelfLoop
<1>4. Cardinality(S \cup {row.target}) = 2
  BY <1>3, FS_AddElement
<1>5. Ends(row) = S \cup {row.target}
  BY <1>2 DEF Ends
<1> QED  BY <1>4, <1>5

\* What a session writes of a row.
LEMMA MergeTyped ==
  ASSUME NEW stored \in Row, NEW was \in Row, NEW to \in Row
  PROVE  /\ Merge(stored, was, to) \in Row
         /\ Merge(stored, was, to).info =
              IF to.info = was.info THEN stored.info ELSE to.info
  BY DEF Merge, Row

\* A row that the constraints allow keeps the connections apart.
LEMMA AllowedJoins ==
  ASSUME CInv, NEW c \in Conns, NEW row \in Row, Allowed(c, row), UNCHANGED devices,
         conn' = [conn EXCEPT ![c] = row]
  PROVE  /\ JoinedOnce' /\ conn' \in [Conns -> Row \cup {None}] /\ conn'[c] = row
         /\ \A x \in Conns \ {c} : conn'[x] = conn[x]
<1> USE ConnectionsAssumption
<1>1. /\ conn' \in [Conns -> Row \cup {None}] /\ conn'[c] = row
      /\ \A x \in Conns \ {c} : conn'[x] = conn[x]
  BY DEF CInv, TypeOK
<1>2. ASSUME NEW x \in Conns, conn'[x] # None
      PROVE  Cardinality(Ends(conn'[x])) = 2 /\ Ends(conn'[x]) \subseteq devices
  <2>1. CASE x = c
    BY <1>1, <2>1, TwoEnds DEF Allowed, EndsExist
  <2>2. CASE x # c
    BY <1>1, <1>2, <2>2 DEF CInv, JoinedOnce, Stored
  <2> QED  BY <2>1, <2>2
<1>3. ASSUME NEW x \in Conns, NEW y \in Conns, conn'[x] # None, conn'[y] # None,
             Ends(conn'[x]) = Ends(conn'[y])
      PROVE  x = y
  <2>1. CASE x # c /\ y # c
    BY <1>1, <1>3, <2>1 DEF CInv, JoinedOnce, Stored
  <2>2. CASE x = c \/ y = c
    BY <1>1, <1>3, <2>2 DEF Allowed, UniquePair, Stored
  <2> QED  BY <2>1, <2>2
<1> QED  BY <1>1, <1>2, <1>3 DEF JoinedOnce, Stored

-----------------------------------------------------------------------------
(* The requests.                                                            *)

\* A request that starts has read the row as it is, or drawn a new id.
LEMMA StartHolds ==
  ASSUME CInv, NEW k \in Clients, call[k] = NoCall, NEW r \in Call, Fits(r), r.at = "read",
         r.op # "none", call' = [call EXCEPT ![k] = r],
         UNCHANGED <<tables, edge, asked, foreign>>,
         r.op = "create" => r.c \notin spent /\ \A x \in Clients : call[x].c # r.c,
         r.op # "create" => conn[r.c] # None,
         r.op = "update" => r.was = conn[r.c]
  PROVE  CInv'
<1>1. UNCHANGED <<devices, conn, spent, edge, asked, foreign>>
  BY DEF tables
<1>2. /\ call' \in [Clients -> Call] /\ call'[k] = r
      /\ \A x \in Clients \ {k} : call'[x] = call[x]
  BY DEF CInv, TypeOK
<1>3. TypeOK' /\ JoinedOnce' /\ InfoStands' /\ SpentInv'
  BY <1>1, <1>2 DEF CInv, TypeOK, JoinedOnce, InfoStands, SpentInv, Stored
<1>4. CallsInv'
  <2> SUFFICES ASSUME NEW x \in Clients
               PROVE  /\ Fits(call'[x])
                      /\ call'[x].op = "create" =>
                           /\ call'[x].c \notin spent
                           /\ \A y \in Clients : call'[y].c = call'[x].c => y = x
    BY <1>1 DEF CallsInv, Fits
  <2>1. CASE x = k
    BY <1>2, <2>1
  <2>2. CASE x # k
    <3>1. /\ call'[x] = call[x] /\ Fits(call[x])
          /\ call[x].op = "create" =>
               /\ call[x].c \notin spent
               /\ \A y \in Clients : call[y].c = call[x].c => y = x
      BY <1>2, <2>2 DEF CInv, CallsInv
    <3>2. r.c \in Conns /\ (r.op # "create" => r.c \in spent)
      BY DEF Fits, CInv, SpentInv
    <3>3. call[x].op = "create" => r.c # call[x].c
      BY <3>1, <3>2
    <3> QED  BY <1>2, <3>1, <3>3
  <2> QED  BY <2>1, <2>2
<1>5. EdgeInv'
  <2> SUFFICES ASSUME NEW c \in Conns \ foreign, edge[c] # None PROVE Shown(c)'
    BY <1>1 DEF EdgeInv
  <2>1. ~call[k].ui
    BY DEF NoCall
  <2>2. OfPanel(c) \subseteq OfPanel(c)' /\ OfPanel(c)' \subseteq OfPanel(c) \cup {k}
    BY <1>2, <2>1 DEF OfPanel
  <2>3. \A x \in OfPanel(c) : call'[x] = call[x]
    BY <1>2, <2>1 DEF OfPanel
  <2>4. k \in OfPanel(c)' /\ r.op = "update" => r.was = conn[c] /\ conn[c] # None
    BY <1>2 DEF OfPanel
  <2> QED  BY <1>1, <1>2, <2>2, <2>3, <2>4 DEF CInv, EdgeInv, Shown
<1> QED  BY <1>3, <1>4, <1>5 DEF CInv

\* A call that begins knows a state that the row has had.
LEMMA BeginHolds ==
  ASSUME CInv, NEW k \in Clients,
         Create(k) \/ Update(k) \/ Delete(k) \/ PanelSave(k) \/ PanelDelete(k)
  PROVE  CInv'
<1> USE ConnectionsAssumption
<1>1. \A c \in Stored : c \in Conns /\ conn[c] \in Row
  BY DEF CInv, TypeOK, Stored
<1>2. CASE Create(k)
  <2>1. PICK c \in Conns \ spent, row \in Row :
          /\ \A x \in Clients : call[x].c # c
          /\ Start(k, [NoCall EXCEPT !.op = "create", !.c = c, !.to = row])
    BY <1>2 DEF Create
  <2> DEFINE r == [NoCall EXCEPT !.op = "create", !.c = c, !.to = row, !.at = "read"]
  <2>2. r \in Call /\ Fits(r) /\ r.at = "read" /\ r.op = "create" /\ r.c = c
    BY <2>1 DEF NoCall, Fits, Call
  <2>3. /\ call[k] = NoCall /\ call' = [call EXCEPT ![k] = r]
        /\ UNCHANGED <<tables, edge, asked, foreign>>
    BY <2>1 DEF Start
  <2> HIDE DEF r
  <2> QED  BY <2>1, <2>2, <2>3, StartHolds
<1>3. CASE Update(k)
  <2>1. PICK c \in Stored, to \in Row :
          Start(k, [NoCall EXCEPT !.op = "update", !.c = c, !.was = conn[c], !.to = to])
    BY <1>3 DEF Update
  <2> DEFINE r == [NoCall EXCEPT !.op = "update", !.c = c, !.was = conn[c], !.to = to,
                                 !.at = "read"]
  <2>2. /\ r \in Call /\ Fits(r) /\ r.at = "read" /\ r.op = "update" /\ r.c = c
        /\ r.was = conn[c]
    BY <1>1, <2>1 DEF NoCall, Fits, Call
  <2>3. /\ call[k] = NoCall /\ call' = [call EXCEPT ![k] = r]
        /\ UNCHANGED <<tables, edge, asked, foreign>>
    BY <2>1 DEF Start
  <2> HIDE DEF r
  <2> QED  BY <2>1, <2>2, <2>3, StartHolds DEF Stored
<1>4. CASE Delete(k)
  <2>1. PICK c \in Stored :
          Start(k, [NoCall EXCEPT !.op = "delete", !.c = c, !.was = conn[c]])
    BY <1>4 DEF Delete
  <2> DEFINE r == [NoCall EXCEPT !.op = "delete", !.c = c, !.was = conn[c], !.at = "read"]
  <2>2. r \in Call /\ Fits(r) /\ r.at = "read" /\ r.op = "delete" /\ r.c = c
    BY <1>1, <2>1 DEF NoCall, Fits, Call
  <2>3. /\ call[k] = NoCall /\ call' = [call EXCEPT ![k] = r]
        /\ UNCHANGED <<tables, edge, asked, foreign>>
    BY <2>1 DEF Start
  <2> HIDE DEF r
  <2> QED  BY <2>1, <2>2, <2>3, StartHolds DEF Stored
<1>5. CASE PanelSave(k)
  <2>1. PICK c \in Stored, i \in Infos :
          Start(k, [NoCall EXCEPT !.op = "update", !.c = c, !.was = conn[c], !.ui = TRUE,
                                  !.to = [conn[c] EXCEPT !.info = i]])
    BY <1>5 DEF PanelSave
  <2> DEFINE r == [NoCall EXCEPT !.op = "update", !.c = c, !.was = conn[c], !.ui = TRUE,
                                 !.to = [conn[c] EXCEPT !.info = i], !.at = "read"]
  <2>2. [conn[c] EXCEPT !.info = i] \in Row
    BY <1>1, <2>1 DEF Row
  <2>3. /\ r \in Call /\ Fits(r) /\ r.at = "read" /\ r.op = "update" /\ r.c = c
        /\ r.was = conn[c]
    BY <1>1, <2>1, <2>2 DEF NoCall, Fits, Call
  <2>4. /\ call[k] = NoCall /\ call' = [call EXCEPT ![k] = r]
        /\ UNCHANGED <<tables, edge, asked, foreign>>
    BY <2>1 DEF Start
  <2> HIDE DEF r
  <2> QED  BY <2>1, <2>3, <2>4, StartHolds DEF Stored
<1>6. CASE PanelDelete(k)
  <2>0. PICK c \in Stored :
          Start(k, [NoCall EXCEPT !.op = "delete", !.c = c, !.was = conn[c], !.ui = TRUE])
    BY <1>6 DEF PanelDelete
  <2>1. PICK q :
          /\ q = [NoCall EXCEPT !.op = "delete", !.c = c, !.was = conn[c], !.ui = TRUE]
          /\ Start(k, q)
    BY <2>0
  <2>2. q.op = "delete" /\ q.c = c
    BY <2>1 DEF NoCall
  <2>3. q \in Call
    BY <1>1, <2>1 DEF NoCall, Call
  <2>4. PICK r : r = [q EXCEPT !.at = "read"]
    OBVIOUS
  <2>5. r \in Call /\ Fits(r) /\ r.at = "read" /\ r.op = "delete" /\ r.c = c
    BY <1>1, <2>1, <2>2, <2>3, <2>4 DEF Call, Fits
  <2>6. /\ call[k] = NoCall /\ call' = [call EXCEPT ![k] = r]
        /\ UNCHANGED <<tables, edge, asked, foreign>>
    BY <2>1, <2>4 DEF Start
  <2> QED  BY <2>1, <2>5, <2>6, StartHolds DEF Stored
<1> QED  BY <1>2, <1>3, <1>4, <1>5, <1>6

\* A request that goes on to another state of its own, or ends, leaves the others.
LEMMA CallsKept ==
  ASSUME CInv, NEW k \in Clients, NEW r \in Call, Fits(r), r.op # "create",
         call' = [call EXCEPT ![k] = r], r.c \in {call[k].c, None},
         spent' \subseteq spent \cup (IF call[k].op = "create" THEN {call[k].c} ELSE {})
  PROVE  /\ CallsInv' /\ call' \in [Clients -> Call] /\ call'[k] = r
         /\ \A x \in Clients \ {k} : call'[x] = call[x]
<1>1. /\ call' \in [Clients -> Call] /\ call'[k] = r
      /\ \A x \in Clients \ {k} : call'[x] = call[x]
  BY DEF CInv, TypeOK
<1>2. ASSUME NEW x \in Clients, x # k, call[x].op = "create"
      PROVE  /\ call[x].c \notin spent' /\ call[x].c # r.c
             /\ \A y \in Clients : call[y].c = call[x].c => y = x
  BY <1>2, ConnectionsAssumption DEF CInv, CallsInv, Fits
<1>3. \A x \in Clients : Fits(call[x])
  BY DEF CInv, CallsInv
<1>4. ASSUME NEW x \in Clients
      PROVE  /\ Fits(call'[x])
             /\ call'[x].op = "create" =>
                  /\ call'[x].c \notin spent'
                  /\ \A y \in Clients : call'[y].c = call'[x].c => y = x
  <2>1. CASE x = k
    BY <1>1, <2>1
  <2>2. CASE x # k
    BY <1>1, <1>2, <1>3, <2>2
  <2> QED  BY <2>1, <2>2
<1>5. CallsInv'
  BY <1>4 DEF CallsInv, Fits
<1> QED  BY <1>1, <1>5

\* What an answer makes of a request.
LEMMA AnswerLeaves ==
  ASSUME CInv, NEW k \in Clients, NEW at \in {"done", "refused"}, Answer(k, at),
         call[k].at = "read",
         spent' \subseteq spent \cup (IF call[k].op = "create" THEN {call[k].c} ELSE {})
  PROVE  /\ CallsInv' /\ call' \in [Clients -> Call]
         /\ \A x \in Clients \ {k} : call'[x] = call[x]
         /\ ~call[k].ui => call'[k] = NoCall
         /\ call[k].ui => /\ call'[k].ui /\ call'[k].at = at /\ call'[k].c = call[k].c
                          /\ call'[k].op = call[k].op /\ call'[k].to = call[k].to
                          /\ call'[k].was = call[k].was
<1>1. call[k] \in Call /\ Fits(call[k])
  BY DEF CInv, TypeOK, CallsInv
<1>2. CASE ~call[k].ui
  <2>1. call' = [call EXCEPT ![k] = NoCall]
    BY <1>2 DEF Answer
  <2>2. NoCall.op # "create" /\ NoCall.c = None
    BY DEF NoCall
  <2> QED  BY <1>2, <2>1, <2>2, NoCallFits, CallsKept
<1>3. CASE call[k].ui
  <2>1. PICK r : r = [call[k] EXCEPT !.at = at]
    OBVIOUS
  <2>2. call' = [call EXCEPT ![k] = r]
    BY <1>3, <2>1 DEF Answer
  <2>3. /\ r \in Call /\ r.ui /\ r.at = at /\ r.c = call[k].c /\ r.op = call[k].op
        /\ r.to = call[k].to /\ r.was = call[k].was
    BY <1>1, <1>3, <2>1 DEF Call
  <2>4. Fits(r) /\ r.op # "create"
    BY <1>1, <1>3, <2>3 DEF Fits
  <2> QED  BY <1>3, <2>2, <2>3, <2>4, CallsKept
<1> QED  BY <1>2, <1>3

-----------------------------------------------------------------------------
(* What the canvas shows.                                                   *)

\* A connection stays shown in a step that keeps its info, and its requests but for
\* those that are refused or dropped.
LEMMA ShownKept ==
  ASSUME CInv, NEW c \in Conns \ foreign, edge[c] # None, edge'[c] = edge[c],
         conn[c] # None <=> conn'[c] # None,
         conn[c] # None => conn'[c].info = conn[c].info,
         \A x \in Clients : call'[x].ui /\ call'[x].c = c =>
           call'[x].at = "refused" \/ call'[x] = call[x],
         \A x \in OfPanel(c) : call[x].at = "done" => call'[x] = call[x]
  PROVE  Shown(c)'
<1>1. Shown(c)
  BY DEF CInv, EdgeInv
<1> QED  BY <1>1 DEF Shown, OfPanel

\* A request that starts again from nothing is none of the panel.
LEMMA NoCallIsSilent == ~NoCall.ui
  BY DEF NoCall

\* A create that commits joins two devices that were not joined.
LEMMA CreateHolds == ASSUME CInv, NEW k \in Clients, CommitCreate(k) PROVE CInv'
<1> DEFINE c == call[k].c
           row == call[k].to
<1> USE ConnectionsAssumption
<1>1. /\ call[k].op = "create" /\ call[k].at = "read" /\ Allowed(c, row)
      /\ conn' = [conn EXCEPT ![c] = row] /\ spent' = spent \cup {c}
      /\ asked' = [asked EXCEPT ![c] = row.info] /\ Answer(k, "done")
      /\ UNCHANGED <<devices, edge, calls, foreign>>
  BY DEF CommitCreate
<1>2. c \in Conns /\ row \in Row /\ ~call[k].ui /\ c \notin spent
  BY <1>1 DEF CInv, CallsInv, Fits
<1>3. conn[c] = None /\ edge[c] = None
  BY <1>2 DEF CInv, SpentInv
<1>4. /\ CallsInv' /\ call' \in [Clients -> Call] /\ call'[k] = NoCall
      /\ \A x \in Clients \ {k} : call'[x] = call[x]
  BY <1>1, <1>2, AnswerLeaves
<1>5. /\ JoinedOnce' /\ conn' \in [Conns -> Row \cup {None}] /\ conn'[c] = row
      /\ \A x \in Conns \ {c} : conn'[x] = conn[x]
  BY <1>1, <1>2, AllowedJoins
<1>6. row.info \in Infos
  BY <1>2 DEF Row
<1>7. /\ asked' \in [Conns -> Infos \cup {None}] /\ asked'[c] = row.info
      /\ \A x \in Conns \ {c} : asked'[x] = asked[x]
  BY <1>1, <1>2, <1>6 DEF CInv, TypeOK
<1>8. TypeOK' /\ SpentInv'
  BY <1>1, <1>2, <1>4, <1>5, <1>7 DEF CInv, TypeOK, SpentInv
<1>9. InfoStands'
  BY <1>5, <1>7 DEF CInv, InfoStands, Stored
<1>10. EdgeInv'
  <2> SUFFICES ASSUME NEW x \in Conns \ foreign, edge[x] # None PROVE Shown(x)'
    BY <1>1 DEF EdgeInv
  <2>1. x # c /\ conn'[x] = conn[x]
    BY <1>3, <1>5
  <2>2. \A y \in Clients : call'[y].ui => call'[y] = call[y]
    BY <1>4, NoCallIsSilent
  <2>3. \A y \in OfPanel(x) : call'[y] = call[y]
    BY <1>2, <1>4 DEF OfPanel
  <2> HIDE DEF c, row
  <2> QED  BY <1>1, <2>1, <2>2, <2>3, ShownKept
<1> QED  BY <1>4, <1>5, <1>8, <1>9, <1>10 DEF CInv

\* The edge of a connection that a commit of the panel has changed waits for the answer.
LEMMA AwaitsAnswer ==
  ASSUME CInv, NEW k \in Clients, call[k].ui, Alone(k), NEW c, c = call[k].c,
         \A x \in Clients \ {k} : call'[x] = call[x],
         call'[k].ui, call'[k].at = "done", call'[k].op = call[k].op, call'[k].c = c,
         call[k].op = "update" => conn'[c] # None /\ conn'[c].info = call'[k].to.info
  PROVE  Shown(c)'
<1>1. \A x \in Clients : call'[x].ui /\ call'[x].c = c => x = k
  BY NoCallIsSilent DEF Alone
<1> QED  BY <1>1 DEF Shown, OfPanel

\* A patch that commits changes only the columns it names.
LEMMA UpdateHolds == ASSUME CInv, NEW k \in Clients, CommitUpdate(k) PROVE CInv'
<1> DEFINE r == call[k]
           c == r.c
           row == Merge(conn[c], r.was, r.to)
<1> USE ConnectionsAssumption
<1>1. /\ r.op = "update" /\ r.at = "read" /\ conn[c] # None /\ Allowed(c, row)
      /\ conn' = [conn EXCEPT ![c] = row]
      /\ asked' = IF r.to.info # r.was.info THEN [asked EXCEPT ![c] = r.to.info] ELSE asked
      /\ foreign' = IF r.to.info = r.was.info /\ ~r.ui THEN foreign ELSE Touched(k)
      /\ Answer(k, "done") /\ UNCHANGED <<devices, spent, edge, calls>>
  BY DEF CommitUpdate
<1>2. c \in Conns /\ r.was \in Row /\ r.to \in Row /\ r.to.info \in Infos
  BY <1>1 DEF CInv, CallsInv, Fits, Row
<1>3. conn[c] \in Row
  BY <1>1, <1>2 DEF CInv, TypeOK
<1>4. row \in Row /\ row.info = IF r.to.info = r.was.info THEN conn[c].info ELSE r.to.info
  BY <1>2, <1>3, MergeTyped
<1> HIDE DEF row
<1>5. /\ CallsInv' /\ call' \in [Clients -> Call]
      /\ \A x \in Clients \ {k} : call'[x] = call[x]
      /\ ~r.ui => call'[k] = NoCall
      /\ r.ui => /\ call'[k].ui /\ call'[k].at = "done" /\ call'[k].c = c
                 /\ call'[k].op = r.op /\ call'[k].to = r.to /\ call'[k].was = r.was
  BY <1>1, AnswerLeaves
<1>6. /\ JoinedOnce' /\ conn' \in [Conns -> Row \cup {None}] /\ conn'[c] = row
      /\ \A x \in Conns \ {c} : conn'[x] = conn[x]
  BY <1>1, <1>2, <1>4, AllowedJoins
<1>7. /\ asked' \in [Conns -> Infos \cup {None}]
      /\ asked'[c] = IF r.to.info # r.was.info THEN r.to.info ELSE asked[c]
      /\ \A x \in Conns \ {c} : asked'[x] = asked[x]
  BY <1>1, <1>2 DEF CInv, TypeOK
<1>8. foreign' \subseteq Conns /\ foreign \subseteq foreign'
  BY <1>1, <1>2 DEF CInv, TypeOK, Touched
<1>9. TypeOK' /\ SpentInv'
  BY <1>1, <1>5, <1>6, <1>7, <1>8 DEF CInv, TypeOK, SpentInv
<1>10. InfoStands'
  BY <1>1, <1>4, <1>6, <1>7 DEF CInv, InfoStands, Stored
<1>11. EdgeInv'
  <2> SUFFICES ASSUME NEW x \in Conns, x \notin foreign', edge[x] # None PROVE Shown(x)'
    BY <1>1 DEF EdgeInv
  <2>1. x \in Conns \ foreign /\ edge'[x] = edge[x]
    BY <1>1, <1>8
  <2>2. CASE x # c
    <3>1. conn'[x] = conn[x]
      BY <1>6, <2>2
    <3>2. \A y \in Clients : call'[y].ui /\ call'[y].c = x => call'[y] = call[y]
      BY <1>5, <2>2, NoCallIsSilent
    <3>3. \A y \in OfPanel(x) : call'[y] = call[y]
      BY <1>5, <2>2 DEF OfPanel
    <3> HIDE DEF c, r
    <3> QED  BY <2>1, <3>1, <3>2, <3>3, ShownKept
  <2>3. CASE x = c /\ ~r.ui
    <3>1. r.to.info = r.was.info
      BY <1>1, <2>1, <2>3 DEF Touched
    <3>2. conn'[x] # None /\ conn[x] # None /\ conn'[x].info = conn[x].info
      BY <1>1, <1>4, <1>6, <2>3, <3>1
    <3>3. \A y \in Clients : call'[y].ui => call'[y] = call[y]
      BY <1>5, <2>3, NoCallIsSilent
    <3>4. \A y \in OfPanel(x) : call'[y] = call[y]
      BY <1>5, <2>3 DEF OfPanel
    <3> HIDE DEF c, r
    <3> QED  BY <2>1, <3>2, <3>3, <3>4, ShownKept
  <2>4. CASE x = c /\ r.ui
    <3>1. Alone(k)
      BY <1>1, <2>4 DEF Touched
    <3>2. conn[x].info = r.was.info
      BY <1>1, <2>1, <2>4 DEF CInv, EdgeInv, Shown, OfPanel
    <3>3. row.info = r.to.info
      BY <1>4, <2>4, <3>2
    <3>4. conn'[c] # None /\ conn'[c].info = r.to.info
      BY <1>4, <1>6, <3>3
    <3> QED  BY <1>5, <2>4, <3>1, <3>4, AwaitsAnswer
  <2> QED  BY <2>2, <2>3, <2>4
<1> QED  BY <1>5, <1>6, <1>9, <1>10, <1>11 DEF CInv

\* A delete takes the row, and the edge goes with its answer.
LEMMA DeleteHolds == ASSUME CInv, NEW k \in Clients, CommitDelete(k) PROVE CInv'
<1> DEFINE r == call[k]
           c == r.c
<1> USE ConnectionsAssumption
<1>1. /\ r.op = "delete" /\ r.at = "read" /\ conn' = [conn EXCEPT ![c] = None]
      /\ foreign' = Touched(k) /\ Answer(k, "done")
      /\ UNCHANGED <<devices, spent, edge, calls, asked>>
  BY DEF CommitDelete
<1>2. c \in Conns
  BY <1>1 DEF CInv, CallsInv, Fits
<1>3. /\ conn' \in [Conns -> Row \cup {None}] /\ conn'[c] = None
      /\ \A x \in Conns \ {c} : conn'[x] = conn[x]
  BY <1>1, <1>2 DEF CInv, TypeOK
<1>4. /\ CallsInv' /\ call' \in [Clients -> Call]
      /\ \A x \in Clients \ {k} : call'[x] = call[x]
      /\ ~r.ui => call'[k] = NoCall
      /\ r.ui => /\ call'[k].ui /\ call'[k].at = "done" /\ call'[k].c = c
                 /\ call'[k].op = r.op /\ call'[k].to = r.to /\ call'[k].was = r.was
  BY <1>1, AnswerLeaves
<1>5. foreign' \subseteq Conns /\ foreign \subseteq foreign'
  BY <1>1, <1>2 DEF CInv, TypeOK, Touched
<1>6. TypeOK' /\ SpentInv'
  BY <1>1, <1>3, <1>4, <1>5 DEF CInv, TypeOK, SpentInv
<1>7. JoinedOnce' /\ InfoStands'
  BY <1>1, <1>3 DEF CInv, JoinedOnce, InfoStands, Stored
<1>8. EdgeInv'
  <2> SUFFICES ASSUME NEW x \in Conns, x \notin foreign', edge[x] # None PROVE Shown(x)'
    BY <1>1 DEF EdgeInv
  <2>1. x \in Conns \ foreign /\ edge'[x] = edge[x]
    BY <1>1, <1>5
  <2>2. CASE x # c
    <3>1. conn'[x] = conn[x]
      BY <1>3, <2>2
    <3>2. \A y \in Clients : call'[y].ui /\ call'[y].c = x => call'[y] = call[y]
      BY <1>4, <2>2, NoCallIsSilent
    <3>3. \A y \in OfPanel(x) : call'[y] = call[y]
      BY <1>4, <2>2 DEF OfPanel
    <3> HIDE DEF c, r
    <3> QED  BY <2>1, <3>1, <3>2, <3>3, ShownKept
  <2>3. CASE x = c
    <3>1. r.ui /\ Alone(k)
      BY <1>1, <2>3 DEF Touched
    <3> QED  BY <1>1, <1>4, <2>3, <3>1, AwaitsAnswer
  <2> QED  BY <2>2, <2>3
<1> QED  BY <1>4, <1>6, <1>7, <1>8 DEF CInv

\* A commit that a constraint refuses leaves all but the request.
LEMMA RefuseHolds == ASSUME CInv, NEW k \in Clients, RefuseCommit(k) PROVE CInv'
<1>1. /\ call[k].at = "read" /\ Answer(k, "refused")
      /\ UNCHANGED <<devices, conn, spent, edge, calls, asked, foreign>>
  BY DEF RefuseCommit, tables
<1>2. /\ CallsInv' /\ call' \in [Clients -> Call]
      /\ \A x \in Clients \ {k} : call'[x] = call[x]
      /\ ~call[k].ui => call'[k] = NoCall
      /\ call[k].ui => call'[k].at = "refused"
  BY <1>1, AnswerLeaves
<1>3. TypeOK' /\ JoinedOnce' /\ InfoStands' /\ SpentInv'
  BY <1>1, <1>2 DEF CInv, TypeOK, JoinedOnce, InfoStands, SpentInv, Stored
<1>4. EdgeInv'
  <2> SUFFICES ASSUME NEW x \in Conns \ foreign, edge[x] # None PROVE Shown(x)'
    BY <1>1 DEF EdgeInv
  <2>1. \A y \in Clients : call'[y].ui => call'[y].at = "refused" \/ call'[y] = call[y]
    BY <1>2, NoCallIsSilent
  <2>2. \A y \in OfPanel(x) : call[y].at = "done" => call'[y] = call[y]
    BY <1>1, <1>2 DEF OfPanel
  <2> QED  BY <1>1, <2>1, <2>2, ShownKept
<1> QED  BY <1>2, <1>3, <1>4 DEF CInv

\* A lost answer makes the connection foreign.
LEMMA LossHolds == ASSUME CInv, NEW k \in Clients, AnswerIsLost(k) PROVE CInv'
<1> DEFINE c == call[k].c
<1>1. /\ call[k].ui /\ call[k].at = "done" /\ foreign' = foreign \cup {c}
      /\ call' = [call EXCEPT ![k].at = "refused"]
      /\ UNCHANGED <<devices, conn, spent, edge, calls, asked>>
  BY DEF AnswerIsLost, tables
<1>2. PICK r : r = [call[k] EXCEPT !.at = "refused"]
  OBVIOUS
<1>3. call[k] \in Call /\ Fits(call[k])
  BY DEF CInv, TypeOK, CallsInv
<1>4. /\ call' = [call EXCEPT ![k] = r] /\ r \in Call /\ r.ui /\ r.at = "refused" /\ r.c = c
      /\ r.op = call[k].op /\ r.to = call[k].to /\ r.was = call[k].was
  BY <1>1, <1>2, <1>3 DEF Call, CInv, TypeOK
<1>5. Fits(r) /\ r.op # "create" /\ c \in Conns
  BY <1>1, <1>3, <1>4 DEF Fits
<1>6. /\ CallsInv' /\ call' \in [Clients -> Call] /\ call'[k] = r
      /\ \A x \in Clients \ {k} : call'[x] = call[x]
  BY <1>1, <1>4, <1>5, CallsKept
<1>7. TypeOK' /\ JoinedOnce' /\ InfoStands' /\ SpentInv'
  BY <1>1, <1>5, <1>6 DEF CInv, TypeOK, JoinedOnce, InfoStands, SpentInv, Stored
<1>8. EdgeInv'
  <2> SUFFICES ASSUME NEW x \in Conns \ foreign, x # c, edge[x] # None PROVE Shown(x)'
    BY <1>1 DEF EdgeInv
  <2>1. \A y \in Clients : call'[y].ui /\ call'[y].c = x => call'[y] = call[y]
    BY <1>4, <1>6
  <2>2. \A y \in OfPanel(x) : call'[y] = call[y]
    BY <1>6 DEF OfPanel
  <2> HIDE DEF c
  <2> QED  BY <1>1, <2>1, <2>2, ShownKept
<1> QED  BY <1>6, <1>7, <1>8 DEF CInv

\* The answer draws what the commit has written.
LEMMA AnsweredHolds == ASSUME CInv, NEW k \in Clients, Answered(k) PROVE CInv'
<1> DEFINE r == call[k]
           c == r.c
<1> USE ConnectionsAssumption
<1>1. /\ r.ui /\ r.at \in {"done", "refused"}
      /\ edge' = IF r.at = "refused" THEN edge
                 ELSE [edge EXCEPT ![c] = IF r.op = "update" THEN EdgeUpdate(@, r) ELSE None]
      /\ call' = [call EXCEPT ![k] = NoCall]
      /\ UNCHANGED <<devices, conn, spent, calls, asked, foreign>>
  BY DEF Answered, tables
<1>2. /\ r.op \in {"update", "delete"} /\ c \in Conns
      /\ r.op = "update" => r.to \in Row /\ r.to.info \in Infos
  BY <1>1 DEF CInv, TypeOK, CallsInv, Fits, Call, Row
<1>3. NoCall.op # "create" /\ NoCall.c = None
  BY DEF NoCall
<1>4. /\ CallsInv' /\ call' \in [Clients -> Call] /\ call'[k] = NoCall
      /\ \A x \in Clients \ {k} : call'[x] = call[x]
  BY <1>1, <1>3, NoCallFits, CallsKept
<1>5. /\ edge' \in [Conns -> Infos \cup {None}]
      /\ \A x \in Conns \ {c} : edge'[x] = edge[x]
      /\ edge[c] = None => edge'[c] = None
      /\ edge'[c] # None => edge'[c] = IF r.at = "refused" THEN edge[c] ELSE r.to.info
      /\ r.at # "refused" /\ edge'[c] # None => r.op = "update"
  <2>1. edge \in [Conns -> Infos \cup {None}]
    BY DEF CInv, TypeOK
  <2>2. CASE r.at = "refused"
    <3>1. edge' = edge
      BY <1>1, <2>2
    <3> HIDE DEF c, r
    <3> QED  BY <2>1, <2>2, <3>1
  <2>3. CASE r.at # "refused" /\ r.op = "update"
    <3>1. edge' = [edge EXCEPT ![c] = EdgeUpdate(edge[c], r)]
      BY <1>1, <2>3
    <3> QED  BY <1>2, <2>1, <2>3, <3>1 DEF EdgeUpdate
  <2>4. CASE r.at # "refused" /\ r.op # "update"
    BY <1>1, <1>2, <2>1, <2>4
  <2> QED  BY <2>2, <2>3, <2>4
<1>6. TypeOK' /\ JoinedOnce' /\ InfoStands' /\ SpentInv'
  BY <1>1, <1>4, <1>5 DEF CInv, TypeOK, JoinedOnce, InfoStands, SpentInv, Stored
<1>7. EdgeInv'
  <2> SUFFICES ASSUME NEW x \in Conns \ foreign, edge'[x] # None PROVE Shown(x)'
    BY <1>1 DEF EdgeInv
  <2>1. edge[x] # None
    BY <1>5
  <2>2. \A y \in Clients : call'[y].ui => call'[y] = call[y]
    BY <1>4, NoCallIsSilent
  <2>3. CASE x # c \/ r.at = "refused"
    <3>1. edge'[x] = edge[x]
      BY <1>5, <2>3
    <3>2. \A y \in OfPanel(x) : call[y].at = "done" => call'[y] = call[y]
      BY <1>4, <2>3 DEF OfPanel
    <3> HIDE DEF c, r
    <3> QED  BY <1>1, <2>1, <2>2, <3>1, <3>2, ShownKept
  <2>4. CASE x = c /\ r.at # "refused"
    <3>1. r.op = "update" /\ r.at = "done" /\ edge'[x] = r.to.info
      BY <1>1, <1>5, <2>4
    <3>2. Shown(x) /\ k \in OfPanel(x)
      BY <1>1, <2>1, <2>4 DEF CInv, EdgeInv, OfPanel
    <3>3. conn[x] # None /\ conn[x].info = edge'[x]
      BY <3>1, <3>2 DEF Shown
    <3>4. OfPanel(x)' \subseteq OfPanel(x)
      BY <2>2 DEF OfPanel
    <3> QED  BY <1>1, <2>2, <3>2, <3>3, <3>4 DEF Shown, OfPanel
  <2> QED  BY <2>3, <2>4
<1> QED  BY <1>4, <1>6, <1>7 DEF CInv

-----------------------------------------------------------------------------

\* The rows of a device go with it; what the canvas shows of them is foreign.
LEMMA DeviceHolds == ASSUME CInv, NEW d \in Devices, DeleteDevice(d) PROVE CInv'
<1> DEFINE hit == {c \in Stored : d \in Ends(conn[c])}
<1>1. /\ devices' = devices \ {d} /\ foreign' = foreign \cup hit
      /\ conn' = [c \in Conns |-> IF c \in hit THEN None ELSE conn[c]]
      /\ UNCHANGED <<spent, call, edge, asked>>
  BY DEF DeleteDevice
<1>2. hit \subseteq Conns
  BY DEF Stored
<1>3. \A c \in Conns : conn'[c] # None => conn'[c] = conn[c] /\ c \notin hit
  BY <1>1
<1>4. \A c \in Conns : conn[c] # None /\ d \in Ends(conn[c]) => c \in hit
  BY DEF Stored
<1> HIDE DEF hit
<1>5. TypeOK' /\ SpentInv'
  BY <1>1, <1>2, <1>3 DEF CInv, TypeOK, SpentInv
<1>6. JoinedOnce' /\ InfoStands'
  BY <1>1, <1>3, <1>4 DEF CInv, JoinedOnce, InfoStands, Stored
<1>7. CallsInv'
  BY <1>1 DEF CInv, CallsInv
<1>8. EdgeInv'
  <2> SUFFICES ASSUME NEW x \in Conns \ foreign, x \notin hit, edge[x] # None PROVE Shown(x)'
    BY <1>1 DEF EdgeInv
  <2>1. conn'[x] = conn[x]
    BY <1>1
  <2> QED  BY <1>1, <2>1, ShownKept
<1> QED  BY <1>5, <1>6, <1>7, <1>8 DEF CInv

\* A load shows the rows as they are.
LEMMA LoadHolds == ASSUME CInv, LoadEdges PROVE CInv'
<1> USE ConnectionsAssumption
<1>1. /\ \A k \in Clients : call[k] = NoCall
      /\ edge' = [c \in Conns |-> IF conn[c] = None THEN None ELSE conn[c].info]
      /\ foreign' = {} /\ UNCHANGED <<devices, conn, spent, call, asked>>
  BY DEF LoadEdges, tables
<1>2. \A c \in Conns : conn[c] # None => conn[c].info \in Infos
  BY DEF CInv, TypeOK, Row
<1>3. edge' \in [Conns -> Infos \cup {None}] /\ \A c \in Conns : edge'[c] # None =>
        conn[c] # None /\ edge'[c] = conn[c].info
  BY <1>1, <1>2
<1>4. TypeOK' /\ SpentInv' /\ JoinedOnce' /\ InfoStands' /\ CallsInv'
  BY <1>1, <1>3 DEF CInv, TypeOK, SpentInv, JoinedOnce, InfoStands, Stored, CallsInv
<1>5. EdgeInv'
  BY <1>1, <1>3, NoCallIsSilent DEF EdgeInv, Shown, OfPanel
<1> QED  BY <1>4, <1>5 DEF CInv

\* Before any call no connection is there.
LEMMA ConnInit == Init => CInv
<1> SUFFICES ASSUME Init PROVE CInv
  OBVIOUS
<1> USE ConnectionsAssumption
<1>1. PICK c \in Conns, d \in Devices, e \in Devices, i \in Infos :
        /\ d # e /\ devices = Devices /\ spent = {c}
        /\ conn = [x \in Conns |-> IF x = c THEN [source |-> d, target |-> e, info |-> i]
                                   ELSE None]
        /\ call = [k \in Clients |-> NoCall]
        /\ edge = [x \in Conns |-> IF x = c THEN i ELSE None]
        /\ asked = edge /\ foreign = {}
  BY DEF Init
<1>2. PICK row : row = [source |-> d, target |-> e, info |-> i]
  OBVIOUS
<1>3. row \in Row /\ row.info = i /\ NoSelfLoop(row) /\ Ends(row) \subseteq devices
  BY <1>1, <1>2 DEF Row, NoSelfLoop, Ends
<1>4. \A x \in Conns : /\ conn[x] = IF x = c THEN row ELSE None
                       /\ edge[x] = IF x = c THEN i ELSE None
                       /\ asked[x] = edge[x]
  BY <1>1, <1>2
<1>5. conn \in [Conns -> Row \cup {None}]
  BY <1>1, <1>2, <1>3
<1>6. TypeOK /\ SpentInv
  BY <1>1, <1>4, <1>5, NoCallFits DEF TypeOK, SpentInv
<1>7. JoinedOnce /\ InfoStands
  BY <1>3, <1>4, TwoEnds DEF JoinedOnce, InfoStands, Stored
<1>8. CallsInv /\ EdgeInv
  <2>1. NoCall.op # "create" /\ \A k \in Clients : call[k] = NoCall
    BY <1>1 DEF NoCall
  <2> QED  BY <1>3, <1>4, <2>1, NoCallFits, NoCallIsSilent
           DEF CallsInv, EdgeInv, Shown, OfPanel
<1> QED  BY <1>6, <1>7, <1>8 DEF CInv

\* Every step keeps the invariant.
LEMMA ConnNext == CInv /\ [Next]_vars => CInv'
<1> SUFFICES ASSUME CInv, [Next]_vars PROVE CInv'
  OBVIOUS
<1>1. CASE UNCHANGED vars
  BY <1>1 DEF vars, CInv, TypeOK, JoinedOnce, InfoStands, Stored, CallsInv, SpentInv,
              EdgeInv, Shown, OfPanel
<1>2. CASE Next
  BY <1>2, BeginHolds, CreateHolds, UpdateHolds, DeleteHolds, RefuseHolds, LossHolds,
     AnsweredHolds, DeviceHolds, LoadHolds DEF Next
<1> QED  BY <1>1, <1>2

\* When no request of the panel is under way, the canvas shows the row.
LEMMA ShownIsTold == CInv => ConnectionsHold
  BY DEF CInv, ConnectionsHold, EdgeShowsConnection, EdgeInv, Shown, OfPanel

\* However many requests check one thing and commit another: no device is joined to itself,
\* to another twice, or to one that is gone, patches of different columns both stand, and the
\* canvas shows what only its panel changed (connection_service.py,
\* connection_detail_panel.py).
THEOREM ConnectionsCorrect == Spec => []ConnectionsHold
<1>1. Spec => []CInv
  BY ConnInit, ConnNext, PTL DEF Spec
<1> QED  BY <1>1, ShownIsTold, PTL

-----------------------------------------------------------------------------
(***************************************************************************)
(* Containers (Containers).                                                *)
(*                                                                         *)
(* A device that moves is watched at both ends: until the answer is there  *)
(* the server has it where it was.  The moves of drafts never reach the    *)
(* server; that the canvas has no circle of them after any number of undos *)
(* and redos rests on the stacks retracing their steps.                    *)
(***************************************************************************)

\* Some member of every set of these nodes has its parent outside of the set.
ForestOf(D, parent) == \A S \in (SUBSET D) \ {{}} : \E x \in S : parent[x] \notin S

\* A node that goes to one that is not inside it makes no circle (DropParents, _creates_cycle).
LEMMA MoveKeepsForest ==
  ASSUME NEW D \in SUBSET TreeNodes, NEW parent, NEW q, NEW n \in TreeNodes, NEW to,
         D \subseteq DOMAIN parent,
         ForestOf(D, parent), NoNode \notin TreeNodes,
         to # n, to \in TreeNodes => n \notin Above(parent, to),
         \A x \in D \ {n} : q[x] = parent[x],
         n \in D => q[n] = to
  PROVE  ForestOf(D, q)
<1>1. SUFFICES ASSUME NEW S \in SUBSET D, S # {}, \A x \in S : q[x] \in S
               PROVE  FALSE
  BY DEF ForestOf
<1>2. CASE n \notin S
  <2>1. \A x \in S : parent[x] \in S
    BY <1>1, <1>2
  <2> QED BY <1>1, <2>1 DEF ForestOf
<1>3. CASE n \in S
  <2>1. to \in S /\ to \in TreeNodes
    BY <1>1, <1>3
  <2>2. PICK T \in SUBSET TreeNodes :
          /\ \A x \in ({to} \cup T) \cap DOMAIN parent : parent[x] \in T \cup {NoNode}
          /\ n \notin T
    BY <2>1 DEF Above
  <2> DEFINE B == S \cap ({to} \cup T)
  <2>3. B \in SUBSET D /\ B # {}
    BY <2>1
  <2>4. \A x \in B : parent[x] \in B
    <3> TAKE x \in B
    <3>1. x # n /\ x \in D
      BY <2>2
    <3>2. parent[x] \in S
      BY <1>1, <3>1
    <3>3. parent[x] \in T
      BY <2>2, <3>1, <3>2
    <3> QED BY <3>2, <3>3
  <2> QED BY <2>3, <2>4 DEF ForestOf
<1> QED BY <1>2, <1>3

\* t is the stack s with e on top.
Pushed(s, t, e) ==
  /\ s \in Seq(Entry) /\ t \in Seq(Entry) /\ e \in Entry
  /\ Len(t) = Len(s) + 1 /\ t[Len(t)] = e
  /\ \A j \in 1..Len(s) : t[j] = s[j]

\* An append pushes (push_committed).
LEMMA AppendPushes ==
  ASSUME NEW s \in Seq(Entry), NEW e \in Entry
  PROVE  Pushed(s, Append(s, e), e)
BY AppendProperties DEF Pushed

\* What is popped was on top of the rest (pop).
LEMMA PopIsPushed ==
  ASSUME NEW s \in Seq(Entry), s # <<>>
  PROVE  /\ Pushed(Popped(s), s, Top(s)) /\ Popped(s) \in Seq(Entry)
         /\ Top(s) \in Entry /\ Len(s) > 0
<1>0. Len(s) \in Nat /\ Len(s) # 0
  BY EmptySeq, LenProperties
<1>1. Len(s) \in Nat /\ Len(s) > 0 /\ \A i \in 1..Len(s) : s[i] \in Entry
  BY <1>0, ElementOfSeq
<1>2. Popped(s) \in Seq(Entry) /\ Len(Popped(s)) = Len(s) - 1
      /\ \A i \in 1..(Len(s) - 1) : Popped(s)[i] = s[i]
  <2>1. \A i \in 1..(Len(s) - 1) : s[i] \in Entry
    BY <1>1
  <2>2. 1 \in Int /\ Len(s) - 1 \in Int
    BY <1>1
  <2>3. /\ SubSeq(s, 1, Len(s) - 1) \in Seq(Entry)
        /\ Len(SubSeq(s, 1, Len(s) - 1)) =
             IF 1 <= Len(s) - 1 THEN (Len(s) - 1) - 1 + 1 ELSE 0
        /\ \A i \in 1..((Len(s) - 1) - 1 + 1) : SubSeq(s, 1, Len(s) - 1)[i] = s[1 + i - 1]
    BY <2>1, <2>2, SubSeqProperties
  <2>4. (Len(s) - 1) - 1 + 1 = Len(s) - 1
    BY <1>1
  <2>6. (IF 1 <= Len(s) - 1 THEN (Len(s) - 1) - 1 + 1 ELSE 0) = Len(s) - 1
    <3>1. CASE Len(s) = 1
      BY <3>1
    <3>2. CASE Len(s) # 1
      <4>1. \A n \in Nat : n # 0 /\ n # 1 => 1 <= n - 1
        OBVIOUS
      <4> QED BY <1>0, <3>2, <4>1, <2>4
    <3> QED BY <3>1, <3>2
  <2>5. \A i \in 1..(Len(s) - 1) : 1 + i - 1 = i
    BY <1>1
  <2> QED BY <2>3, <2>4, <2>5, <2>6 DEF Popped
<1> QED BY <1>1, <1>2 DEF Pushed, Top

\* Another entry says nothing of a node that it does not move.
LEMMA LeadsSame ==
  ASSUME NEW way, NEW s, NEW t, NEW e, Pushed(s, t, e), NEW parent, NEW q, NEW x, NEW p,
         x # e.n, q[x] = parent[x], NEW i \in 1..(Len(s) + 2)
  PROVE  Leads(way, s, parent, i, x, p) <=> Leads(way, t, q, i, x, p)
<1>0. Len(s) \in Nat
  BY LenProperties DEF Pushed
<1>1. Later(s, i, x) = Later(t, i, x)
  BY <1>0 DEF Later, Pushed
<1>2. \A j \in Later(s, i, x) : s[j] = t[j]
  BY <1>0 DEF Later, Pushed
<1> QED BY <1>1, <1>2 DEF Leads

\* An entry leads its node back to where it was.
LEMMA LeadsPush ==
  ASSUME NEW way, NEW s, NEW t, NEW e, Pushed(s, t, e), NEW parent, NEW q, NEW x, NEW p,
         x = e.n, parent[x] = GoesTo(way, e), NEW i \in 1..(Len(s) + 1)
  PROVE  Leads(way, s, parent, i, x, p) <=> Leads(way, t, q, i, x, p)
<1>0. Len(s) \in Nat
  BY LenProperties DEF Pushed
<1>1. Later(t, i, x) = Later(s, i, x) \cup {Len(t)}
  BY <1>0 DEF Later, Pushed
<1>2. \A j \in Later(s, i, x) : s[j] = t[j] /\ j < Len(t) /\ j \in Nat
  BY <1>0 DEF Later, Pushed
<1>3. t[Len(t)] = e /\ Len(t) \in Nat
  BY <1>0 DEF Pushed
<1>4. CASE Later(s, i, x) = {}
  BY <1>1, <1>3, <1>4 DEF Leads
<1>5. CASE Later(s, i, x) # {}
  <2>1. ASSUME Leads(way, s, parent, i, x, p) PROVE Leads(way, t, q, i, x, p)
    <3>1. PICK j \in Later(s, i, x) :
            p = GoesTo(way, s[j]) /\ \A k \in Later(s, i, x) : j <= k
      BY <2>1, <1>5 DEF Leads
    <3>2. j \in Later(t, i, x) /\ p = GoesTo(way, t[j]) /\ \A k \in Later(t, i, x) : j <= k
      BY <3>1, <1>1, <1>2, <1>3
    <3> QED BY <3>2 DEF Leads
  <2>2. ASSUME Leads(way, t, q, i, x, p) PROVE Leads(way, s, parent, i, x, p)
    <3>1. PICK j \in Later(t, i, x) :
            p = GoesTo(way, t[j]) /\ \A k \in Later(t, i, x) : j <= k
      BY <2>2, <1>1 DEF Leads
    <3>2. j # Len(t)
      BY <3>1, <1>1, <1>2, <1>3, <1>5
    <3>3. j \in Later(s, i, x) /\ p = GoesTo(way, s[j]) /\ \A k \in Later(s, i, x) : j <= k
      BY <3>1, <3>2, <1>1, <1>2
    <3> QED BY <3>3 DEF Leads
  <2> QED BY <2>1, <2>2
<1> QED BY <1>4, <1>5

\* Above its last entry a stack leads nowhere else than here.
LEMMA LeadsHere ==
  ASSUME NEW way, NEW s \in Seq(Entry), NEW parent, NEW x, NEW p
  PROVE  Leads(way, s, parent, Len(s) + 1, x, p) <=> p = parent[x]
<1>1. Len(s) \in Nat
  BY LenProperties
<1>2. Later(s, Len(s) + 1, x) = {}
  BY <1>1 DEF Later
<1> QED BY <1>2 DEF Leads

\* So there is no circle among the drafts now.
LEMMA UnwindsForest ==
  ASSUME NEW way, NEW s \in Seq(Entry), NEW parent, Unwinds(way, s, parent)
  PROVE  ForestOf(DraftsOf(parent), parent)
<1>1. Len(s) \in Nat /\ Len(s) + 1 \in 1..(Len(s) + 1)
  BY LenProperties
<1>2. SUFFICES ASSUME NEW S \in (SUBSET DraftsOf(parent)) \ {{}}
               PROVE  \E x \in S : parent[x] \notin S
  BY DEF ForestOf
<1>3. PICK x \in S, p \in (TreeNodes \cup {NoNode}) \ S : Leads(way, s, parent, Len(s) + 1, x, p)
  BY <1>1, <1>2 DEF Unwinds
<1> QED BY <1>3, LeadsHere

\* A stack says no less of fewer nodes, wherever the others and the devices are.
LEMMA UnwindsFewer ==
  ASSUME NEW way, NEW s \in Seq(Entry), NEW parent, NEW q, Unwinds(way, s, parent),
         DOMAIN q \subseteq DOMAIN parent,
         \A x \in DraftsOf(q) : q[x] = parent[x]
  PROVE  Unwinds(way, s, q)
<1>1. DraftsOf(q) \subseteq DraftsOf(parent)
  BY DEF DraftsOf
<1>2. \A i, p : \A x \in DraftsOf(q) : Leads(way, s, parent, i, x, p) <=> Leads(way, s, q, i, x, p)
  BY DEF Leads
<1>3. SUFFICES ASSUME NEW i \in 1..(Len(s) + 1)
      PROVE /\ \A S \in (SUBSET DraftsOf(q)) \ {{}} :
                 \E x \in S, p \in (TreeNodes \cup {NoNode}) \ S : Leads(way, s, q, i, x, p)
            /\ i > 1 /\ s[i - 1].n \in DraftsOf(q) =>
                 Leads(way, s, q, i, s[i - 1].n, CameFrom(way, s[i - 1]))
  BY DEF Unwinds
<1>4. ASSUME NEW S \in (SUBSET DraftsOf(q)) \ {{}}
      PROVE  \E x \in S, p \in (TreeNodes \cup {NoNode}) \ S : Leads(way, s, q, i, x, p)
  <2>1. PICK x \in S, p \in (TreeNodes \cup {NoNode}) \ S : Leads(way, s, parent, i, x, p)
    BY <1>1, <1>3, <1>4 DEF Unwinds
  <2> QED BY <2>1, <1>2, <1>4
<1>5. ASSUME i > 1, s[i - 1].n \in DraftsOf(q)
      PROVE  Leads(way, s, q, i, s[i - 1].n, CameFrom(way, s[i - 1]))
  <2>1. Leads(way, s, parent, i, s[i - 1].n, CameFrom(way, s[i - 1]))
    BY <1>1, <1>3, <1>5 DEF Unwinds
  <2> QED BY <2>1, <1>2, <1>5
<1> QED BY <1>4, <1>5

\* The empty stack leads here.
LEMMA UnwindsEmpty ==
  ASSUME NEW way, NEW parent, ForestOf(DraftsOf(parent), parent),
         \A x \in DraftsOf(parent) : parent[x] \in TreeNodes \cup {NoNode}
  PROVE  Unwinds(way, <<>>, parent)
<1>1. <<>> \in Seq(Entry) /\ Len(<<>>) = 0
  BY EmptySeq
<1>2. SUFFICES ASSUME NEW S \in (SUBSET DraftsOf(parent)) \ {{}}
      PROVE  \E x \in S, p \in (TreeNodes \cup {NoNode}) \ S : Leads(way, <<>>, parent, 1, x, p)
  <2>1. \A i \in 1..(Len(<<>>) + 1) : i = 1
    BY <1>1
  <2> QED BY <2>1 DEF Unwinds
<1>3. PICK x \in S : parent[x] \notin S
  BY DEF ForestOf
<1>4. Leads(way, <<>>, parent, 1, x, parent[x])
  BY <1>1 DEF Leads, Later
<1> QED BY <1>3, <1>4

\* The move of a node is pushed, and the node has moved (push_committed, replays).
LEMMA UnwindsPush ==
  ASSUME NEW way, NEW s, NEW t, NEW e, Pushed(s, t, e), NEW parent, NEW q,
         Unwinds(way, s, parent), DOMAIN q = DOMAIN parent,
         ForestOf(DraftsOf(q), q),
         \A x \in DraftsOf(q) : q[x] \in TreeNodes \cup {NoNode},
         \A x \in DraftsOf(q) \ {e.n} : q[x] = parent[x],
         e.n \in DraftsOf(q) => parent[e.n] = GoesTo(way, e) /\ q[e.n] = CameFrom(way, e)
  PROVE  Unwinds(way, t, q)
<1>0. Len(s) \in Nat /\ Len(t) = Len(s) + 1 /\ t \in Seq(Entry) /\ s \in Seq(Entry)
  BY LenProperties DEF Pushed
<1>1. DraftsOf(q) = DraftsOf(parent)
  BY DEF DraftsOf
<1>2. \A i \in 1..(Len(s) + 1) : \A p : \A x \in DraftsOf(q) :
        Leads(way, s, parent, i, x, p) <=> Leads(way, t, q, i, x, p)
  <2> TAKE i \in 1..(Len(s) + 1)
  <2> TAKE p
  <2> TAKE x \in DraftsOf(q)
  <2>1. CASE x = e.n
    BY <2>1, LeadsPush
  <2>2. CASE x # e.n
    <3>1. i \in 1..(Len(s) + 2)
      BY <1>0
    <3>2. q[x] = parent[x]
      BY <2>2
    <3> QED BY <2>2, <3>1, <3>2, LeadsSame
  <2> QED BY <2>1, <2>2
<1>3. SUFFICES ASSUME NEW i \in 1..(Len(t) + 1)
      PROVE /\ \A S \in (SUBSET DraftsOf(q)) \ {{}} :
                 \E x \in S, p \in (TreeNodes \cup {NoNode}) \ S : Leads(way, t, q, i, x, p)
            /\ i > 1 /\ t[i - 1].n \in DraftsOf(q) =>
                 Leads(way, t, q, i, t[i - 1].n, CameFrom(way, t[i - 1]))
  BY DEF Unwinds
<1>4. CASE i = Len(t) + 1
  <2>1. ASSUME NEW S \in (SUBSET DraftsOf(q)) \ {{}}
        PROVE  \E x \in S, p \in (TreeNodes \cup {NoNode}) \ S : Leads(way, t, q, i, x, p)
    <3>1. PICK x \in S : q[x] \notin S
      BY <2>1 DEF ForestOf
    <3>2. Leads(way, t, q, i, x, q[x])
      BY <1>0, <1>4, LeadsHere
    <3> QED BY <3>1, <3>2, <2>1
  <2>2. ASSUME t[i - 1].n \in DraftsOf(q)
        PROVE  Leads(way, t, q, i, t[i - 1].n, CameFrom(way, t[i - 1]))
    <3>1. t[i - 1] = e
      BY <1>0, <1>4 DEF Pushed
    <3> QED BY <1>0, <1>4, <2>2, <3>1, LeadsHere
  <2> QED BY <2>1, <2>2
<1>5. CASE i # Len(t) + 1
  <2>0. i \in 1..(Len(s) + 1)
    BY <1>0, <1>3, <1>5
  <2>1. ASSUME NEW S \in (SUBSET DraftsOf(q)) \ {{}}
        PROVE  \E x \in S, p \in (TreeNodes \cup {NoNode}) \ S : Leads(way, t, q, i, x, p)
    <3>1. PICK x \in S, p \in (TreeNodes \cup {NoNode}) \ S : Leads(way, s, parent, i, x, p)
      BY <1>1, <2>0, <2>1 DEF Unwinds
    <3> QED BY <3>1, <1>2, <2>0, <2>1
  <2>2. ASSUME i > 1, t[i - 1].n \in DraftsOf(q)
        PROVE  Leads(way, t, q, i, t[i - 1].n, CameFrom(way, t[i - 1]))
    <3>1. i - 1 \in 1..Len(s)
      BY <1>0, <2>0, <2>2
    <3>2. t[i - 1] = s[i - 1]
      BY <3>1 DEF Pushed
    <3>3. Leads(way, s, parent, i, s[i - 1].n, CameFrom(way, s[i - 1]))
      BY <1>1, <2>0, <2>2, <3>2 DEF Unwinds
    <3> QED BY <3>2, <3>3, <1>2, <2>0, <2>2
  <2> QED BY <2>1, <2>2
<1> QED BY <1>4, <1>5

\* The entry on top is taken off, and its node is where it leads (MoveEntry).
LEMMA UnwindsPop ==
  ASSUME NEW way, NEW s, NEW t, NEW e, Pushed(s, t, e), NEW parent, NEW q,
         Unwinds(way, t, parent), DOMAIN q = DOMAIN parent,
         \A x \in DraftsOf(q) \ {e.n} : q[x] = parent[x],
         e.n \in DraftsOf(q) => q[e.n] = GoesTo(way, e)
  PROVE  Unwinds(way, s, q)
<1>0. Len(s) \in Nat /\ Len(t) = Len(s) + 1 /\ t \in Seq(Entry) /\ s \in Seq(Entry)
  BY LenProperties DEF Pushed
<1>1. DraftsOf(q) = DraftsOf(parent)
  BY DEF DraftsOf
<1>2. \A i \in 1..(Len(s) + 1) : \A p : \A x \in DraftsOf(q) :
        Leads(way, t, parent, i, x, p) <=> Leads(way, s, q, i, x, p)
  <2> TAKE i \in 1..(Len(s) + 1)
  <2> TAKE p
  <2> TAKE x \in DraftsOf(q)
  <2>1. CASE x = e.n
    BY <2>1, LeadsPush
  <2>2. CASE x # e.n
    <3>1. i \in 1..(Len(s) + 2)
      BY <1>0
    <3>2. q[x] = parent[x]
      BY <2>2
    <3> QED BY <2>2, <3>1, <3>2, LeadsSame
  <2> QED BY <2>1, <2>2
<1>3. ASSUME NEW i \in 1..(Len(s) + 1)
      PROVE /\ \A S \in (SUBSET DraftsOf(q)) \ {{}} :
                 \E x \in S, p \in (TreeNodes \cup {NoNode}) \ S : Leads(way, s, q, i, x, p)
            /\ i > 1 /\ s[i - 1].n \in DraftsOf(q) =>
                 Leads(way, s, q, i, s[i - 1].n, CameFrom(way, s[i - 1]))
  <2>0. i \in 1..(Len(t) + 1)
    BY <1>0, <1>3
  <2>1. ASSUME NEW S \in (SUBSET DraftsOf(q)) \ {{}}
        PROVE  \E x \in S, p \in (TreeNodes \cup {NoNode}) \ S : Leads(way, s, q, i, x, p)
    <3>1. PICK x \in S, p \in (TreeNodes \cup {NoNode}) \ S : Leads(way, t, parent, i, x, p)
      BY <1>1, <2>0, <2>1 DEF Unwinds
    <3> QED BY <3>1, <1>2, <1>3, <2>1
  <2>2. ASSUME i > 1, s[i - 1].n \in DraftsOf(q)
        PROVE  Leads(way, s, q, i, s[i - 1].n, CameFrom(way, s[i - 1]))
    <3>1. i - 1 \in 1..Len(s)
      BY <1>0, <1>3, <2>2
    <3>2. t[i - 1] = s[i - 1]
      BY <3>1 DEF Pushed
    <3>3. Leads(way, t, parent, i, s[i - 1].n, CameFrom(way, s[i - 1]))
      BY <1>1, <2>0, <2>2, <3>2 DEF Unwinds
    <3> QED BY <3>3, <1>2, <1>3, <2>2
  <2> QED BY <2>1, <2>2
<1> QED BY <1>3 DEF Unwinds

\* The entry on top finds its node where it has put it.
LEMMA UnwindsTop ==
  ASSUME NEW way, NEW t \in Seq(Entry), t # <<>>, NEW parent, Unwinds(way, t, parent),
         Top(t).n \in DraftsOf(parent)
  PROVE  parent[Top(t).n] = CameFrom(way, Top(t))
<1>1. Len(t) \in Nat /\ Len(t) > 0 /\ Top(t) = t[Len(t)]
  BY EmptySeq, LenProperties DEF Top
<1>2. Len(t) + 1 \in 1..(Len(t) + 1) /\ Len(t) + 1 > 1 /\ t[(Len(t) + 1) - 1] = Top(t)
  BY <1>1
<1>3. Leads(way, t, parent, Len(t) + 1, Top(t).n, CameFrom(way, Top(t)))
  BY <1>2 DEF Unwinds
<1> QED BY <1>3, LeadsHere

(***************************************************************************)
(* The types.                                                              *)
(***************************************************************************)

Parents  == TreeNodes \cup {NoNode}
TreeOK(c) ==
  /\ c \in [parent : ParentMaps, version : [DeviceNodes -> Nat], container : SUBSET TreeNodes]
  /\ c.container \subseteq DOMAIN c.parent

LEMMA ParentMapsAre ==
  ASSUME NEW p
  PROVE  p \in ParentMaps <=> DOMAIN p \in SUBSET TreeNodes /\ p \in [DOMAIN p -> Parents]
BY DEF ParentMaps, Parents

\* One node moves, if it is shown (apply_canvas_reparent).
LEMMA ReparentMoves ==
  ASSUME NestAssumption, NEW c, TreeOK(c), NEW n \in TreeNodes, NEW to \in Parents, NEW v \in Nat,
         NEW r, r = ApplyCanvasReparent(c, n, to, v)
  PROVE  /\ TreeOK(r) /\ DOMAIN r.parent = DOMAIN c.parent
         /\ \A x \in DOMAIN c.parent : r.parent[x] = IF x = n THEN to ELSE c.parent[x]
         /\ r.container = c.container
<1>1. CASE n \notin DOMAIN c.parent
  BY <1>1 DEF ApplyCanvasReparent
<1>2. CASE n \in DOMAIN c.parent
  <2> DEFINE f == [c.parent EXCEPT ![n] = to]
             w == IF n \in DeviceNodes THEN [c.version EXCEPT ![n] = v] ELSE c.version
  <2>1. DOMAIN c.parent \in SUBSET TreeNodes /\ c.parent \in [DOMAIN c.parent -> Parents]
    BY ParentMapsAre DEF TreeOK
  <2>2. f \in [DOMAIN c.parent -> Parents] /\ DOMAIN f = DOMAIN c.parent
        /\ \A x \in DOMAIN c.parent : f[x] = IF x = n THEN to ELSE c.parent[x]
    BY <2>1
  <2>3. f \in ParentMaps
    BY <2>1, <2>2, ParentMapsAre
  <2>4. w \in [DeviceNodes -> Nat]
    BY DEF TreeOK
  <2>5. r = [c EXCEPT !.parent = f, !.version = w]
    BY <1>2 DEF ApplyCanvasReparent, TreeOK
  <2> HIDE DEF f, w
  <2>6. r.parent = f /\ r.version = w /\ r.container = c.container
        /\ r \in [parent : ParentMaps, version : [DeviceNodes -> Nat],
                  container : SUBSET TreeNodes]
    BY <2>3, <2>4, <2>5 DEF TreeOK
  <2> QED BY <2>2, <2>6 DEF TreeOK
<1> QED BY <1>1, <1>2

LEMMA EntryGoes ==
  ASSUME NEW way, NEW e \in Entry
  PROVE  GoesTo(way, e) \in Parents /\ CameFrom(way, e) \in Parents /\ e.n \in Parents
         /\ e.id \in Nat /\ e.cursor \in Nat /\ e.from \in Parents /\ e.to \in Parents
BY DEF GoesTo, CameFrom, Entry, Parents

\* What is left when the nodes inside one are gone (CandidateLayout).
LEMMA KeptIs ==
  ASSUME NEW p \in ParentMaps, NEW n
  PROVE  /\ Kept(p, n) \in ParentMaps
         /\ DOMAIN Kept(p, n) = DOMAIN p \ Inside(p, n)
         /\ \A x \in DOMAIN Kept(p, n) : Kept(p, n)[x] = p[x]
<1>1. DOMAIN p \in SUBSET TreeNodes /\ p \in [DOMAIN p -> Parents]
  BY ParentMapsAre
<1>2. DOMAIN Kept(p, n) = DOMAIN p \ Inside(p, n)
      /\ \A x \in DOMAIN Kept(p, n) : Kept(p, n)[x] = p[x]
  BY DEF Kept
<1>3. Kept(p, n) \in [DOMAIN p \ Inside(p, n) -> Parents]
  BY <1>1 DEF Kept
<1> QED BY <1>1, <1>2, <1>3, ParentMapsAre

\* The stacks after a push of a new entry, and after a replay (push_committed, pop).
LEMMA PushTyped ==
  ASSUME NestTypeOK, NEW e \in Entry, PushCommitted(e)
  PROVE  undoMoves' \in Seq(Entry) /\ redoMoves' \in Seq(Entry)
BY AppendProperties, EmptySeq DEF PushCommitted, NestTypeOK

LEMMA ReplayTyped ==
  ASSUME NestTypeOK, NEW way \in {"undo", "redo"}, StackOf(way) # <<>>, NEW e \in Entry,
         MoveEntry(way, e)
  PROVE  undoMoves' \in Seq(Entry) /\ redoMoves' \in Seq(Entry)
<1>1. undoMoves \in Seq(Entry) /\ redoMoves \in Seq(Entry)
  BY DEF NestTypeOK
<1>2. Append(undoMoves, e) \in Seq(Entry) /\ Append(redoMoves, e) \in Seq(Entry)
  BY <1>1, AppendProperties
<1>3. Popped(StackOf(way)) \in Seq(Entry)
  BY <1>1, PopIsPushed DEF StackOf
<1> QED BY <1>2, <1>3 DEF MoveEntry, StackOf

\* The invariant in the parts that the steps are about.
LEMMA NestTypes ==
  ASSUME NestTypeOK
  PROVE  /\ nested.parent \in [DeviceNodes -> DeviceNodes \cup {NoNode}]
         /\ nested.version \in [DeviceNodes -> Nat]
         /\ nested = [parent |-> nested.parent, version |-> nested.version]
         /\ TreeOK(tree)
         /\ undoMoves \in Seq(Entry) /\ redoMoves \in Seq(Entry)
         /\ asking.move \in Entry /\ asking.locked \subseteq TreeNodes
         /\ plan.n \in TreeNodes \cup {NoNode} /\ plan.base \in Nat
         /\ moves \in Nat /\ others \in Nat
BY DEF NestTypeOK, TreeOK, Asking

LEMMA NestTypeInit == NestAssumption /\ NestInit => NestTypeOK
<1> SUFFICES ASSUME NestAssumption, NestInit PROVE NestTypeOK
  OBVIOUS
<1>1. nested \in [parent : [DeviceNodes -> DeviceNodes \cup {NoNode}],
                  version : [DeviceNodes -> Nat]]
  BY DEF NestInit
<1>2. tree.parent \in [TreeNodes -> Parents] /\ DOMAIN tree.parent = TreeNodes
  BY <1>1 DEF NestInit, Parents, TreeNodes
<1>3. tree.parent \in ParentMaps
  BY <1>2, ParentMapsAre
<1>4. tree \in [parent : ParentMaps, version : [DeviceNodes -> Nat], container : SUBSET TreeNodes]
      /\ tree.container \subseteq DOMAIN tree.parent
  BY <1>1, <1>2, <1>3 DEF NestInit
<1>5. drawnLayout \in [parent : ParentMaps, version : Nat]
  BY <1>3 DEF NestInit
<1>6. undoMoves \in Seq(Entry) /\ redoMoves \in Seq(Entry)
  BY EmptySeq DEF NestInit
<1>7. asking \in Asking /\ NoPlan \in [at : {"none", "asked", "put", "done", "failed"},
        n : TreeNodes \cup {NoNode}, left : ParentMaps \cup {<<>>}, base : Nat]
  BY DEF NestInit, NotAsking, NoMove, NoPlan, Asking, Entry
<1>8. plan = NoPlan /\ moved \subseteq DeviceNodes /\ dropped \in BOOLEAN
  BY DEF NestInit
<1>9. moves \in 0..MaxMoves /\ others \in 0..MaxWrites
  BY DEF NestInit, NestAssumption
<1> QED BY <1>1, <1>4, <1>5, <1>6, <1>7, <1>8, <1>9 DEF NestTypeOK


\* The tree and the stacks are of their types after each of their changes.
TreesOK  == TreeOK(tree)
StacksOK == undoMoves \in Seq(Entry) /\ redoMoves \in Seq(Entry)
NestOK   ==
  /\ nested \in [parent : [DeviceNodes -> DeviceNodes \cup {NoNode}],
                 version : [DeviceNodes -> Nat]]
  /\ drawnLayout \in [parent : ParentMaps, version : Nat]
  /\ moved \subseteq DeviceNodes /\ dropped \in BOOLEAN
AskOK    == asking \in Asking
PlanOK   ==
  /\ plan \in [at : {"none", "asked", "put", "done", "failed"}, n : TreeNodes \cup {NoNode},
               left : ParentMaps \cup {<<>>}, base : Nat]
CountOK  == moves \in 0..MaxMoves /\ others \in 0..MaxWrites

LEMMA NestParts ==
  NestTypeOK <=> TreesOK /\ StacksOK /\ NestOK /\ AskOK /\ PlanOK /\ CountOK
BY DEF NestTypeOK, TreesOK, StacksOK, NestOK, AskOK, PlanOK, CountOK, TreeOK

LEMMA NestPartsNext ==
  NestTypeOK' <=> TreesOK' /\ StacksOK' /\ NestOK' /\ AskOK' /\ PlanOK' /\ CountOK'
BY DEF NestTypeOK, TreesOK, StacksOK, NestOK, AskOK, PlanOK, CountOK, TreeOK

\* The move that is asked for goes to a node, or to none.
LEMMA AskedFor ==
  ASSUME NestTypeOK, AskingInv, busy
  PROVE  /\ asking.move \in Entry /\ asking.move.n \in DeviceNodes /\ asking.move.n \in TreeNodes
         /\ n_to \in Parents /\ asking.move.from \in Parents /\ asking.move.to \in Parents
         /\ asking.move.cursor \in Nat /\ asking.move.id \in Nat
BY NestTypes, EntryGoes DEF AskingInv, busy, n_to, TreeNodes

\* What the answers to the calls leave as it was (request_reparent).
LEMMA AnswerTypes ==
  ASSUME NestTypeOK, NEW at \in {"none", "patch", "get", "retry", "reget", "done", "refused", "lost"},
         NEW v \in Nat
  PROVE  /\ [asking EXCEPT !.at = at] \in Asking
         /\ [asking EXCEPT !.at = at, !.move.cursor = v] \in Asking
         /\ [asking EXCEPT !.move.cursor = v, !.at = at] \in Asking
<1>1. asking \in Asking /\ asking.move \in Entry
  BY NestTypes DEF NestTypeOK
<1>2. [asking.move EXCEPT !.cursor = v] \in Entry
  BY <1>1 DEF Entry
<1> QED BY <1>1, <1>2 DEF Asking

LEMMA NestTypeStep ==
  ASSUME NestAssumption, NestTypeOK, AskingInv, PlanInv, NestNext
  PROVE  NestTypeOK'
<1>0. TreesOK /\ StacksOK /\ NestOK /\ AskOK /\ PlanOK /\ CountOK
  BY NestParts
<1>a. /\ TreeOK(tree) /\ moves \in Nat /\ others \in Nat
      /\ nested.parent \in [DeviceNodes -> DeviceNodes \cup {NoNode}]
      /\ nested.version \in [DeviceNodes -> Nat]
      /\ tree.version \in [DeviceNodes -> Nat] /\ tree.parent \in ParentMaps
      /\ DOMAIN tree.parent \in SUBSET TreeNodes
      /\ \A x \in DOMAIN tree.parent : tree.parent[x] \in Parents
  BY NestTypes, ParentMapsAre DEF TreeOK
<1>b. ASSUME moves < MaxMoves PROVE moves + 1 \in 0..MaxMoves
  BY <1>0, <1>b, NestAssumption DEF CountOK
<1>c. ASSUME others < MaxWrites PROVE others + 1 \in 0..MaxWrites
  BY <1>0, <1>c, NestAssumption DEF CountOK
<1>d. NotAsking \in Asking /\ NoPlan \in [at : {"none", "asked", "put", "done", "failed"},
        n : TreeNodes \cup {NoNode}, left : ParentMaps \cup {<<>>}, base : Nat]
  BY DEF NotAsking, NoMove, NoPlan, Asking, Entry
<1>e. ASSUME NEW n \in TreeNodes PROVE DropParents(n) \subseteq Parents
  BY <1>a DEF DropParents, TreeOK, Parents
<1>f. DeviceNodes \subseteq TreeNodes /\ DraftNodes \subseteq TreeNodes /\ NoNode \in Parents
      /\ TreeNodes \subseteq Parents
  BY DEF TreeNodes, Parents
<1>1. ASSUME NEW n \in TreeNodes, CommitLocalReparent(n) PROVE NestTypeOK'
  <2>1. PICK to \in DropParents(n) \ {tree.parent[n]} :
          /\ tree' = ApplyCanvasReparent(tree, n, to, 0)
          /\ PushCommitted([id |-> moves + 1, n |-> n, from |-> tree.parent[n],
                            to |-> to, cursor |-> 0])
    BY <1>1 DEF CommitLocalReparent
  <2>2. to \in Parents /\ tree.parent[n] \in Parents /\ 0 \in Nat
    BY <2>1, <1>1, <1>a, <1>e DEF CommitLocalReparent, OnTree
  <2>3. TreesOK'
    BY <2>1, <2>2, <1>a, ReparentMoves, NestAssumption DEF TreesOK
  <2>4. [id |-> moves + 1, n |-> n, from |-> tree.parent[n], to |-> to, cursor |-> 0] \in Entry
    BY <2>2, <1>a DEF Entry, Parents
  <2>5. StacksOK'
    BY <2>1, <2>4, PushTyped DEF StacksOK
  <2> QED BY <1>0, <1>1, <1>b, <2>3, <2>5, NestPartsNext
          DEF CommitLocalReparent, Dropping, NestOK, AskOK, PlanOK, CountOK
<1>2. ASSUME NEW n \in TreeNodes, RequestPublishedReparent(n) PROVE NestTypeOK'
  <2>1. PICK to \in DropParents(n) \ {tree.parent[n]}, selected \in SUBSET DraftNodes :
          /\ asking' = [way |-> "forward", at |-> "patch", locked |-> selected \cup {n},
                        move |-> [id |-> moves + 1, n |-> n, from |-> tree.parent[n],
                                  to |-> to, cursor |-> tree.version[n]]]
          /\ tree' = ApplyCanvasReparent(tree, n, to, tree.version[n])
    BY <1>2 DEF RequestPublishedReparent
  <2>2. to \in Parents /\ tree.parent[n] \in Parents /\ tree.version[n] \in Nat
    BY <2>1, <1>2, <1>a, <1>e DEF RequestPublishedReparent, OnTree
  <2>3. TreesOK'
    BY <2>1, <2>2, <1>a, ReparentMoves, NestAssumption DEF TreesOK
  <2>4. [id |-> moves + 1, n |-> n, from |-> tree.parent[n],
         to |-> to, cursor |-> tree.version[n]] \in Entry
    BY <2>2, <1>a DEF Entry, Parents
  <2>5. AskOK'
    BY <2>1, <2>4, <1>f DEF AskOK, Asking
  <2> QED BY <1>0, <1>2, <1>b, <2>3, <2>5, NestPartsNext
          DEF RequestPublishedReparent, Dropping, NestOK, StacksOK, PlanOK, CountOK
<1>3. ASSUME NEW n \in TreeNodes, BuildUnconvertPlan(n) PROVE NestTypeOK'
  <2>1. CandidateLayout(tree.parent, n) \in ParentMaps
    BY <1>a, KeptIs DEF CandidateLayout
  <2>2. PlanOK'
    BY <1>3, <2>1 DEF BuildUnconvertPlan, PlanOK, NoPlan
  <2> QED BY <1>0, <1>3, <1>b, <2>2, NestPartsNext
          DEF BuildUnconvertPlan, NestOK, StacksOK, AskOK, TreesOK, CountOK
<1>4. ASSUME NEW n \in TreeNodes, ConvertContainer(n) PROVE NestTypeOK'
  <2>1. TreesOK'
    BY <1>0, <1>4 DEF ConvertContainer, TreesOK, TreeOK, OnTree
  <2> QED BY <1>0, <1>4, <2>1, NestPartsNext
          DEF ConvertContainer, NestOK, StacksOK, AskOK, PlanOK, CountOK
<1>5. ASSUME NEW way \in {"undo", "redo"}, RequestLocalDirection(way) PROVE NestTypeOK'
  <2>1. StackOf(way) \in Seq(Entry) /\ StackOf(way) # <<>>
    BY <1>0, <1>5 DEF StacksOK, StackOf, RequestLocalDirection
  <2>2. Top(StackOf(way)) \in Entry
    BY <2>1, PopIsPushed
  <2>3. StacksOK'
    BY <1>5, <2>1, <2>2, ReplayTyped DEF StacksOK, RequestLocalDirection
  <2>4. Top(StackOf(way)).n \in TreeNodes /\ GoesTo(way, Top(StackOf(way))) \in Parents /\ 0 \in Nat
    BY <1>5, <1>f, <2>2, EntryGoes DEF RequestLocalDirection
  <2>5. tree' = ApplyCanvasReparent(tree, Top(StackOf(way)).n, GoesTo(way, Top(StackOf(way))), 0)
    BY <1>5 DEF RequestLocalDirection
  <2>6. TreesOK'
    BY <2>4, <2>5, <1>a, ReparentMoves, NestAssumption DEF TreesOK
  <2> QED BY <1>0, <1>5, <2>3, <2>6, NestPartsNext
          DEF RequestLocalDirection, Dropping, NestOK, AskOK, PlanOK, CountOK
<1>6. ASSUME NEW way \in {"undo", "redo"}, RequestApiDirection(way) PROVE NestTypeOK'
  <2>1. StackOf(way) \in Seq(Entry) /\ StackOf(way) # <<>>
    BY <1>0, <1>6 DEF StacksOK, StackOf, RequestApiDirection
  <2>2. Top(StackOf(way)) \in Entry
    BY <2>1, PopIsPushed
  <2>3. AskOK'
    BY <1>6, <2>2, <1>d DEF RequestApiDirection, AskOK, Asking, NotAsking
  <2> QED BY <1>0, <1>6, <1>b, <2>3, NestPartsNext
          DEF RequestApiDirection, NestOK, StacksOK, TreesOK, PlanOK, CountOK
<1>7. ASSUME NEW at, NEW stale \in {"get", "reget"}, at # "none", Patch(at, stale)
      PROVE  NestTypeOK'
  <2>1. busy
    BY <1>7 DEF Patch, busy, AskingInv, NotAsking
  <2>2. asking.move.n \in DeviceNodes
    BY <2>1, AskedFor
  <2>3. TreesOK' /\ StacksOK' /\ PlanOK' /\ CountOK' /\ drawnLayout' = drawnLayout
        /\ dropped' = dropped
    BY <1>0, <1>7 DEF Patch, Replied, TreesOK, StacksOK, PlanOK, CountOK
  <2>4. CASE asking.move.cursor # nested.version[asking.move.n]
    BY <1>0, <1>7, <2>3, <2>4, AnswerTypes, NestPartsNext DEF Patch, Replied, AskOK, NestOK
  <2>5. CASE asking.move.cursor = nested.version[asking.move.n] /\ ~ValidParent(asking.move.n, n_to)
    BY <1>0, <1>7, <2>3, <2>5, AnswerTypes, NestPartsNext DEF Patch, Replied, AskOK, NestOK
  <2>6. CASE asking.move.cursor = nested.version[asking.move.n] /\ ValidParent(asking.move.n, n_to)
    <3>1. n_to \in DeviceNodes \cup {NoNode}
      BY <2>6 DEF ValidParent
    <3>2. /\ nested' = [parent  |-> [nested.parent EXCEPT ![asking.move.n] = n_to],
                        version |-> [nested.version EXCEPT ![asking.move.n] = @ + 1]]
          /\ moved' = moved \ {asking.move.n}
          /\ asking' = [asking EXCEPT !.at = "done",
                                      !.move.cursor = nested.version[asking.move.n] + 1]
      BY <1>7, <2>6 DEF Patch, Replied
    <3>3. NestOK'
      BY <1>0, <1>a, <2>2, <2>3, <3>1, <3>2 DEF NestOK
    <3>4. nested.version[asking.move.n] + 1 \in Nat
      BY <1>a, <2>2
    <3>5. AskOK'
      BY <3>2, <3>4, AnswerTypes DEF AskOK
    <3> QED BY <2>3, <3>3, <3>5, NestPartsNext
  <2> QED BY <2>4, <2>5, <2>6
<1>8. ASSUME NEW at, NEW otherwise \in {"retry", "refused"}, at # "none",
             FetchCurrent(at, otherwise)
      PROVE  NestTypeOK'
  <2>1. busy
    BY <1>8 DEF FetchCurrent, busy, AskingInv, NotAsking
  <2>2. nested.version[asking.move.n] \in Nat
    BY <2>1, AskedFor, <1>a
  <2>3. AskOK'
    BY <1>8, <2>2, AnswerTypes DEF FetchCurrent, Replied, AskOK
  <2> QED BY <1>0, <1>8, <2>3, NestPartsNext
          DEF FetchCurrent, Replied, NestOK, StacksOK, TreesOK, PlanOK, CountOK
<1>9. ASSUME RefuseRequest PROVE NestTypeOK'
  <2>1. AskOK'
    BY <1>9, <1>0 DEF RefuseRequest, Replied, AskOK, Asking
  <2> QED BY <1>0, <1>9, <2>1, NestPartsNext
          DEF RefuseRequest, Replied, NestOK, StacksOK, TreesOK, PlanOK, CountOK
<1>10. ASSUME CallRaises PROVE NestTypeOK'
  <2>1. AskOK'
    BY <1>10, <1>0 DEF CallRaises, AskOK, Asking
  <2> QED BY <1>0, <1>10, <1>c, <2>1, NestPartsNext
          DEF CallRaises, NestOK, StacksOK, TreesOK, PlanOK, CountOK
<1>11. ASSUME ResolveSuccess PROVE NestTypeOK'
  <2>1. busy
    BY <1>11 DEF ResolveSuccess, busy, AskingInv, NotAsking
  <2>2. /\ tree' = ApplyCanvasReparent(tree, asking.move.n, n_to, asking.move.cursor)
        /\ asking' = NotAsking
    BY <1>11 DEF ResolveSuccess, n_to
  <2>3. TreesOK'
    BY <2>1, <2>2, <1>a, AskedFor, ReparentMoves, NestAssumption DEF TreesOK
  <2>4. StacksOK'
    <3>1. CASE asking.way = "forward"
      BY <1>11, <2>1, <3>1, AskedFor, PushTyped DEF ResolveSuccess, StacksOK
    <3>2. CASE /\ asking.way # "forward" /\ StackOf(asking.way) # <<>>
               /\ Top(StackOf(asking.way)).id = asking.move.id
      <4>1. asking.way \in {"undo", "redo"}
        BY <1>0, <2>1, <3>2 DEF AskOK, Asking, busy
      <4>2. MoveEntry(asking.way, asking.move)
        BY <1>11, <3>2 DEF ResolveSuccess
      <4> QED BY <2>1, <3>2, <4>1, <4>2, AskedFor, ReplayTyped DEF StacksOK
    <3>3. CASE /\ asking.way # "forward"
               /\ ~(StackOf(asking.way) # <<>> /\ Top(StackOf(asking.way)).id = asking.move.id)
      BY <1>0, <1>11, <3>3 DEF ResolveSuccess, StacksOK
    <3> QED BY <3>1, <3>2, <3>3
  <2> QED BY <1>0, <1>11, <1>d, <2>2, <2>3, <2>4, NestPartsNext
          DEF ResolveSuccess, Dropping, NestOK, AskOK, PlanOK, CountOK
<1>12. ASSUME ResolveFailure PROVE NestTypeOK'
  <2>1. busy
    BY <1>12 DEF ResolveFailure, busy, AskingInv, NotAsking
  <2>2. tree.version[asking.move.n] \in Nat
    BY <2>1, <1>a, AskedFor
  <2>3. TreesOK'
    <3>1. CASE asking.way = "forward"
      <4>1. tree' = ApplyCanvasReparent(tree, asking.move.n, asking.move.from,
                                        tree.version[asking.move.n])
        BY <1>12, <3>1 DEF ResolveFailure, Rollback
      <4> QED BY <2>1, <2>2, <4>1, <1>a, AskedFor, ReparentMoves, NestAssumption DEF TreesOK
    <3>2. CASE asking.way # "forward"
      BY <1>0, <1>12, <3>2 DEF ResolveFailure, Rollback, TreesOK
    <3> QED BY <3>1, <3>2
  <2> QED BY <1>0, <1>12, <1>d, <2>3, NestPartsNext
          DEF ResolveFailure, Dropping, NestOK, StacksOK, AskOK, PlanOK, CountOK
<1>13. ASSUME ConfirmUnconvert PROVE NestTypeOK'
  <2>1. PlanOK'
    BY <1>0, <1>13 DEF ConfirmUnconvert, PlanOK, NestOK
  <2> QED BY <1>0, <1>13, <2>1, NestPartsNext
          DEF ConfirmUnconvert, NestOK, StacksOK, AskOK, TreesOK, CountOK
<1>14. ASSUME CancelUnconvert \/ UnconvertFailed PROVE NestTypeOK'
  BY <1>0, <1>14, <1>d, NestPartsNext
     DEF CancelUnconvert, UnconvertFailed, NestOK, StacksOK, AskOK, TreesOK, PlanOK, CountOK
<1>15. ASSUME PutPersonalDraft PROVE NestTypeOK'
  <2>1. plan.left \in ParentMaps /\ drawnLayout.version + 1 \in Nat
    BY <1>0, <1>15 DEF PutPersonalDraft, PlanInv, NestOK
  <2>2. PlanOK' /\ NestOK'
    BY <1>0, <1>15, <2>1 DEF PutPersonalDraft, PlanOK, NestOK
  <2> QED BY <1>0, <1>15, <2>2, NestPartsNext
          DEF PutPersonalDraft, StacksOK, AskOK, TreesOK, CountOK
<1>16. ASSUME ApplyUnconvertPlan PROVE NestTypeOK'
  <2>1. TreesOK'
    <3>1. CASE OnTree(plan.n)
      <4> DEFINE k == Kept(tree.parent, plan.n)
                 w == tree.container \ ({plan.n} \cup Inside(tree.parent, plan.n))
      <4>1. k \in ParentMaps /\ DOMAIN k = DOMAIN tree.parent \ Inside(tree.parent, plan.n)
        BY <1>a, KeptIs
      <4>2. w \subseteq DOMAIN k /\ w \in SUBSET TreeNodes
        BY <1>a, <4>1 DEF TreeOK
      <4>3. tree' = [tree EXCEPT !.parent = k, !.container = w]
        BY <1>16, <3>1, <1>a DEF ApplyUnconvertPlan, TreeOK
      <4> HIDE DEF k, w
      <4> QED BY <1>a, <4>1, <4>2, <4>3 DEF TreesOK, TreeOK
    <3>2. CASE ~OnTree(plan.n)
      BY <1>0, <1>16, <3>2 DEF ApplyUnconvertPlan, TreesOK
    <3> QED BY <3>1, <3>2
  <2> QED BY <1>0, <1>16, <1>d, <2>1, NestPartsNext
          DEF ApplyUnconvertPlan, NestOK, StacksOK, AskOK, PlanOK, CountOK
<1>17. ASSUME Autosave PROVE NestTypeOK'
  <2>1. NestOK'
    BY <1>0, <1>17, <1>a DEF Autosave, NestOK
  <2> QED BY <1>0, <1>17, <1>c, <2>1, NestPartsNext
          DEF Autosave, StacksOK, AskOK, TreesOK, PlanOK, CountOK
<1>18. ASSUME NEW n \in DeviceNodes, OthersMove(n) PROVE NestTypeOK'
  <2>1. PICK to \in DeviceNodes \cup {NoNode} :
          nested' = [parent  |-> [nested.parent EXCEPT ![n] = to],
                     version |-> [nested.version EXCEPT ![n] = @ + 1]]
    BY <1>18 DEF OthersMove
  <2>2. NestOK'
    BY <1>0, <1>18, <1>a, <2>1 DEF OthersMove, NestOK
  <2> QED BY <1>0, <1>18, <1>c, <2>2, NestPartsNext
          DEF OthersMove, StacksOK, AskOK, TreesOK, PlanOK, CountOK
<1>19. ASSUME NEW n \in DeviceNodes, ChangeField(n) PROVE NestTypeOK'
  <2>1. NestOK'
    BY <1>0, <1>19, <1>a DEF ChangeField, NestOK
  <2> QED BY <1>0, <1>19, <1>c, <2>1, NestPartsNext
          DEF ChangeField, StacksOK, AskOK, TreesOK, PlanOK, CountOK
<1> QED BY <1>1, <1>2, <1>3, <1>4, <1>5, <1>6, <1>7, <1>8, <1>9, <1>10, <1>11, <1>12, <1>13,
           <1>14, <1>15, <1>16, <1>17, <1>18, <1>19
        DEF NestNext, FirstPatch, FirstGet, RetryPatch, SecondGet


(***************************************************************************)
(* The parts of the invariant, one at a time.                              *)
(***************************************************************************)

\* A PATCH finds an old version, is refused, or moves the device (request_reparent).
LEMMA PatchAnswers ==
  ASSUME NestTypeOK, NEW at, NEW stale \in {"get", "reget"}, Patch(at, stale)
  PROVE  /\ asking.at = at
         /\ asking'.way = asking.way
         /\ asking'.move.n = asking.move.n /\ asking'.move.id = asking.move.id
         /\ asking'.move.from = asking.move.from /\ asking'.move.to = asking.move.to
         /\ UNCHANGED <<tree, drawnLayout, undoMoves, redoMoves, plan, moves, others, dropped>>
         /\ \/ asking'.at \in {stale, "refused"} /\ UNCHANGED <<nested, moved>>
            \/ /\ asking'.at = "done" /\ ValidParent(asking.move.n, n_to)
               /\ nested'.parent = [nested.parent EXCEPT ![asking.move.n] = n_to]
               /\ moved' = moved \ {asking.move.n}
<1>1. asking \in Asking /\ asking.move \in Entry
  BY NestTypes DEF NestTypeOK
<1>2. ASSUME NEW w PROVE /\ [asking EXCEPT !.at = w].way = asking.way
                         /\ [asking EXCEPT !.at = w].at = w
                         /\ [asking EXCEPT !.at = w].move = asking.move
  BY <1>1 DEF Asking
<1>3. CASE asking.move.cursor # nested.version[asking.move.n]
  <2>1. asking' = [asking EXCEPT !.at = stale] /\ UNCHANGED <<nested, moved>>
    BY <1>3 DEF Patch, Replied
  <2> QED BY <1>2, <2>1 DEF Patch, Replied
<1>4. CASE asking.move.cursor = nested.version[asking.move.n] /\ ~ValidParent(asking.move.n, n_to)
  <2>1. asking' = [asking EXCEPT !.at = "refused"] /\ UNCHANGED <<nested, moved>>
    BY <1>4 DEF Patch, Replied
  <2> QED BY <1>2, <2>1 DEF Patch, Replied
<1>5. CASE asking.move.cursor = nested.version[asking.move.n] /\ ValidParent(asking.move.n, n_to)
  <2>1. /\ asking' = [asking EXCEPT !.at = "done",
                                    !.move.cursor = nested.version[asking.move.n] + 1]
        /\ nested'.parent = [nested.parent EXCEPT ![asking.move.n] = n_to]
        /\ moved' = moved \ {asking.move.n}
    BY <1>5 DEF Patch, Replied
  <2>2. /\ asking'.way = asking.way /\ asking'.at = "done"
        /\ asking'.move = [asking.move EXCEPT !.cursor = nested.version[asking.move.n] + 1]
    BY <1>1, <2>1 DEF Asking
  <2>3. /\ asking'.move.n = asking.move.n /\ asking'.move.id = asking.move.id
        /\ asking'.move.from = asking.move.from /\ asking'.move.to = asking.move.to
    BY <1>1, <2>2 DEF Entry
  <2> QED BY <1>5, <2>1, <2>2, <2>3 DEF Patch, Replied
<1> QED BY <1>3, <1>4, <1>5

\* A GET finds the device where it should go, or not (request_reparent).
LEMMA FetchAnswers ==
  ASSUME NestTypeOK, NEW at, NEW otherwise \in {"retry", "refused"}, FetchCurrent(at, otherwise)
  PROVE  /\ asking.at = at
         /\ asking'.way = asking.way
         /\ asking'.move.n = asking.move.n /\ asking'.move.id = asking.move.id
         /\ asking'.move.from = asking.move.from /\ asking'.move.to = asking.move.to
         /\ UNCHANGED <<nested, tree, drawnLayout, undoMoves, redoMoves, plan, moves, others, dropped>>
         /\ \/ asking'.at = otherwise /\ moved' = moved
            \/ /\ asking'.at = "done" /\ nested.parent[asking.move.n] = n_to
               /\ moved' = moved \ {asking.move.n}
<1>1. asking \in Asking /\ asking.move \in Entry
  BY NestTypes DEF NestTypeOK
<1>2. PICK w : /\ asking' = [asking EXCEPT !.move.cursor = nested.version[asking.move.n], !.at = w]
               /\ w = IF nested.parent[asking.move.n] = n_to THEN "done" ELSE otherwise
  BY DEF FetchCurrent, Replied
<1>3. /\ asking'.way = asking.way /\ asking'.at = w
      /\ asking'.move = [asking.move EXCEPT !.cursor = nested.version[asking.move.n]]
  BY <1>1, <1>2 DEF Asking
<1>4. /\ asking'.move.n = asking.move.n /\ asking'.move.id = asking.move.id
      /\ asking'.move.from = asking.move.from /\ asking'.move.to = asking.move.to
  BY <1>1, <1>3 DEF Entry
<1> QED BY <1>2, <1>3, <1>4 DEF FetchCurrent, Replied

\* A move is of a device from when it is asked for until it is resolved.
LEMMA AskingStep ==
  ASSUME NestTypeOK, AskingInv, NestNext
  PROVE  AskingInv'
<1>1. ASSUME NEW n \in TreeNodes, RequestPublishedReparent(n) PROVE AskingInv'
  BY <1>1 DEF RequestPublishedReparent, AskingInv
<1>2. ASSUME NEW way \in {"undo", "redo"}, RequestApiDirection(way) PROVE AskingInv'
  <2>1. asking' = [NotAsking EXCEPT !.way = way, !.at = "patch", !.move = Top(StackOf(way))]
    BY <1>2 DEF RequestApiDirection
  <2>2. asking'.way = way /\ asking'.at = "patch" /\ asking'.move = Top(StackOf(way))
    BY <2>1 DEF NotAsking
  <2> QED BY <1>2, <2>2 DEF RequestApiDirection, AskingInv
<1>3. ASSUME NEW at \in {"patch", "retry"}, NEW stale \in {"get", "reget"}, Patch(at, stale)
      PROVE  AskingInv'
  <2>1. asking.way # "none" /\ asking \in Asking
    BY <1>3 DEF AskingInv, Patch, NotAsking, NestTypeOK
  <2>2. asking'.way = asking.way /\ asking'.at # "none" /\ asking'.move.n = asking.move.n
    BY <1>3, <2>1, PatchAnswers
  <2> QED BY <2>1, <2>2 DEF AskingInv
<1>4. ASSUME NEW at \in {"get", "reget"}, NEW otherwise \in {"retry", "refused"},
             FetchCurrent(at, otherwise)
      PROVE  AskingInv'
  <2>1. asking.way # "none" /\ asking \in Asking
    BY <1>4 DEF AskingInv, FetchCurrent, NotAsking, NestTypeOK
  <2>2. asking'.way = asking.way /\ asking'.at # "none" /\ asking'.move.n = asking.move.n
    BY <1>4, <2>1 DEF FetchCurrent, Replied, Asking, Entry
  <2> QED BY <2>1, <2>2 DEF AskingInv
<1>5. ASSUME RefuseRequest \/ CallRaises PROVE AskingInv'
  <2>1. asking.way # "none" /\ asking \in Asking
    BY <1>5 DEF AskingInv, RefuseRequest, CallRaises, NotAsking, NestTypeOK
  <2>2. asking'.way = asking.way /\ asking'.at # "none" /\ asking'.move = asking.move
    BY <1>5, <2>1 DEF RefuseRequest, CallRaises, Replied, Asking
  <2> QED BY <2>1, <2>2 DEF AskingInv
<1>6. ASSUME ResolveSuccess \/ ResolveFailure PROVE AskingInv'
  BY <1>6 DEF ResolveSuccess, ResolveFailure, AskingInv, NotAsking
<1>7. ASSUME asking' = asking PROVE AskingInv'
  BY <1>7 DEF AskingInv
<1>8. ASSUME NEW n \in TreeNodes,
             CommitLocalReparent(n) \/ BuildUnconvertPlan(n) \/ ConvertContainer(n)
      PROVE  asking' = asking
  BY <1>8 DEF CommitLocalReparent, BuildUnconvertPlan, ConvertContainer
<1>9. ASSUME NEW way \in {"undo", "redo"}, RequestLocalDirection(way) PROVE asking' = asking
  BY <1>9 DEF RequestLocalDirection
<1>10. ASSUME ConfirmUnconvert \/ CancelUnconvert \/ PutPersonalDraft \/ ApplyUnconvertPlan
                \/ UnconvertFailed \/ Autosave
       PROVE  asking' = asking
  BY <1>10 DEF ConfirmUnconvert, CancelUnconvert, PutPersonalDraft, ApplyUnconvertPlan,
               UnconvertFailed, Autosave
<1>11. ASSUME NEW n \in DeviceNodes, OthersMove(n) \/ ChangeField(n) PROVE asking' = asking
  BY <1>11 DEF OthersMove, ChangeField
<1> QED BY <1>1, <1>2, <1>3, <1>4, <1>5, <1>6, <1>7, <1>8, <1>9, <1>10, <1>11
        DEF NestNext, FirstPatch, FirstGet, RetryPatch, SecondGet

\* A parent that the server accepts makes no circle of devices (_creates_cycle).
LEMMA ValidKeepsForest ==
  ASSUME NestAssumption, NestTypeOK, Forest(nested.parent), NEW n \in DeviceNodes, NEW to,
         ValidParent(n, to)
  PROVE  Forest([nested.parent EXCEPT ![n] = to])
<1> DEFINE q == [nested.parent EXCEPT ![n] = to]
<1>1. nested.parent \in [DeviceNodes -> DeviceNodes \cup {NoNode}] /\ DeviceNodes \subseteq TreeNodes
      /\ DOMAIN nested.parent = DeviceNodes /\ DOMAIN q = DeviceNodes
  BY NestTypes DEF TreeNodes
<1>2. to # n /\ (to \in TreeNodes => n \notin Above(nested.parent, to))
  BY <1>1, NestAssumption DEF ValidParent
<1>3. ForestOf(DeviceNodes, nested.parent)
  BY <1>1 DEF Forest, ForestOf
<1>4. q[n] = to /\ \A x \in DeviceNodes \ {n} : q[x] = nested.parent[x]
  BY <1>1
<1>5. ForestOf(DeviceNodes, q)
  BY <1>1, <1>2, <1>3, <1>4, MoveKeepsForest, NestAssumption
<1> QED BY <1>1, <1>5 DEF Forest, ForestOf

LEMMA ForestStep ==
  ASSUME NestAssumption, NestTypeOK, AskingInv, Forest(nested.parent), NestNext
  PROVE  Forest(nested'.parent)
<1>1. ASSUME NEW at \in {"patch", "retry"}, NEW stale \in {"get", "reget"}, Patch(at, stale)
      PROVE  Forest(nested'.parent)
  <2>1. busy
    BY <1>1 DEF Patch, busy, AskingInv, NotAsking
  <2>2. asking.move.n \in DeviceNodes
    BY <2>1, AskedFor
  <2>3. nested' = nested \/
        (ValidParent(asking.move.n, n_to) /\
           nested'.parent = [nested.parent EXCEPT ![asking.move.n] = n_to])
    BY <1>1 DEF Patch
  <2> QED BY <2>2, <2>3, ValidKeepsForest
<1>2. ASSUME NEW n \in DeviceNodes, OthersMove(n) PROVE Forest(nested'.parent)
  <2>1. PICK to \in DeviceNodes \cup {NoNode} :
          ValidParent(n, to) /\ nested'.parent = [nested.parent EXCEPT ![n] = to]
    BY <1>2 DEF OthersMove
  <2> QED BY <2>1, ValidKeepsForest
<1>3. ASSUME NEW n \in DeviceNodes, ChangeField(n) PROVE Forest(nested'.parent)
  <2>1. nested'.parent = nested.parent
    BY <1>3, NestTypes DEF ChangeField
  <2> QED BY <2>1
<1>4. ASSUME nested' = nested PROVE Forest(nested'.parent)
  BY <1>4
<1>5. ASSUME NEW n \in TreeNodes,
             CommitLocalReparent(n) \/ BuildUnconvertPlan(n) \/ ConvertContainer(n)
               \/ RequestPublishedReparent(n)
      PROVE  nested' = nested
  BY <1>5 DEF CommitLocalReparent, BuildUnconvertPlan, ConvertContainer, RequestPublishedReparent
<1>6. ASSUME NEW way \in {"undo", "redo"}, RequestLocalDirection(way) \/ RequestApiDirection(way)
      PROVE  nested' = nested
  BY <1>6 DEF RequestLocalDirection, RequestApiDirection
<1>7. ASSUME ConfirmUnconvert \/ CancelUnconvert \/ PutPersonalDraft \/ ApplyUnconvertPlan
                \/ UnconvertFailed \/ Autosave \/ ResolveSuccess \/ ResolveFailure
                \/ RefuseRequest \/ CallRaises \/ FirstGet \/ SecondGet
      PROVE  nested' = nested
  BY <1>7 DEF ConfirmUnconvert, CancelUnconvert, PutPersonalDraft, ApplyUnconvertPlan,
              UnconvertFailed, Autosave, ResolveSuccess, ResolveFailure, RefuseRequest, CallRaises,
              FirstGet, SecondGet, FetchCurrent
<1> QED BY <1>1, <1>2, <1>3, <1>4, <1>5, <1>6, <1>7 DEF NestNext, FirstPatch, RetryPatch

\* A plan is of the tree unless a node has changed containers, and what is saved
\* is the plan (build_unconvert_plan, apply_unconvert_plan).
LEMMA PlanStep ==
  ASSUME NestTypeOK, PlanInv, NestNext
  PROVE  PlanInv'
<1>0. tree \in [parent : ParentMaps, version : [DeviceNodes -> Nat], container : SUBSET TreeNodes]
      /\ plan \in [at : {"none", "asked", "put", "done", "failed"}, n : TreeNodes \cup {NoNode},
                   left : ParentMaps \cup {<<>>}, base : Nat]
      /\ drawnLayout \in [parent : ParentMaps, version : Nat]
  BY DEF NestTypeOK
<1>1. ASSUME plan' = plan, dropped' = TRUE, drawnLayout' = drawnLayout PROVE PlanInv'
  BY <1>1 DEF PlanInv
<1>2. ASSUME plan' = plan, dropped' = dropped, drawnLayout' = drawnLayout, tree' = tree PROVE PlanInv'
  BY <1>2 DEF PlanInv, OnTree
<1>3. ASSUME NEW n \in TreeNodes, CommitLocalReparent(n) \/ RequestPublishedReparent(n) PROVE PlanInv'
  BY <1>1, <1>3 DEF CommitLocalReparent, RequestPublishedReparent, Dropping
<1>4. ASSUME NEW n \in TreeNodes, BuildUnconvertPlan(n) PROVE PlanInv'
  <2>1. plan'.at = "asked" /\ plan'.n = n /\ plan'.left = CandidateLayout(tree.parent, n)
        /\ tree' = tree /\ OnTree(n)
    BY <1>4 DEF BuildUnconvertPlan, NoPlan
  <2>2. CandidateLayout(tree.parent, n) \in ParentMaps
    BY <1>0, KeptIs DEF CandidateLayout
  <2> QED BY <2>1, <2>2 DEF PlanInv, OnTree
<1>5. ASSUME NEW n \in TreeNodes, ConvertContainer(n) PROVE PlanInv'
  <2>1. tree'.parent = tree.parent
    BY <1>0, <1>5 DEF ConvertContainer
  <2> QED BY <1>5, <2>1 DEF ConvertContainer, PlanInv, OnTree
<1>6. ASSUME NEW way \in {"undo", "redo"}, RequestLocalDirection(way) PROVE PlanInv'
  BY <1>1, <1>6 DEF RequestLocalDirection, Dropping
<1>7. ASSUME NEW way \in {"undo", "redo"}, RequestApiDirection(way) PROVE PlanInv'
  BY <1>2, <1>7 DEF RequestApiDirection
<1>8. ASSUME FirstPatch \/ FirstGet \/ RetryPatch \/ SecondGet \/ RefuseRequest PROVE PlanInv'
  BY <1>2, <1>8 DEF FirstPatch, FirstGet, RetryPatch, SecondGet, Patch, FetchCurrent,
                    RefuseRequest, Replied
<1>9. ASSUME CallRaises PROVE PlanInv'
  BY <1>2, <1>9 DEF CallRaises
<1>10. ASSUME ResolveSuccess \/ ResolveFailure PROVE PlanInv'
  BY <1>1, <1>10 DEF ResolveSuccess, ResolveFailure, Dropping
<1>11. ASSUME ConfirmUnconvert PROVE PlanInv'
  <2>1. plan'.at = "put" /\ plan'.n = plan.n /\ plan'.left = plan.left
    BY <1>0, <1>11 DEF ConfirmUnconvert
  <2> QED BY <1>11, <2>1 DEF ConfirmUnconvert, PlanInv, OnTree
<1>12. ASSUME CancelUnconvert \/ UnconvertFailed \/ ApplyUnconvertPlan PROVE PlanInv'
  BY <1>12 DEF CancelUnconvert, UnconvertFailed, ApplyUnconvertPlan, PlanInv, NoPlan
<1>13. ASSUME PutPersonalDraft PROVE PlanInv'
  <2>1. CASE plan.base = drawnLayout.version
    <3>1. plan'.at = "done" /\ plan'.n = plan.n /\ plan'.left = plan.left
          /\ drawnLayout'.parent = plan.left
      BY <1>0, <1>13, <2>1 DEF PutPersonalDraft
    <3> QED BY <1>13, <3>1 DEF PutPersonalDraft, PlanInv, OnTree
  <2>2. CASE plan.base # drawnLayout.version
    <3>1. plan'.at = "failed" /\ plan'.n = plan.n /\ plan'.left = plan.left
      BY <1>0, <1>13, <2>2 DEF PutPersonalDraft
    <3> QED BY <1>13, <3>1 DEF PutPersonalDraft, PlanInv, OnTree
  <2> QED BY <2>1, <2>2
<1>14. ASSUME Autosave PROVE PlanInv'
  BY <1>14 DEF Autosave, PlanInv, OnTree
<1>15. ASSUME NEW n \in DeviceNodes, OthersMove(n) \/ ChangeField(n) PROVE PlanInv'
  BY <1>2, <1>15 DEF OthersMove, ChangeField
<1> QED BY <1>3, <1>4, <1>5, <1>6, <1>7, <1>8, <1>9, <1>10, <1>11, <1>12, <1>13, <1>14, <1>15
        DEF NestNext

\* The page shows the layout that it has saved, if nothing moved (apply_unconvert_plan).
LEMMA ReloadStepHolds ==
  ASSUME NestTypeOK, PlanInv, [NestNext]_nestVars
  PROVE  ReloadStep
<1> SUFFICES ASSUME plan.at = "done", plan' = NoPlan, ~dropped
             PROVE  tree'.parent = drawnLayout.parent
  BY DEF ReloadStep
<1>1. plan' # plan
  BY DEF NoPlan
<1>2. ApplyUnconvertPlan
  <2>1. ASSUME NEW n \in TreeNodes, CommitLocalReparent(n) \/ RequestPublishedReparent(n)
                 \/ BuildUnconvertPlan(n) \/ ConvertContainer(n)
        PROVE  FALSE
    BY <1>1, <2>1 DEF CommitLocalReparent, RequestPublishedReparent, BuildUnconvertPlan,
                      ConvertContainer
  <2>2. ASSUME NEW way \in {"undo", "redo"}, RequestLocalDirection(way) \/ RequestApiDirection(way)
        PROVE  FALSE
    BY <1>1, <2>2 DEF RequestLocalDirection, RequestApiDirection
  <2>3. ASSUME FirstPatch \/ FirstGet \/ RetryPatch \/ SecondGet \/ RefuseRequest \/ CallRaises
                 \/ ResolveSuccess \/ ResolveFailure
        PROVE  FALSE
    BY <1>1, <2>3 DEF FirstPatch, FirstGet, RetryPatch, SecondGet, Patch, FetchCurrent,
                      RefuseRequest, Replied, CallRaises, ResolveSuccess, ResolveFailure
  <2>4. ASSUME ConfirmUnconvert \/ CancelUnconvert \/ PutPersonalDraft \/ UnconvertFailed \/ Autosave
        PROVE  FALSE
    BY <1>1, <2>4 DEF ConfirmUnconvert, CancelUnconvert, PutPersonalDraft, UnconvertFailed, Autosave
  <2>5. ASSUME NEW n \in DeviceNodes, OthersMove(n) \/ ChangeField(n) PROVE FALSE
    BY <1>1, <2>5 DEF OthersMove, ChangeField
  <2>6. NestNext
    BY <1>1 DEF nestVars
  <2> QED BY <2>1, <2>2, <2>3, <2>4, <2>5, <2>6 DEF NestNext
<1>3. OnTree(plan.n) /\ drawnLayout.parent = Kept(tree.parent, plan.n)
  BY DEF PlanInv, CandidateLayout
<1>4. tree'.parent = Kept(tree.parent, plan.n)
  BY <1>2, <1>3 DEF ApplyUnconvertPlan, NestTypeOK
<1> QED BY <1>3, <1>4


\* Nothing is said anew of a device that stays where it was, on the canvas and at the server.
LEMMA ShownFrame ==
  ASSUME ShownInv, asking' = asking,
         \A x \in (DeviceNodes \cap DOMAIN tree'.parent) \ moved' :
            /\ x \in DOMAIN tree.parent /\ x \notin moved
            /\ tree'.parent[x] = tree.parent[x] /\ nested'.parent[x] = nested.parent[x]
  PROVE  ShownInv'
BY DEF ShownInv, busy, n_to, GoesTo

\* Where the device goes does not depend on what was answered.
LEMMA AnswerGoes ==
  ASSUME asking'.way = asking.way, asking'.move.from = asking.move.from,
         asking'.move.to = asking.move.to, asking'.move.n = asking.move.n
  PROVE  n_to' = n_to /\ (busy' <=> busy)
BY DEF n_to, GoesTo, busy

LEMMA ShownStep ==
  ASSUME NestAssumption, NestTypeOK, AskingInv, ShownInv, NestNext
  PROVE  ShownInv'
<1>a. /\ TreeOK(tree) /\ DOMAIN tree.parent \in SUBSET TreeNodes
      /\ tree.version \in [DeviceNodes -> Nat]
      /\ \A x \in DOMAIN tree.parent : tree.parent[x] \in Parents
      /\ nested.parent \in [DeviceNodes -> DeviceNodes \cup {NoNode}]
  BY NestTypes, ParentMapsAre DEF TreeOK
<1>b. DeviceNodes \cap DraftNodes = {} /\ DeviceNodes \subseteq TreeNodes /\ DraftNodes \subseteq TreeNodes
      /\ NoNode \in Parents /\ TreeNodes \subseteq Parents
  BY NestAssumption DEF TreeNodes, Parents
<1>e. ASSUME NEW n \in TreeNodes PROVE DropParents(n) \subseteq Parents
  BY <1>a DEF DropParents, TreeOK, Parents
<1>1. ASSUME NEW n \in TreeNodes, CommitLocalReparent(n) PROVE ShownInv'
  <2>1. PICK to \in DropParents(n) : tree' = ApplyCanvasReparent(tree, n, to, 0)
    BY <1>1 DEF CommitLocalReparent
  <2>2. to \in Parents /\ 0 \in Nat
    BY <2>1, <1>e
  <2>3. DOMAIN tree'.parent = DOMAIN tree.parent
        /\ \A x \in DOMAIN tree.parent : tree'.parent[x] = IF x = n THEN to ELSE tree.parent[x]
    BY <2>1, <2>2, <1>a, ReparentMoves, NestAssumption
  <2> QED BY <2>3, <1>1, <1>b, ShownFrame DEF CommitLocalReparent
<1>2. ASSUME NEW n \in TreeNodes, RequestPublishedReparent(n) PROVE ShownInv'
  <2>1. PICK to \in DropParents(n), selected \in SUBSET DraftNodes :
          /\ asking' = [way |-> "forward", at |-> "patch", locked |-> selected \cup {n},
                        move |-> [id |-> moves + 1, n |-> n, from |-> tree.parent[n],
                                  to |-> to, cursor |-> tree.version[n]]]
          /\ tree' = ApplyCanvasReparent(tree, n, to, tree.version[n])
    BY <1>2 DEF RequestPublishedReparent
  <2>2. to \in Parents /\ tree.version[n] \in Nat
    BY <2>1, <1>2, <1>a, <1>e DEF RequestPublishedReparent
  <2>3. DOMAIN tree'.parent = DOMAIN tree.parent
        /\ \A x \in DOMAIN tree.parent : tree'.parent[x] = IF x = n THEN to ELSE tree.parent[x]
    BY <2>1, <2>2, <1>a, ReparentMoves, NestAssumption
  <2>4. /\ asking'.way = "forward" /\ asking'.at = "patch"
        /\ asking'.move.n = n /\ asking'.move.from = tree.parent[n]
    BY <2>1
  <2>5. nested' = nested /\ moved' = moved /\ ~busy
    BY <1>2 DEF RequestPublishedReparent
  <2>6. \A x \in (DeviceNodes \cap DOMAIN tree.parent) \ moved : tree.parent[x] = nested.parent[x]
    BY <2>5 DEF ShownInv
  <2>7. busy' /\ n \in DeviceNodes /\ n \in DOMAIN tree.parent
    BY <2>4, <1>2 DEF busy, RequestPublishedReparent, OnTree
  <2> QED BY <2>3, <2>4, <2>5, <2>6, <2>7 DEF ShownInv, busy
<1>3. ASSUME NEW n \in TreeNodes, BuildUnconvertPlan(n) \/ ConvertContainer(n) PROVE ShownInv'
  <2>1. tree'.parent = tree.parent /\ nested' = nested /\ moved' = moved /\ asking' = asking
    BY <1>3, <1>a DEF BuildUnconvertPlan, ConvertContainer, TreeOK
  <2> QED BY <2>1, ShownFrame
<1>4. ASSUME NEW way \in {"undo", "redo"}, RequestLocalDirection(way) PROVE ShownInv'
  <2>1. StackOf(way) \in Seq(Entry) /\ StackOf(way) # <<>>
    BY <1>4, NestTypes DEF StackOf, RequestLocalDirection
  <2>2. PICK e \in Entry : e = Top(StackOf(way))
    BY <2>1, PopIsPushed
  <2>3. e.n \in DraftNodes /\ GoesTo(way, e) \in Parents /\ 0 \in Nat
        /\ tree' = ApplyCanvasReparent(tree, e.n, GoesTo(way, e), 0)
    BY <1>4, <2>2, EntryGoes DEF RequestLocalDirection
  <2>4. DOMAIN tree'.parent = DOMAIN tree.parent
        /\ \A x \in DOMAIN tree.parent :
             tree'.parent[x] = IF x = e.n THEN GoesTo(way, e) ELSE tree.parent[x]
    BY <2>3, <1>a, <1>b, ReparentMoves, NestAssumption
  <2> QED BY <2>3, <2>4, <1>4, <1>b, ShownFrame DEF RequestLocalDirection
<1>5. ASSUME NEW way \in {"undo", "redo"}, RequestApiDirection(way) PROVE ShownInv'
  <2>1. asking' = [NotAsking EXCEPT !.way = way, !.at = "patch", !.move = Top(StackOf(way))]
        /\ tree' = tree /\ nested' = nested /\ moved' = moved /\ ~busy
    BY <1>5 DEF RequestApiDirection
  <2>2. asking'.way = way /\ asking'.at = "patch"
    BY <2>1 DEF NotAsking
  <2>3. \A x \in (DeviceNodes \cap DOMAIN tree.parent) \ moved : tree.parent[x] = nested.parent[x]
    BY <2>1 DEF ShownInv
  <2> QED BY <2>1, <2>2, <2>3 DEF ShownInv
<1>6. ASSUME NEW at \in {"patch", "retry"}, NEW stale \in {"get", "reget"}, Patch(at, stale)
      PROVE  ShownInv'
  <2>1. busy
    BY <1>6 DEF Patch, busy, AskingInv, NotAsking
  <2>2. n_to' = n_to /\ busy' /\ asking'.move.n = asking.move.n /\ asking'.way = asking.way
        /\ asking'.move.from = asking.move.from /\ asking.at \in {"patch", "retry"} /\ tree' = tree
    BY <1>6, <2>1, PatchAnswers, AnswerGoes
  <2>3. CASE asking'.at \in {stale, "refused"} /\ UNCHANGED <<nested, moved>>
    BY <2>1, <2>2, <2>3 DEF ShownInv
  <2>4. CASE /\ asking'.at = "done" /\ ValidParent(asking.move.n, n_to)
             /\ nested'.parent = [nested.parent EXCEPT ![asking.move.n] = n_to]
             /\ moved' = moved \ {asking.move.n}
    <3>1. asking.move.n \in DeviceNodes
      BY <2>1, AskedFor
    <3>2. nested'.parent[asking.move.n] = n_to
          /\ \A x \in DeviceNodes \ {asking.move.n} : nested'.parent[x] = nested.parent[x]
      BY <2>4, <3>1, <1>a
    <3> QED BY <2>1, <2>2, <2>4, <3>2 DEF ShownInv
  <2> QED BY <1>6, <2>3, <2>4, PatchAnswers
<1>7. ASSUME NEW at \in {"get", "reget"}, NEW otherwise \in {"retry", "refused"},
             FetchCurrent(at, otherwise)
      PROVE  ShownInv'
  <2>1. busy
    BY <1>7 DEF FetchCurrent, busy, AskingInv, NotAsking
  <2>2. n_to' = n_to /\ busy' /\ asking'.move.n = asking.move.n /\ asking'.way = asking.way
        /\ asking'.move.from = asking.move.from /\ asking.at \in {"get", "reget"} /\ tree' = tree
        /\ nested' = nested
    BY <1>7, <2>1, FetchAnswers, AnswerGoes
  <2>3. CASE asking'.at = otherwise /\ moved' = moved
    BY <2>1, <2>2, <2>3 DEF ShownInv
  <2>4. CASE /\ asking'.at = "done" /\ nested.parent[asking.move.n] = n_to
             /\ moved' = moved \ {asking.move.n}
    BY <2>1, <2>2, <2>4 DEF ShownInv
  <2> QED BY <1>7, <2>3, <2>4, FetchAnswers
<1>8. ASSUME RefuseRequest \/ CallRaises PROVE ShownInv'
  <2>1. busy /\ asking \in Asking
    BY <1>8 DEF RefuseRequest, CallRaises, busy, AskingInv, NotAsking, NestTypeOK
  <2>2. /\ asking'.way = asking.way /\ asking'.move = asking.move
        /\ tree' = tree /\ nested' = nested /\ moved' = moved
        /\ \/ asking'.at = "lost"
           \/ asking'.at = "refused" /\ asking.at = "patch"
    BY <1>8, <2>1 DEF RefuseRequest, CallRaises, Replied, Asking
  <2>3. n_to' = n_to /\ busy'
    BY <2>1, <2>2, AnswerGoes
  <2> QED BY <2>1, <2>2, <2>3 DEF ShownInv
<1>9. ASSUME ResolveSuccess PROVE ShownInv'
  <2>1. busy
    BY <1>9 DEF ResolveSuccess, busy, AskingInv, NotAsking
  <2>2. /\ tree' = ApplyCanvasReparent(tree, asking.move.n, n_to, asking.move.cursor)
        /\ asking' = NotAsking /\ asking.at = "done" /\ nested' = nested /\ moved' = moved
    BY <1>9 DEF ResolveSuccess, n_to
  <2>3. DOMAIN tree'.parent = DOMAIN tree.parent
        /\ \A x \in DOMAIN tree.parent :
             tree'.parent[x] = IF x = asking.move.n THEN n_to ELSE tree.parent[x]
    <3>1. asking.move.n \in TreeNodes /\ n_to \in Parents /\ asking.move.cursor \in Nat
      BY <2>1, AskedFor
    <3> QED BY <2>2, <3>1, <1>a, ReparentMoves, NestAssumption
  <2>4. ~busy'
    BY <2>2 DEF busy, NotAsking
  <2> QED BY <2>1, <2>2, <2>3, <2>4 DEF ShownInv
<1>10. ASSUME ResolveFailure PROVE ShownInv'
  <2>1. busy
    BY <1>10 DEF ResolveFailure, busy, AskingInv, NotAsking
  <2>2. /\ asking' = NotAsking /\ asking.at = "refused" /\ nested' = nested /\ moved' = moved
        /\ tree' = Rollback(tree, asking)
    BY <1>10 DEF ResolveFailure
  <2>4. ~busy'
    BY <2>2 DEF busy, NotAsking
  <2>5. CASE asking.way = "forward"
    <3>1. tree.version[asking.move.n] \in Nat
      BY <2>1, <1>a, AskedFor
    <3>2. tree' = ApplyCanvasReparent(tree, asking.move.n, asking.move.from,
                                      tree.version[asking.move.n])
      BY <2>2, <2>5 DEF Rollback
    <3>3. DOMAIN tree'.parent = DOMAIN tree.parent
          /\ \A x \in DOMAIN tree.parent :
               tree'.parent[x] = IF x = asking.move.n THEN asking.move.from ELSE tree.parent[x]
      <4>1. asking.move.n \in TreeNodes /\ asking.move.from \in Parents
        BY <2>1, AskedFor
      <4>2. PICK v \in Nat : v = tree.version[asking.move.n]
        BY <3>1
      <4>3. PICK r : r = ApplyCanvasReparent(tree, asking.move.n, asking.move.from, v)
        OBVIOUS
      <4>4. DOMAIN r.parent = DOMAIN tree.parent
            /\ \A x \in DOMAIN tree.parent :
                 r.parent[x] = IF x = asking.move.n THEN asking.move.from ELSE tree.parent[x]
        BY <4>1, <4>3, <1>a, ReparentMoves, NestAssumption
      <4> QED BY <3>2, <4>2, <4>3, <4>4
    <3> QED BY <2>1, <2>2, <2>4, <2>5, <3>3 DEF ShownInv
  <2>6. CASE asking.way # "forward"
    BY <2>1, <2>2, <2>4, <2>6 DEF ShownInv, Rollback
  <2> QED BY <2>5, <2>6
<1>11. ASSUME ApplyUnconvertPlan PROVE ShownInv'
  <2>1. CASE OnTree(plan.n)
    <3>1. tree'.parent = Kept(tree.parent, plan.n)
      BY <1>11, <2>1, <1>a DEF ApplyUnconvertPlan, TreeOK
    <3>2. DOMAIN tree'.parent \subseteq DOMAIN tree.parent
          /\ \A x \in DOMAIN tree'.parent : tree'.parent[x] = tree.parent[x]
      <4>1. tree.parent \in ParentMaps
        BY <1>a DEF TreeOK
      <4>2. /\ DOMAIN Kept(tree.parent, plan.n) = DOMAIN tree.parent \ Inside(tree.parent, plan.n)
            /\ \A x \in DOMAIN Kept(tree.parent, plan.n) :
                 Kept(tree.parent, plan.n)[x] = tree.parent[x]
        BY <4>1, KeptIs
      <4> QED BY <3>1, <4>2
    <3> QED BY <1>11, <3>2, ShownFrame DEF ApplyUnconvertPlan
  <2>2. CASE ~OnTree(plan.n)
    BY <1>11, <2>2, ShownFrame DEF ApplyUnconvertPlan
  <2> QED BY <2>1, <2>2
<1>12. ASSUME ConfirmUnconvert \/ CancelUnconvert \/ PutPersonalDraft \/ UnconvertFailed \/ Autosave
       PROVE  ShownInv'
  <2>1. tree' = tree /\ nested' = nested /\ moved' = moved /\ asking' = asking
    BY <1>12 DEF ConfirmUnconvert, CancelUnconvert, PutPersonalDraft, UnconvertFailed, Autosave
  <2> QED BY <2>1, ShownFrame
<1>13. ASSUME NEW n \in DeviceNodes, OthersMove(n) PROVE ShownInv'
  <2>1. PICK to \in DeviceNodes \cup {NoNode} : nested'.parent = [nested.parent EXCEPT ![n] = to]
    BY <1>13 DEF OthersMove
  <2>2. moved' = moved \cup {n} /\ tree' = tree /\ asking' = asking
    BY <1>13 DEF OthersMove
  <2> QED BY <2>1, <2>2, <1>a, ShownFrame
<1>14. ASSUME NEW n \in DeviceNodes, ChangeField(n) PROVE ShownInv'
  <2>1. nested'.parent = nested.parent /\ moved' = moved /\ tree' = tree /\ asking' = asking
    BY <1>14, NestTypes DEF ChangeField
  <2> QED BY <2>1, ShownFrame
<1> QED BY <1>1, <1>2, <1>3, <1>4, <1>5, <1>6, <1>7, <1>8, <1>9, <1>10, <1>11, <1>12, <1>13, <1>14
        DEF NestNext, FirstPatch, FirstGet, RetryPatch, SecondGet


\* The entries of both stacks.
Entries == EntriesOf(undoMoves) \cup EntriesOf(redoMoves)

LEMMA PushedEntries ==
  ASSUME NEW s, NEW t, NEW e, Pushed(s, t, e)
  PROVE  EntriesOf(t) = EntriesOf(s) \cup {e}
<1>0. Len(s) \in Nat
  BY LenProperties DEF Pushed
<1> QED BY <1>0 DEF EntriesOf, Pushed

LEMMA PushEntries ==
  ASSUME NestTypeOK, NEW e \in Entry, PushCommitted(e)
  PROVE  Entries' \subseteq Entries \cup {e}
<1>1. undoMoves \in Seq(Entry)
  BY NestTypes
<1>2. EntriesOf(undoMoves') = EntriesOf(undoMoves) \cup {e}
  BY <1>1, AppendPushes, PushedEntries DEF PushCommitted
<1>3. EntriesOf(redoMoves') = {}
  <2>1. Len(redoMoves') = 0
    BY EmptySeq DEF PushCommitted
  <2> QED BY <2>1 DEF EntriesOf
<1> QED BY <1>2, <1>3 DEF Entries

LEMMA ReplayEntries ==
  ASSUME NestTypeOK, NEW way \in {"undo", "redo"}, StackOf(way) # <<>>, NEW e \in Entry,
         MoveEntry(way, e)
  PROVE  Entries' \subseteq Entries \cup {e}
<1>0. undoMoves \in Seq(Entry) /\ redoMoves \in Seq(Entry)
  BY NestTypes
<1>1. ASSUME NEW s \in Seq(Entry), s # <<>> PROVE EntriesOf(Popped(s)) \subseteq EntriesOf(s)
  BY <1>1, PopIsPushed, PushedEntries
<1>2. ASSUME NEW s \in Seq(Entry) PROVE EntriesOf(Append(s, e)) = EntriesOf(s) \cup {e}
  BY AppendPushes, PushedEntries
<1>3. CASE way = "undo"
  <2>1. undoMoves' = Popped(undoMoves) /\ redoMoves' = Append(redoMoves, e) /\ undoMoves # <<>>
    BY <1>3 DEF MoveEntry, StackOf
  <2>2. EntriesOf(undoMoves') \subseteq EntriesOf(undoMoves)
        /\ EntriesOf(redoMoves') = EntriesOf(redoMoves) \cup {e}
    BY <1>0, <1>1, <1>2, <2>1
  <2> QED BY <2>2 DEF Entries
<1>4. CASE way = "redo"
  <2>1. redoMoves' = Popped(redoMoves) /\ undoMoves' = Append(undoMoves, e) /\ redoMoves # <<>>
    BY <1>4 DEF MoveEntry, StackOf
  <2>2. EntriesOf(redoMoves') \subseteq EntriesOf(redoMoves)
        /\ EntriesOf(undoMoves') = EntriesOf(undoMoves) \cup {e}
    BY <1>0, <1>1, <1>2, <2>1
  <2> QED BY <2>2 DEF Entries
<1> QED BY <1>3, <1>4

\* The entry on top is one of them.
LEMMA TopReplay ==
  ASSUME NestTypeOK, NEW way \in {"undo", "redo"}, StackOf(way) # <<>>
  PROVE  Top(StackOf(way)) \in Entries /\ Top(StackOf(way)) \in Entry
<1>1. StackOf(way) \in Seq(Entry)
  BY NestTypes DEF StackOf
<1>2. Top(StackOf(way)) \in EntriesOf(StackOf(way))
  BY <1>1, PopIsPushed DEF EntriesOf, Top
<1> QED BY <1>1, <1>2, PopIsPushed DEF Entries, StackOf

LEMMA EntriesTyped ==
  ASSUME NestTypeOK, NEW e \in Entries
  PROVE  e.id \in Nat
<1>1. undoMoves \in Seq(Entry) /\ redoMoves \in Seq(Entry)
  BY NestTypes
<1>2. ASSUME NEW s \in Seq(Entry) PROVE EntriesOf(s) \subseteq Entry
  BY ElementOfSeq DEF EntriesOf
<1>3. e \in Entry
  BY <1>1, <1>2 DEF Entries
<1> QED BY <1>3, EntryGoes

\* No entry is new and the counter does not fall (id: itertools.count).
LEMMA IdsFrame ==
  ASSUME NestTypeOK, IdsInv, Entries' \subseteq Entries, moves' \in Nat, moves <= moves',
         busy' => busy /\ asking'.move.id = asking.move.id
  PROVE  IdsInv'
<1>0. moves \in Nat /\ asking.move.id \in Nat /\ \A e \in Entries : e.id \in Nat
  BY NestTypes, EntryGoes, EntriesTyped
<1> QED BY <1>0 DEF IdsInv, Entries

LEMMA IdsStep ==
  ASSUME NestAssumption, NestTypeOK, AskingInv, IdsInv, NestNext
  PROVE  IdsInv'
<1>0. moves \in Nat /\ asking.move.id \in Nat /\ (\A e \in Entries : e.id \in Nat)
      /\ TreeOK(tree) /\ DeviceNodes \cap DraftNodes = {}
      /\ DeviceNodes \subseteq TreeNodes /\ DraftNodes \subseteq TreeNodes
  BY NestTypes, EntryGoes, EntriesTyped, NestAssumption DEF TreeNodes
<1>1. ASSUME NEW n \in TreeNodes, CommitLocalReparent(n) PROVE IdsInv'
  <2>1. PICK to \in DropParents(n) :
          PushCommitted([id |-> moves + 1, n |-> n, from |-> tree.parent[n],
                         to |-> to, cursor |-> 0])
    BY <1>1 DEF CommitLocalReparent
  <2>2. tree.parent[n] \in Parents /\ to \in Parents
    BY <1>0, <1>1, <2>1, ParentMapsAre
       DEF CommitLocalReparent, OnTree, TreeOK, DropParents, Parents
  <2>3. PICK e \in Entry : /\ e.id = moves + 1 /\ e.n = n
                           /\ PushCommitted(e)
    <3>1. [id |-> moves + 1, n |-> n, from |-> tree.parent[n], to |-> to, cursor |-> 0] \in Entry
      BY <1>0, <2>2 DEF Entry, Parents
    <3> QED BY <2>1, <3>1
  <2>4. Entries' \subseteq Entries \cup {e} /\ moves' = moves + 1 /\ asking' = asking
        /\ n \in DraftNodes
    BY <1>1, <2>3, PushEntries DEF CommitLocalReparent
  <2>5. \A f \in Entries : f.id < e.id /\ f.id <= moves + 1 /\ f.n \in TreeNodes
    BY <1>0, <2>3 DEF IdsInv, Entries
  <2>6. \A f \in Entries' : f.n \in TreeNodes /\ f.id <= moves'
    BY <1>0, <2>3, <2>4, <2>5
  <2>7. \A f, g \in Entries' : f.id = g.id => (f.n \in DeviceNodes <=> g.n \in DeviceNodes)
    <3>1. \A f, g \in Entries : f.id = g.id => (f.n \in DeviceNodes <=> g.n \in DeviceNodes)
      BY DEF IdsInv, Entries
    <3>2. \A f \in Entries : f.id # e.id
      BY <1>0, <2>3, <2>5
    <3> QED BY <2>4, <3>1, <3>2
  <2>8. busy' => asking'.move.id <= moves' /\ \A f \in Entries' : f.id = asking'.move.id => f.n \in DeviceNodes
    <3>1. SUFFICES ASSUME busy
                   PROVE  /\ asking.move.id <= moves + 1
                          /\ \A f \in Entries \cup {e} : f.id = asking.move.id => f.n \in DeviceNodes
      BY <2>4 DEF busy
    <3>2. asking.move.id <= moves /\ \A f \in Entries : f.id = asking.move.id => f.n \in DeviceNodes
      BY <3>1 DEF IdsInv, Entries
    <3>3. e.id # asking.move.id /\ asking.move.id <= moves + 1
      BY <1>0, <2>3, <3>2
    <3> QED BY <3>2, <3>3
  <2> QED BY <2>6, <2>7, <2>8 DEF IdsInv, Entries
<1>2. ASSUME NEW n \in TreeNodes, RequestPublishedReparent(n) PROVE IdsInv'
  <2>1. asking'.move.id = moves + 1 /\ Entries' = Entries /\ moves' = moves + 1
    BY <1>2 DEF RequestPublishedReparent, Entries
  <2>2. \A f \in Entries : f.id <= moves /\ f.id # moves + 1 /\ f.id <= moves + 1
    BY <1>0 DEF IdsInv, Entries
  <2> QED BY <1>0, <2>1, <2>2 DEF IdsInv, Entries
<1>3. ASSUME NEW n \in TreeNodes, BuildUnconvertPlan(n) PROVE IdsInv'
  <2>1. Entries' = Entries /\ asking' = asking /\ moves' = moves + 1
    BY <1>3 DEF BuildUnconvertPlan, Entries
  <2> QED BY <1>0, <2>1, IdsFrame DEF busy
<1>4. ASSUME NEW way \in {"undo", "redo"}, RequestLocalDirection(way) PROVE IdsInv'
  <2>1. StackOf(way) # <<>> /\ MoveEntry(way, Top(StackOf(way))) /\ asking' = asking /\ moves' = moves
    BY <1>4 DEF RequestLocalDirection
  <2>2. Entries' \subseteq Entries
    BY <2>1, TopReplay, ReplayEntries
  <2> QED BY <1>0, <2>1, <2>2, IdsFrame DEF busy
<1>5. ASSUME NEW way \in {"undo", "redo"}, RequestApiDirection(way) PROVE IdsInv'
  <2>1. /\ asking' = [NotAsking EXCEPT !.way = way, !.at = "patch", !.move = Top(StackOf(way))]
        /\ Entries' = Entries /\ moves' = moves + 1 /\ StackOf(way) # <<>>
        /\ Top(StackOf(way)).n \in DeviceNodes
    BY <1>5 DEF RequestApiDirection, Entries
  <2>2. asking'.move = Top(StackOf(way))
    BY <2>1 DEF NotAsking
  <2>3. Top(StackOf(way)) \in Entries
    BY <2>1, TopReplay
  <2>4. \A f \in Entries : /\ f.n \in TreeNodes /\ f.id <= moves /\ f.id <= moves + 1
                           /\ f.id = Top(StackOf(way)).id => f.n \in DeviceNodes
    BY <1>0, <2>1, <2>3 DEF IdsInv, Entries
  <2> QED BY <2>1, <2>2, <2>3, <2>4 DEF IdsInv, Entries
<1>6. ASSUME Entries' = Entries, moves' = moves, busy, asking'.move.id = asking.move.id PROVE IdsInv'
  BY <1>0, <1>6, IdsFrame
<1>7. ASSUME NEW at \in {"patch", "retry"}, NEW stale \in {"get", "reget"}, Patch(at, stale)
      PROVE  IdsInv'
  <2>1. busy
    BY <1>7 DEF Patch, busy, AskingInv, NotAsking
  <2>2. Entries' = Entries /\ moves' = moves /\ asking'.move.id = asking.move.id
    BY <1>7, PatchAnswers DEF Entries
  <2> QED BY <1>6, <2>1, <2>2
<1>8. ASSUME NEW at \in {"get", "reget"}, NEW otherwise \in {"retry", "refused"},
             FetchCurrent(at, otherwise)
      PROVE  IdsInv'
  <2>1. busy
    BY <1>8 DEF FetchCurrent, busy, AskingInv, NotAsking
  <2>2. Entries' = Entries /\ moves' = moves /\ asking'.move.id = asking.move.id
    BY <1>8, FetchAnswers DEF Entries
  <2> QED BY <1>6, <2>1, <2>2
<1>9. ASSUME RefuseRequest \/ CallRaises PROVE IdsInv'
  <2>1. busy /\ asking \in Asking
    BY <1>9 DEF RefuseRequest, CallRaises, busy, AskingInv, NotAsking, NestTypeOK
  <2>2. asking'.move = asking.move /\ Entries' = Entries /\ moves' = moves
    BY <1>9, <2>1 DEF RefuseRequest, CallRaises, Replied, Asking, Entries
  <2> QED BY <1>6, <2>1, <2>2
<1>10. ASSUME ResolveSuccess PROVE IdsInv'
  <2>1. busy
    BY <1>10 DEF ResolveSuccess, busy, AskingInv, NotAsking
  <2>2. asking.move \in Entry /\ asking.move.n \in DeviceNodes
    BY <2>1, AskedFor
  <2>3. asking' = NotAsking /\ moves' = moves
    BY <1>10 DEF ResolveSuccess
  <2>4. Entries' \subseteq Entries \cup {asking.move}
    <3>1. CASE asking.way = "forward"
      BY <1>10, <2>2, <3>1, PushEntries DEF ResolveSuccess
    <3>2. CASE /\ asking.way # "forward" /\ StackOf(asking.way) # <<>>
               /\ Top(StackOf(asking.way)).id = asking.move.id
      <4>1. asking.way \in {"undo", "redo"}
        BY <2>1, <3>2 DEF NestTypeOK, Asking, busy
      <4>2. MoveEntry(asking.way, asking.move)
        BY <1>10, <3>2 DEF ResolveSuccess
      <4> QED BY <2>2, <3>2, <4>1, <4>2, ReplayEntries
    <3>3. CASE /\ asking.way # "forward"
               /\ ~(StackOf(asking.way) # <<>> /\ Top(StackOf(asking.way)).id = asking.move.id)
      BY <1>10, <3>3 DEF ResolveSuccess, Entries
    <3> QED BY <3>1, <3>2, <3>3
  <2>5. asking.move.id <= moves /\ \A f \in Entries : f.id = asking.move.id => f.n \in DeviceNodes
    BY <2>1 DEF IdsInv, Entries
  <2>6. ~busy'
    BY <2>3 DEF busy, NotAsking
  <2>7. \A f \in Entries' : f.n \in TreeNodes /\ f.id <= moves'
    BY <1>0, <2>2, <2>3, <2>4, <2>5 DEF IdsInv, Entries
  <2>8. \A f, g \in Entries' : f.id = g.id => (f.n \in DeviceNodes <=> g.n \in DeviceNodes)
    <3>1. \A f, g \in Entries : f.id = g.id => (f.n \in DeviceNodes <=> g.n \in DeviceNodes)
      BY DEF IdsInv, Entries
    <3> QED BY <2>2, <2>4, <2>5, <3>1
  <2> QED BY <2>6, <2>7, <2>8 DEF IdsInv, Entries
<1>11. ASSUME ResolveFailure PROVE IdsInv'
  <2>1. Entries' = Entries /\ moves' = moves /\ ~busy'
    BY <1>11 DEF ResolveFailure, Entries, busy, NotAsking
  <2> QED BY <1>0, <2>1, IdsFrame
<1>12. ASSUME Entries' = Entries, asking' = asking, moves' = moves PROVE IdsInv'
  BY <1>0, <1>12, IdsFrame DEF busy
<1>13. ASSUME NEW n \in TreeNodes, ConvertContainer(n) PROVE IdsInv'
  BY <1>12, <1>13 DEF ConvertContainer, Entries
<1>14. ASSUME ConfirmUnconvert \/ CancelUnconvert \/ PutPersonalDraft \/ ApplyUnconvertPlan
                \/ UnconvertFailed \/ Autosave
       PROVE  IdsInv'
  BY <1>12, <1>14 DEF ConfirmUnconvert, CancelUnconvert, PutPersonalDraft, ApplyUnconvertPlan,
                      UnconvertFailed, Autosave, Entries
<1>15. ASSUME NEW n \in DeviceNodes, OthersMove(n) \/ ChangeField(n) PROVE IdsInv'
  BY <1>12, <1>15 DEF OthersMove, ChangeField, Entries
<1> QED BY <1>1, <1>2, <1>3, <1>4, <1>5, <1>7, <1>8, <1>9, <1>10, <1>11, <1>13, <1>14, <1>15
        DEF NestNext, FirstPatch, FirstGet, RetryPatch, SecondGet


\* The stacks are as they were, and no draft that is left has moved.
LEMMA DraftsFrame ==
  ASSUME NestTypeOK, DraftsInv, undoMoves' = undoMoves, redoMoves' = redoMoves,
         DOMAIN tree'.parent \subseteq DOMAIN tree.parent,
         \A x \in DraftsOf(tree'.parent) : tree'.parent[x] = tree.parent[x]
  PROVE  DraftsInv'
<1>1. undoMoves \in Seq(Entry) /\ redoMoves \in Seq(Entry)
  BY NestTypes
<1>2. Unwinds("undo", undoMoves, tree'.parent)
  BY <1>1, UnwindsFewer DEF DraftsInv
<1>3. Unwinds("redo", redoMoves, tree'.parent)
  BY <1>1, UnwindsFewer DEF DraftsInv
<1> QED BY <1>2, <1>3 DEF DraftsInv

\* A push of a move that has been made (push_committed).
LEMMA DraftsPush ==
  ASSUME NestAssumption, NestTypeOK, DraftsInv, NEW e \in Entry, PushCommitted(e), NEW to,
         TreeOK(tree'), DOMAIN tree'.parent = DOMAIN tree.parent,
         \A x \in DOMAIN tree.parent :
           tree'.parent[x] = IF x = e.n THEN to ELSE tree.parent[x],
         ForestOf(DraftsOf(tree'.parent), tree'.parent),
         e.n \in DraftsOf(tree'.parent) => tree.parent[e.n] = e.from /\ to = e.to
  PROVE  DraftsInv'
<1>1. undoMoves \in Seq(Entry)
  BY NestTypes
<1>2. Pushed(undoMoves, undoMoves', e) /\ redoMoves' = <<>>
  BY <1>1, AppendPushes DEF PushCommitted
<1>3. \A x \in DraftsOf(tree'.parent) : tree'.parent[x] \in TreeNodes \cup {NoNode}
  BY ParentMapsAre DEF TreeOK, DraftsOf, Parents
<1>4. \A x \in DraftsOf(tree'.parent) \ {e.n} : tree'.parent[x] = tree.parent[x]
  BY DEF DraftsOf
<1>5. e.n \in DraftsOf(tree'.parent) =>
        tree.parent[e.n] = GoesTo("undo", e) /\ tree'.parent[e.n] = CameFrom("undo", e)
  BY DEF DraftsOf, GoesTo, CameFrom
<1>6. Unwinds("undo", undoMoves, tree.parent)
  BY DEF DraftsInv
<1>7. Unwinds("undo", undoMoves', tree'.parent)
  BY <1>2, <1>3, <1>4, <1>5, <1>6, UnwindsPush
<1>8. Unwinds("redo", redoMoves', tree'.parent)
  BY <1>2, <1>3, UnwindsEmpty
<1> QED BY <1>7, <1>8 DEF DraftsInv

\* The other of the two ways.
Other(way) == IF way = "undo" THEN "redo" ELSE "undo"

\* A replay of the entry on top, or of one of a device (resolve_success, apply_local).
LEMMA DraftsReplay ==
  ASSUME NestAssumption, NestTypeOK, DraftsInv, NEW way \in {"undo", "redo"},
         StackOf(way) # <<>>, NEW e \in Entry, MoveEntry(way, e), NEW to,
         TreeOK(tree'), DOMAIN tree'.parent = DOMAIN tree.parent,
         \A x \in DOMAIN tree.parent :
           tree'.parent[x] = IF x = e.n THEN to ELSE tree.parent[x],
         to = GoesTo(way, e),
         e = Top(StackOf(way)) \/ (e.n \notin DraftNodes /\ Top(StackOf(way)).n \notin DraftNodes)
  PROVE  DraftsInv'
<1> DEFINE s == StackOf(way)
           top == Top(s)
           o == StackOf(Other(way))
<1>0. s \in Seq(Entry) /\ o \in Seq(Entry)
  BY NestTypes DEF StackOf
<1>1. StackOf(way)' = Popped(s) /\ StackOf(Other(way))' = Append(o, e)
  BY DEF MoveEntry, StackOf, Other
<1>2. Unwinds(way, s, tree.parent) /\ Unwinds(Other(way), o, tree.parent)
  BY DEF DraftsInv, StackOf, Other
<1>3. Pushed(Popped(s), s, top) /\ Popped(s) \in Seq(Entry) /\ top \in Entry
  BY <1>0, PopIsPushed
<1>4. Pushed(o, Append(o, e), e)
  BY <1>0, AppendPushes
<1>5. \A x \in DraftsOf(tree'.parent) : tree'.parent[x] \in TreeNodes \cup {NoNode}
  BY ParentMapsAre DEF TreeOK, DraftsOf, Parents
<1>6. \A x \in DraftsOf(tree'.parent) \ {e.n} : tree'.parent[x] = tree.parent[x]
  BY DEF DraftsOf
<1>7. \A x \in DraftsOf(tree'.parent) \ {top.n} : tree'.parent[x] = tree.parent[x]
  BY <1>6 DEF DraftsOf
<1>8. top.n \in DraftsOf(tree'.parent) => tree'.parent[top.n] = GoesTo(way, top)
  BY DEF DraftsOf
<1> HIDE DEF s, o, top
<1>9. Unwinds(way, Popped(s), tree'.parent)
  BY <1>2, <1>3, <1>7, <1>8, UnwindsPop
<1>a. top.n \in DraftsOf(tree.parent) => tree.parent[top.n] = CameFrom(way, top)
  BY <1>0, <1>2, UnwindsTop DEF top, s
<1>10. ForestOf(DraftsOf(tree'.parent), tree'.parent)
  BY <1>3, <1>9, UnwindsForest
<1>11. e.n \in DraftsOf(tree'.parent) =>
         /\ tree.parent[e.n] = GoesTo(Other(way), e)
         /\ tree'.parent[e.n] = CameFrom(Other(way), e)
  <2>1. SUFFICES ASSUME e.n \in DraftsOf(tree'.parent)
                 PROVE  /\ tree.parent[e.n] = GoesTo(Other(way), e)
                        /\ tree'.parent[e.n] = CameFrom(Other(way), e)
    OBVIOUS
  <2>2. e = top
    BY <2>1 DEF DraftsOf, top, s
  <2>3. tree.parent[e.n] = CameFrom(way, e) /\ tree'.parent[e.n] = GoesTo(way, e)
    BY <2>1, <2>2, <1>8, <1>a DEF DraftsOf
  <2> QED BY <2>3 DEF CameFrom, GoesTo, Other
<1>12. Unwinds(Other(way), Append(o, e), tree'.parent)
  BY <1>2, <1>4, <1>5, <1>6, <1>10, <1>11, UnwindsPush
<1>13. Unwinds(way, StackOf(way)', tree'.parent) /\ Unwinds(Other(way), StackOf(Other(way))', tree'.parent)
  BY <1>1, <1>9, <1>12
<1> QED BY <1>13 DEF DraftsInv, StackOf, Other

LEMMA DraftsStep ==
  ASSUME NestAssumption, NestTypeOK, NestTypeOK', AskingInv, DraftsInv, IdsInv, NestNext
  PROVE  DraftsInv'
<1>0. /\ TreeOK(tree) /\ TreeOK(tree') /\ undoMoves \in Seq(Entry) /\ redoMoves \in Seq(Entry)
      /\ DOMAIN tree.parent \in SUBSET TreeNodes /\ tree.parent \in ParentMaps
      /\ tree.version \in [DeviceNodes -> Nat] /\ moves \in Nat
      /\ \A x \in DOMAIN tree.parent : tree.parent[x] \in Parents
  BY NestTypes, ParentMapsAre, NestPartsNext DEF TreeOK, TreesOK
<1>a. TreeOK(tree)
  BY <1>0
<1>b. DeviceNodes \cap DraftNodes = {} /\ DeviceNodes \subseteq TreeNodes /\ DraftNodes \subseteq TreeNodes
      /\ NoNode \notin TreeNodes
  BY NestAssumption DEF TreeNodes
<1>c. ForestOf(DraftsOf(tree.parent), tree.parent)
  BY <1>0, UnwindsForest DEF DraftsInv
<1>e. ASSUME NEW n \in TreeNodes PROVE DropParents(n) \subseteq Parents
  BY <1>0 DEF DropParents, TreeOK, Parents
<1>1. ASSUME NEW n \in TreeNodes, CommitLocalReparent(n) PROVE DraftsInv'
  <2>1. PICK to \in DropParents(n) :
          /\ tree' = ApplyCanvasReparent(tree, n, to, 0)
          /\ PushCommitted([id |-> moves + 1, n |-> n, from |-> tree.parent[n],
                            to |-> to, cursor |-> 0])
    BY <1>1 DEF CommitLocalReparent
  <2>2. to \in Parents /\ 0 \in Nat /\ tree.parent[n] \in Parents
    BY <2>1, <1>e, <1>0, <1>1 DEF CommitLocalReparent, OnTree
  <2>3. DOMAIN tree'.parent = DOMAIN tree.parent
        /\ \A x \in DOMAIN tree.parent : tree'.parent[x] = IF x = n THEN to ELSE tree.parent[x]
    BY <2>1, <2>2, <1>a, ReparentMoves, NestAssumption
  <2>4. PICK e \in Entry : e.n = n /\ e.from = tree.parent[n] /\ e.to = to /\ PushCommitted(e)
    <3>1. [id |-> moves + 1, n |-> n, from |-> tree.parent[n], to |-> to, cursor |-> 0] \in Entry
      BY <1>0, <2>2 DEF Entry, Parents
    <3> QED BY <2>1, <3>1
  <2>5. to # n /\ (to \in TreeNodes => n \notin Above(tree.parent, to))
    <3>1. to = NoNode \/ (to \in tree.container /\ to # n /\ to \notin Inside(tree.parent, n))
      BY <2>1 DEF DropParents
    <3>2. tree.container \subseteq DOMAIN tree.parent
      BY <1>0 DEF TreeOK
    <3> QED BY <3>1, <3>2, <1>b DEF Inside
  <2>6. ForestOf(DraftsOf(tree'.parent), tree'.parent)
    <3>1. DraftsOf(tree'.parent) = DraftsOf(tree.parent) /\ DraftsOf(tree.parent) \subseteq DOMAIN tree.parent
          /\ DraftsOf(tree.parent) \in SUBSET TreeNodes
      BY <2>3, <1>b DEF DraftsOf
    <3>2. /\ \A x \in DraftsOf(tree.parent) \ {n} : tree'.parent[x] = tree.parent[x]
          /\ n \in DraftsOf(tree.parent) => tree'.parent[n] = to
      BY <2>3, <3>1
    <3>3. ForestOf(DraftsOf(tree.parent), tree'.parent)
      BY <3>1, <3>2, <2>5, <1>b, <1>c, MoveKeepsForest
    <3> QED BY <3>1, <3>3
  <2> QED BY <2>3, <2>4, <2>6, <1>0, DraftsPush, NestAssumption
<1>2. ASSUME NEW n \in TreeNodes, RequestPublishedReparent(n) PROVE DraftsInv'
  <2>1. PICK to \in DropParents(n) : tree' = ApplyCanvasReparent(tree, n, to, tree.version[n])
    BY <1>2 DEF RequestPublishedReparent
  <2>2. to \in Parents /\ tree.version[n] \in Nat /\ n \in DeviceNodes
    BY <2>1, <1>e, <1>0, <1>2 DEF RequestPublishedReparent
  <2>3. DOMAIN tree'.parent = DOMAIN tree.parent
        /\ \A x \in DOMAIN tree.parent : tree'.parent[x] = IF x = n THEN to ELSE tree.parent[x]
    BY <2>1, <2>2, <1>a, ReparentMoves, NestAssumption
  <2>4. \A x \in DraftsOf(tree'.parent) : tree'.parent[x] = tree.parent[x]
    BY <2>2, <2>3, <1>b DEF DraftsOf
  <2> QED BY <1>2, <2>3, <2>4, DraftsFrame DEF RequestPublishedReparent
<1>3. ASSUME undoMoves' = undoMoves, redoMoves' = redoMoves, tree'.parent = tree.parent
      PROVE  DraftsInv'
  BY <1>3, DraftsFrame
<1>4. ASSUME NEW n \in TreeNodes, BuildUnconvertPlan(n) \/ ConvertContainer(n) PROVE DraftsInv'
  <2>1. tree'.parent = tree.parent
    BY <1>0, <1>4 DEF BuildUnconvertPlan, ConvertContainer, TreeOK
  <2> QED BY <1>3, <1>4, <2>1 DEF BuildUnconvertPlan, ConvertContainer
<1>5. ASSUME NEW way \in {"undo", "redo"}, RequestLocalDirection(way) PROVE DraftsInv'
  <2>1. PICK e \in Entry : /\ e = Top(StackOf(way)) /\ StackOf(way) # <<>> /\ MoveEntry(way, e)
                           /\ e.n \in DraftNodes
                           /\ tree' = ApplyCanvasReparent(tree, e.n, GoesTo(way, e), 0)
    BY <1>5, TopReplay DEF RequestLocalDirection
  <2>2. GoesTo(way, e) \in Parents /\ 0 \in Nat /\ e.n \in TreeNodes
    BY <2>1, <1>b, EntryGoes
  <2>3. DOMAIN tree'.parent = DOMAIN tree.parent
        /\ \A x \in DOMAIN tree.parent :
             tree'.parent[x] = IF x = e.n THEN GoesTo(way, e) ELSE tree.parent[x]
    BY <2>1, <2>2, <1>a, ReparentMoves, NestAssumption
  <2> QED BY <2>1, <2>3, <1>0, DraftsReplay, NestAssumption
<1>6. ASSUME NEW way \in {"undo", "redo"}, RequestApiDirection(way) PROVE DraftsInv'
  BY <1>3, <1>6 DEF RequestApiDirection
<1>7. ASSUME FirstPatch \/ FirstGet \/ RetryPatch \/ SecondGet \/ RefuseRequest PROVE DraftsInv'
  BY <1>3, <1>7 DEF FirstPatch, FirstGet, RetryPatch, SecondGet, Patch, FetchCurrent,
                    RefuseRequest, Replied
<1>8. ASSUME CallRaises PROVE DraftsInv'
  BY <1>3, <1>8 DEF CallRaises
<1>9. ASSUME ResolveSuccess PROVE DraftsInv'
  <2>1. busy
    BY <1>9 DEF ResolveSuccess, busy, AskingInv, NotAsking
  <2>2. asking.move \in Entry /\ asking.move.n \in DeviceNodes /\ asking.move.n \in TreeNodes
        /\ n_to \in Parents /\ asking.move.cursor \in Nat
    BY <2>1, AskedFor
  <2>3. tree' = ApplyCanvasReparent(tree, asking.move.n, n_to, asking.move.cursor)
    BY <1>9 DEF ResolveSuccess, n_to
  <2>4. DOMAIN tree'.parent = DOMAIN tree.parent
        /\ \A x \in DOMAIN tree.parent :
             tree'.parent[x] = IF x = asking.move.n THEN n_to ELSE tree.parent[x]
    BY <2>2, <2>3, <1>a, ReparentMoves, NestAssumption
  <2>5. \A x \in DraftsOf(tree'.parent) : x # asking.move.n /\ tree'.parent[x] = tree.parent[x]
    BY <2>2, <2>4, <1>b DEF DraftsOf
  <2>6. CASE asking.way = "forward"
    <3>1. PushCommitted(asking.move)
      BY <1>9, <2>6 DEF ResolveSuccess
    <3>2. ForestOf(DraftsOf(tree'.parent), tree'.parent)
      <4>1. DraftsOf(tree'.parent) = DraftsOf(tree.parent)
        BY <2>4 DEF DraftsOf
      <4> QED BY <4>1, <1>c, <2>5 DEF ForestOf
    <3>3. asking.move.n \notin DraftsOf(tree'.parent)
      BY <2>5
    <3> QED BY <2>2, <2>4, <3>1, <3>2, <3>3, <1>0, DraftsPush, NestAssumption
  <2>7. CASE /\ asking.way # "forward" /\ StackOf(asking.way) # <<>>
             /\ Top(StackOf(asking.way)).id = asking.move.id
    <3>1. asking.way \in {"undo", "redo"}
      BY <2>1, <2>7 DEF NestTypeOK, Asking, busy
    <3>2. MoveEntry(asking.way, asking.move)
      BY <1>9, <2>7 DEF ResolveSuccess
    <3>3. Top(StackOf(asking.way)).n \in DeviceNodes
      <4>1. Top(StackOf(asking.way)) \in Entries
        BY <2>7, <3>1, TopReplay
      <4> QED BY <2>1, <2>7, <4>1 DEF IdsInv, Entries
    <3>4. asking.move.n \notin DraftNodes /\ Top(StackOf(asking.way)).n \notin DraftNodes
      BY <2>2, <3>3, <1>b
    <3>5. n_to = GoesTo(asking.way, asking.move)
      BY DEF n_to
    <3> QED BY <2>2, <2>4, <2>7, <3>1, <3>2, <3>4, <3>5, <1>0, DraftsReplay, NestAssumption
  <2>8. CASE /\ asking.way # "forward"
             /\ ~(StackOf(asking.way) # <<>> /\ Top(StackOf(asking.way)).id = asking.move.id)
    <3>1. undoMoves' = undoMoves /\ redoMoves' = redoMoves
      BY <1>9, <2>8 DEF ResolveSuccess
    <3> QED BY <3>1, <2>4, <2>5, DraftsFrame
  <2> QED BY <2>6, <2>7, <2>8
<1>10. ASSUME ResolveFailure PROVE DraftsInv'
  <2>1. busy
    BY <1>10 DEF ResolveFailure, busy, AskingInv, NotAsking
  <2>2. /\ undoMoves' = undoMoves /\ redoMoves' = redoMoves /\ tree' = Rollback(tree, asking)
    BY <1>10 DEF ResolveFailure
  <2>3. asking.move.n \in DeviceNodes /\ asking.move.n \in TreeNodes /\ asking.move.from \in Parents
    BY <2>1, AskedFor
  <2>4. CASE asking.way = "forward"
    <3>1. tree' = ApplyCanvasReparent(tree, asking.move.n, asking.move.from,
                                      tree.version[asking.move.n])
          /\ tree.version[asking.move.n] \in Nat
      BY <2>2, <2>3, <2>4, <1>0 DEF Rollback
    <3>2. DOMAIN tree'.parent = DOMAIN tree.parent
          /\ \A x \in DOMAIN tree.parent :
               tree'.parent[x] = IF x = asking.move.n THEN asking.move.from ELSE tree.parent[x]
      BY <2>3, <3>1, <1>a, ReparentMoves, NestAssumption
    <3>3. \A x \in DraftsOf(tree'.parent) : tree'.parent[x] = tree.parent[x]
      BY <2>3, <3>2, <1>b DEF DraftsOf
    <3> QED BY <2>2, <3>2, <3>3, DraftsFrame
  <2>5. CASE asking.way # "forward"
    BY <2>2, <2>5, <1>3 DEF Rollback
  <2> QED BY <2>4, <2>5
<1>11. ASSUME ApplyUnconvertPlan PROVE DraftsInv'
  <2>0. undoMoves' = undoMoves /\ redoMoves' = redoMoves
    BY <1>11 DEF ApplyUnconvertPlan
  <2>1. CASE OnTree(plan.n)
    <3>1. tree'.parent = Kept(tree.parent, plan.n)
      BY <1>11, <2>1, <1>0 DEF ApplyUnconvertPlan, TreeOK
    <3>2. /\ DOMAIN Kept(tree.parent, plan.n) = DOMAIN tree.parent \ Inside(tree.parent, plan.n)
          /\ \A x \in DOMAIN Kept(tree.parent, plan.n) :
               Kept(tree.parent, plan.n)[x] = tree.parent[x]
      BY <1>0, KeptIs
    <3>3. DOMAIN tree'.parent \subseteq DOMAIN tree.parent
          /\ \A x \in DraftsOf(tree'.parent) : tree'.parent[x] = tree.parent[x]
      BY <3>1, <3>2 DEF DraftsOf
    <3> QED BY <2>0, <3>3, DraftsFrame
  <2>2. CASE ~OnTree(plan.n)
    BY <1>11, <2>0, <2>2, <1>3 DEF ApplyUnconvertPlan
  <2> QED BY <2>1, <2>2
<1>12. ASSUME ConfirmUnconvert \/ CancelUnconvert \/ PutPersonalDraft \/ UnconvertFailed \/ Autosave
       PROVE  DraftsInv'
  BY <1>3, <1>12 DEF ConfirmUnconvert, CancelUnconvert, PutPersonalDraft, UnconvertFailed, Autosave
<1>13. ASSUME NEW n \in DeviceNodes, OthersMove(n) \/ ChangeField(n) PROVE DraftsInv'
  BY <1>3, <1>13 DEF OthersMove, ChangeField
<1> QED BY <1>1, <1>2, <1>4, <1>5, <1>6, <1>7, <1>8, <1>9, <1>10, <1>11, <1>12, <1>13 DEF NestNext


LEMMA NestInvInit ==
  ASSUME NestAssumption, NestInit
  PROVE  NestInv
<1>1. NestTypeOK
  BY NestTypeInit
<1>2. asking = NotAsking /\ plan = NoPlan /\ undoMoves = <<>> /\ redoMoves = <<>>
      /\ Forest(nested.parent) /\ DOMAIN tree.parent = TreeNodes
      /\ \A n \in TreeNodes :
           tree.parent[n] = IF n \in DeviceNodes THEN nested.parent[n] ELSE NoNode
  BY DEF NestInit
<1>3. AskingInv
  BY <1>2 DEF AskingInv, NotAsking
<1>4. ShownInv
  BY <1>2 DEF ShownInv, busy, NotAsking, TreeNodes
<1>5. DraftsInv
  <2>1. \A x \in DraftsOf(tree.parent) : tree.parent[x] = NoNode
    BY <1>2, NestAssumption DEF DraftsOf, TreeNodes
  <2>2. ForestOf(DraftsOf(tree.parent), tree.parent)
    BY <2>1, NestAssumption DEF ForestOf, DraftsOf, TreeNodes
  <2> QED BY <1>2, <2>1, <2>2, UnwindsEmpty DEF DraftsInv
<1>6. IdsInv
  <2>1. EntriesOf(<<>>) = {}
    BY EmptySeq DEF EntriesOf
  <2> QED BY <1>2, <2>1 DEF IdsInv, busy, NotAsking
<1>7. PlanInv
  BY <1>2 DEF PlanInv, NoPlan
<1> QED BY <1>1, <1>2, <1>3, <1>4, <1>5, <1>6, <1>7 DEF NestInv

\* Every step of the canvas, of the server and of the others keeps the invariant.
LEMMA NestInvStep ==
  ASSUME NestAssumption, NestInv, [NestNext]_nestVars
  PROVE  NestInv'
<1>1. NestTypeOK /\ AskingInv /\ Forest(nested.parent) /\ ShownInv /\ DraftsInv /\ IdsInv /\ PlanInv
  BY DEF NestInv
<1>2. CASE NestNext
  <2>1. NestTypeOK' /\ AskingInv' /\ Forest(nested'.parent)
    BY <1>1, <1>2, NestTypeStep, AskingStep, ForestStep
  <2>2. ShownInv' /\ IdsInv' /\ PlanInv'
    BY <1>1, <1>2, ShownStep, IdsStep, PlanStep
  <2>3. DraftsInv'
    BY <1>1, <1>2, <2>1, DraftsStep
  <2>4. Forest(nested.parent)'
    BY <2>1 DEF Forest
  <2> QED BY <2>1, <2>2, <2>3, <2>4 DEF NestInv
<1>3. CASE UNCHANGED nestVars
  <2>1. nested' = nested /\ tree' = tree /\ drawnLayout' = drawnLayout /\ undoMoves' = undoMoves
        /\ redoMoves' = redoMoves /\ asking' = asking /\ plan' = plan /\ moves' = moves
        /\ others' = others /\ moved' = moved /\ dropped' = dropped
    BY <1>3 DEF nestVars
  <2>2. NestTypeOK' /\ AskingInv' /\ Forest(nested.parent)'
    BY <1>1, <2>1 DEF NestTypeOK, AskingInv, Forest
  <2>3. ShownInv' /\ IdsInv' /\ PlanInv'
    BY <1>1, <2>1 DEF ShownInv, busy, n_to, GoesTo, IdsInv, PlanInv, OnTree
  <2>4. DraftsInv'
    BY <1>1, <2>1, DraftsFrame
  <2> QED BY <2>2, <2>3, <2>4 DEF NestInv
<1> QED BY <1>2, <1>3

\* The inductive invariant of the nesting of the canvas.
THEOREM NestInductive == NestSpec => []NestInv
<1>1. NestInit => NestInv
  BY NestAssumption, NestInvInit
<1>2. NestInv /\ [NestNext]_nestVars => NestInv'
  BY NestAssumption, NestInvStep
<1> QED BY <1>1, <1>2, PTL DEF NestSpec

LEMMA NestInvHolds ==
  ASSUME NestAssumption, NestInv
  PROVE  NestingHolds
<1>1. NestTypeOK /\ ShownInv /\ DraftsInv /\ Forest(nested.parent)
  BY DEF NestInv
<1>2. CanvasShowsInventory
  BY <1>1 DEF ShownInv, CanvasShowsInventory, busy, NotAsking
<1>3. NoCanvasCircle
  <2>1. SUFFICES ASSUME asking = NotAsking, moved = {},
                        NEW S \in (SUBSET DOMAIN tree.parent) \ {{}},
                        \A x \in S : tree.parent[x] \in S
                 PROVE  FALSE
    BY DEF NoCanvasCircle, Forest
  <2>2. DOMAIN tree.parent \in SUBSET TreeNodes /\ undoMoves \in Seq(Entry)
        /\ nested.parent \in [DeviceNodes -> DeviceNodes \cup {NoNode}] /\ NoNode \notin TreeNodes
    BY <1>1, NestTypes, ParentMapsAre, NestAssumption DEF TreeOK
  <2>3. CASE S \cap DeviceNodes = {}
    <3>1. S \in (SUBSET DraftsOf(tree.parent)) \ {{}}
      BY <2>2, <2>3 DEF DraftsOf, TreeNodes
    <3>2. ForestOf(DraftsOf(tree.parent), tree.parent)
      BY <1>1, <2>2, UnwindsForest DEF DraftsInv
    <3> QED BY <2>1, <3>1, <3>2 DEF ForestOf
  <2>4. CASE S \cap DeviceNodes # {}
    <3>1. \A x \in S \cap DeviceNodes : nested.parent[x] \in S \cap DeviceNodes
      <4> TAKE x \in S \cap DeviceNodes
      <4>1. tree.parent[x] = nested.parent[x]
        BY <1>2, <2>1 DEF CanvasShowsInventory
      <4>2. nested.parent[x] \in DeviceNodes \cup {NoNode} /\ nested.parent[x] \in S
        BY <2>1, <2>2, <4>1
      <4>3. NoNode \notin S
        BY <2>2
      <4> QED BY <4>2, <4>3
    <3>2. S \cap DeviceNodes \in (SUBSET DOMAIN nested.parent) \ {{}}
      BY <2>2, <2>4
    <3> QED BY <1>1, <3>1, <3>2 DEF Forest
  <2> QED BY <2>3, <2>4
<1> QED BY <1>1, <1>2, <1>3 DEF NestingHolds

\* When no move is under way the canvas shows the devices where the server has
\* them, and nothing on it is inside itself, whatever is dropped, undone, redone,
\* refused or converted meanwhile (canvas_container_*.py).
THEOREM NestingCorrect == NestSpec => []NestingHolds
<1>1. NestInv => NestingHolds
  BY NestAssumption, NestInvHolds
<1> QED BY <1>1, NestInductive, PTL

\* When a conversion was saved and nothing was dropped meanwhile, the canvas shows
\* what a reload would (apply_unconvert_plan).
THEOREM ReloadCorrect == NestSpec => ReloadMatchesUndisturbed
<1>1. NestInv /\ [NestNext]_nestVars => ReloadStep
  BY ReloadStepHolds DEF NestInv
<1>2. NestInv /\ [NestNext]_nestVars => [ReloadStep]_nestVars
  BY <1>1
<1> QED BY <1>2, NestInductive, PTL DEF NestSpec, ReloadMatchesUndisturbed

(***************************************************************************)
(* The stacks of undo and redo (UndoStack).                                *)
(*                                                                         *)
(* That the top entries are right is not enough: what lies below them      *)
(* comes to the top.  So each stack leads, entry by entry, from what there *)
(* is to what there was, and an entry tells what lies between its two      *)
(* contents.  A content only counts connections; their ids go along with   *)
(* it.  While a request is under way the stacks lead from what there was   *)
(* when it was made.                                                       *)
(***************************************************************************)

\* What an entry and a request are made of.
LinkOrNone == Links \cup {NoId}
NodeRecords == Partial(CanvasDevices, Node)
Rows  == Partial(CanvasDevices, Names)
AnyContent == [device : Rows, links : {0, 1},
               node : NodeRecords, edges : {Cardinality(E) : E \in SUBSET Links}]
Values  == Places \cup Names \cup {NoId}
KeptRecords  == [name : Names \cup {NoId}, link : LinkOrNone]
EntryRecords == [id : 0..MaxActions, kind : Kinds, d : CanvasDevices \cup {NoId},
            link : LinkOrNone, from : Values, to : Values, sight : Canvas, kept : KeptRecords,
            was : AnyContent \cup {NoId}, now : AnyContent \cup {NoId}]
EntryFits(e) ==
  /\ e \in EntryRecords /\ e.id # 0
  /\ e.kind = "move" => e.d \in CanvasDevices /\ {e.from, e.to} \subseteq Places
  /\ e.kind = "field" => e.d \in CanvasDevices /\ {e.from, e.to} \subseteq Names
  /\ e.kind = "delete_node" => e.d \in CanvasDevices
Stacked(e) == EntryFits(e) /\ (e.kind = "delete_node" => e.kept.name \in Names)

\* The stacks hold entries of their kind, each action at most once.
Sound(s, n) ==
  /\ s \in Seq(EntryRecords)
  /\ \A i \in 1..Len(s) : Stacked(s[i]) /\ s[i].id <= n
  /\ \A i, j \in 1..Len(s) : s[i].id = s[j].id => i = j
Apart(s, t) == \A i \in 1..Len(s), j \in 1..Len(t) : s[i].id # t[j].id
Lacks(s, id) == \A i \in 1..Len(s) : s[i].id # id
StacksSound ==
  /\ Sound(undoStack, actions) /\ Sound(redoStack, actions) /\ Apart(undoStack, redoStack)
  /\ Len(undoStack) + Len(redoStack) <= MaxEntries

EntryCalls == [way : {"none", "forward", "undo", "redo"},
             at : {"none", "asked", "done", "refused", "lost"},
             entry : EntryRecords, link : LinkOrNone, kept : KeptRecords]
RequestSound ==
  /\ pending \in EntryCalls
  /\ pending.way = "none" => pending = NoEntryCall
  /\ waiting => /\ pending.at # "none" /\ EntryFits(pending.entry) /\ ~Local(pending.entry)
                /\ pending.entry.id <= actions
  /\ pending.way = "forward" =>
       /\ pending.entry.kind # "field"
       /\ Lacks(undoStack, pending.entry.id) /\ Lacks(redoStack, pending.entry.id)
  /\ pending.way \in {"undo", "redo"} => Stacked(pending.entry)
  /\ pending.at = "done" /\ Op = "delete" => pending.kept.name \in Names
  /\ pending.at = "done" /\ Op = "connect" => pending.link \in Links

StacksTyped ==
  /\ inventory \in Server /\ canvas \in Canvas /\ linkIds \in SUBSET Links
  /\ StacksSound /\ RequestSound
  /\ actions \in Nat /\ writes \in Nat /\ actions + writes <= MaxActions
  /\ overlap \in BOOLEAN /\ renamed \in BOOLEAN

\* Content c where the connection has id l.
Drawn(node, l) == Hung(node, {l} \ {NoId})
NamesAgree(device, node) ==
  \A d \in DOMAIN node \cap DOMAIN device : node[d].name = device[d]
Shows(c, l) ==
  /\ c \in AnyContent /\ l \in LinkOrNone
  /\ c.links = LinkCount(l)
  /\ c.edges = Cardinality(Drawn(c.node, l))
  /\ NamesAgree(c.device, c.node)

\* Between the two contents of an entry lies what the entry does; l and m are the ids
\* that the connection has in them.
TookMove(e, w, x) ==
  /\ x.device = w.device /\ e.d \in DOMAIN w.node /\ w.node[e.d].at = e.from
  /\ x.node = [w.node EXCEPT ![e.d].at = e.to]
TookRemoval(e, w, x, l) ==
  /\ x.device = w.device /\ e.d \in DOMAIN w.node /\ x.node = Without(w.node, {e.d})
  /\ e.sight = [node |-> [y \in {e.d} |-> w.node[e.d]], edges |-> Drawn(w.node, l)]
TookField(e, w, x) ==
  /\ e.d \in DOMAIN w.device /\ w.device[e.d] = e.from
  /\ x.device = [w.device EXCEPT ![e.d] = e.to]
  /\ x.node = IF e.d \in DOMAIN w.node THEN [w.node EXCEPT ![e.d].name = e.to] ELSE w.node
TookEdge(e, w, x) ==
  /\ x.device = w.device /\ x.node = w.node /\ CanvasDevices \subseteq DOMAIN w.node
  /\ e.link # NoId
TookDelete(e, w, x, l) ==
  /\ e.d \in DOMAIN w.node \cap DOMAIN w.device
  /\ x.device = Without(w.device, {e.d}) /\ x.node = Without(w.node, {e.d})
  /\ e.kept = [name |-> w.device[e.d], link |-> l]
  /\ e.sight.node = [y \in {e.d} |-> w.node[e.d]] /\ e.sight.edges \subseteq {l} \ {NoId}
  /\ Drawn(w.node, l) = Hung(w.node, e.sight.edges)
Took(e, l, m) ==
  /\ Shows(e.was, l) /\ Shows(e.now, m)
  /\ e.kind = "move"             => m = l /\ TookMove(e, e.was, e.now)
  /\ e.kind = "remove_from_view" => m = l /\ TookRemoval(e, e.was, e.now, l)
  /\ e.kind = "field"            => m = l /\ TookField(e, e.was, e.now)
  /\ e.kind = "create_edge"      => l = NoId /\ m = e.link /\ TookEdge(e, e.was, e.now)
  /\ e.kind = "delete_edge"      => l = e.link /\ m = NoId /\ TookEdge(e, e.was, e.now)
  /\ e.kind = "delete_node"      => m = NoId /\ TookDelete(e, e.was, e.now, l)

\* A stack leads from content c, with connection l, back through its entries.
Near(way, e) == IF way = "undo" THEN e.now ELSE e.was
Far(way, e)  == IF way = "undo" THEN e.was ELSE e.now
Across(way, e, far, near) == IF way = "undo" THEN Took(e, far, near) ELSE Took(e, near, far)
Trail(way, s, ids, c) ==
  \A i \in 1..Len(s) :
    /\ Across(way, s[i], ids[i - 1], ids[i])
    /\ Near(way, s[i]) = IF i = Len(s) THEN c ELSE Far(way, s[i + 1])
LeadsFrom(way, s, c, l) ==
  \E ids \in [0..Len(s) -> LinkOrNone] : ids[Len(s)] = l /\ Trail(way, s, ids, c)

\* The content at the time of the request, and what the server has made of it.
Base == IF ~waiting THEN Content
        ELSE IF pending.way = "undo" THEN pending.entry.now ELSE pending.entry.was

AnsweredConnect(e, c, l) ==
  l = NoId /\ inventory = [device |-> c.device, link |-> pending.link]
AnsweredDisconnect(e, c, l) ==
  l = e.link /\ inventory = [device |-> c.device, link |-> NoId]
AnsweredDelete(e, c, l) ==
  /\ e.d \in DOMAIN c.device /\ pending.kept = [name |-> c.device[e.d], link |-> l]
  /\ inventory = [device |-> Without(c.device, {e.d}), link |-> NoId]
AnsweredRestore(e, c, l) ==
  inventory = [device |-> Over(c.device, [x \in {e.d} |-> e.kept.name]),
               link |-> IF e.kept.link # NoId THEN e.kept.link ELSE l]
AnsweredField(e, c, l) ==
  inventory = [device |-> [c.device EXCEPT ![e.d] = IF pending.way = "undo" THEN e.from ELSE e.to],
               link |-> l]
ReplayAnswered(c, l) ==
  /\ Op = "connect"    => AnsweredConnect(pending.entry, c, l)
  /\ Op = "disconnect" => AnsweredDisconnect(pending.entry, c, l)
  /\ Op = "delete"     => AnsweredDelete(pending.entry, c, l)
  /\ Op = "restore"    => AnsweredRestore(pending.entry, c, l)
  /\ Op = "field"      => AnsweredField(pending.entry, c, l)

\* The request is of the top of its stack, or of what the user has seen.
AskedRightly(c, l) ==
  LET e == pending.entry
  IN /\ pending.way \in {"undo", "redo"} =>
          Source(pending.way) # <<>> /\ e = TopEntry(Source(pending.way))
     /\ pending.way = "forward" =>
          /\ e.kind = "create_edge" => CanvasDevices \subseteq DOMAIN c.node
          /\ e.kind = "delete_edge" => e.link = l /\ CanvasDevices \subseteq DOMAIN c.node
          /\ e.kind = "delete_edge" => l # NoId
          /\ e.kind = "delete_node" => /\ e.d \in DOMAIN c.node
                                       /\ e.sight = [node |-> [x \in {e.d} |-> c.node[e.d]],
                                                     edges |-> Drawn(c.node, l)]

World(c, l) ==
  /\ Shows(c, l)
  /\ canvas = [node |-> c.node, edges |-> Drawn(c.node, l)]
  /\ IF pending.at = "done" THEN ReplayAnswered(c, l)
     ELSE inventory = [device |-> c.device, link |-> l]
  /\ AskedRightly(c, l)

Undisturbed == writes = 0 /\ ~overlap /\ ~renamed
StacksLead ==
  \E l \in LinkOrNone :
    /\ LeadsFrom("undo", undoStack, Base, l) /\ LeadsFrom("redo", redoStack, Base, l)
    /\ World(Base, l)

StackInv == StacksTyped /\ (Undisturbed /\ pending.at # "lost" => StacksLead)

\* Partial functions: which they are, and what keeps them so.
LEMMA PartialsAre ==
  ASSUME NEW S, NEW T, NEW f
  PROVE  f \in Partial(S, T) <=> DOMAIN f \in SUBSET S /\ f \in [DOMAIN f -> T]
BY DEF Partial

\* Fewer keys,
LEMMA PartialWithout ==
  ASSUME NEW S, NEW T, NEW f \in Partial(S, T), NEW X
  PROVE  Without(f, X) \in Partial(S, T)
<1>1. DOMAIN f \in SUBSET S /\ f \in [DOMAIN f -> T]
  BY PartialsAre
<1>2. Without(f, X) \in [DOMAIN f \ X -> T]
  BY <1>1 DEF Without
<1> QED BY <1>1, <1>2 DEF Partial

\* more keys,
LEMMA PartialOver ==
  ASSUME NEW S, NEW T, NEW f \in Partial(S, T), NEW g \in Partial(S, T)
  PROVE  Over(f, g) \in Partial(S, T)
<1>1. /\ DOMAIN f \in SUBSET S /\ f \in [DOMAIN f -> T]
      /\ DOMAIN g \in SUBSET S /\ g \in [DOMAIN g -> T]
  BY PartialsAre
<1>2. Over(f, g) \in [DOMAIN f \cup DOMAIN g -> T]
  BY <1>1 DEF Over
<1> QED BY <1>1, <1>2 DEF Partial

\* another value,
LEMMA PartialChanged ==
  ASSUME NEW S, NEW T, NEW f \in Partial(S, T), NEW x \in DOMAIN f, NEW v \in T
  PROVE  [f EXCEPT ![x] = v] \in Partial(S, T)
<1>1. DOMAIN f \in SUBSET S /\ f \in [DOMAIN f -> T]
  BY PartialsAre
<1>2. [f EXCEPT ![x] = v] \in [DOMAIN f -> T]
  BY <1>1
<1> QED BY <1>1, <1>2 DEF Partial

\* one key.
LEMMA PartialOfOne ==
  ASSUME NEW S, NEW T, NEW x \in S, NEW v \in T
  PROVE  [y \in {x} |-> v] \in Partial(S, T)
<1>1. [y \in {x} |-> v] \in [{x} -> T]
  OBVIOUS
<1> QED BY <1>1 DEF Partial

\* A node at another place or by another name.
LEMMA NodeChanged ==
  ASSUME NEW f \in NodeRecords, NEW d \in DOMAIN f
  PROVE  /\ \A p \in Places : [f EXCEPT ![d].at = p] \in NodeRecords
         /\ \A n \in Names : [f EXCEPT ![d].name = n] \in NodeRecords
         /\ f[d] \in Node
<1>1. DOMAIN f \in SUBSET CanvasDevices /\ f \in [DOMAIN f -> Node]
  BY PartialsAre DEF NodeRecords
<1>2. ASSUME NEW p \in Places PROVE [f EXCEPT ![d].at = p] \in NodeRecords
  <2>1. [f[d] EXCEPT !.at = p] \in Node
    BY <1>1 DEF Node
  <2>2. [f EXCEPT ![d].at = p] = [f EXCEPT ![d] = [f[d] EXCEPT !.at = p]]
    BY <1>1
  <2> QED BY <2>1, <2>2, PartialChanged DEF NodeRecords
<1>3. ASSUME NEW n \in Names PROVE [f EXCEPT ![d].name = n] \in NodeRecords
  <2>1. [f[d] EXCEPT !.name = n] \in Node
    BY <1>1 DEF Node
  <2>2. [f EXCEPT ![d].name = n] = [f EXCEPT ![d] = [f[d] EXCEPT !.name = n]]
    BY <1>1
  <2> QED BY <2>1, <2>2, PartialChanged DEF NodeRecords
<1> QED BY <1>1, <1>2, <1>3

\* An edge hangs on both ends or is not there.
LEMMA HungAre ==
  ASSUME NEW n, NEW E \in SUBSET Links
  PROVE  Hung(n, E) \in SUBSET Links
BY DEF Hung

\* Canvases and servers, by the names used here.
LEMMA CanvasIs ==
  /\ Canvas = [node : NodeRecords, edges : SUBSET Links]
  /\ Server = [device : Rows, link : LinkOrNone]
BY DEF Canvas, Server, NodeRecords, Rows, LinkOrNone

\* What the graph operations leave is a canvas.
LEMMA CanvasStays ==
  ASSUME canvas \in Canvas
  PROVE  /\ \A sight \in Canvas : ApplySnapshotRemoval(sight) \in Canvas
         /\ \A sight \in Canvas : ApplySnapshotRestore(sight) \in Canvas
         /\ \A l \in Links : AddEdge(l) \in Canvas
         /\ \A l : RemoveEdge(l) \in Canvas
         /\ \A d, p : p \in Places => ApplyMove(d, p) \in Canvas
         /\ \A d, n : n \in Names => PatchNode(d, n) \in Canvas
         /\ \A d \in DOMAIN canvas.node : SnapshotNodeSet(d) \in Canvas
<1>0. /\ canvas.node \in NodeRecords /\ canvas.edges \in SUBSET Links
      /\ canvas = [node |-> canvas.node, edges |-> canvas.edges]
  BY CanvasIs
<1>r. \A nodes \in NodeRecords, E \in SUBSET Links : [node |-> nodes, edges |-> E] \in Canvas
  BY CanvasIs
<1>c. canvas.node \in NodeRecords /\ canvas.edges \in SUBSET Links
  BY <1>0
<1>1. ASSUME NEW sight \in Canvas PROVE ApplySnapshotRemoval(sight) \in Canvas
  <2>1. Without(canvas.node, DOMAIN sight.node) \in NodeRecords
    BY <1>0, PartialWithout DEF NodeRecords
  <2>2. canvas.edges \ sight.edges \in SUBSET Links
    BY <1>0
  <2> QED BY <2>1, <2>2, HungAre, CanvasIs DEF ApplySnapshotRemoval
<1>2. ASSUME NEW sight \in Canvas PROVE ApplySnapshotRestore(sight) \in Canvas
  <2>0. sight.node \in NodeRecords /\ sight.edges \in SUBSET Links
    BY CanvasIs
  <2>1. Over(sight.node, canvas.node) \in NodeRecords
    BY <1>0, <2>0, PartialOver DEF NodeRecords
  <2>2. canvas.edges \cup sight.edges \in SUBSET Links
    BY <1>0, <2>0
  <2> QED BY <2>1, <2>2, HungAre, CanvasIs DEF ApplySnapshotRestore
<1>3. ASSUME NEW l \in Links PROVE AddEdge(l) \in Canvas
  <2>1. canvas.edges \cup {l} \in SUBSET Links
    BY <1>0
  <2>2. AddEdge(l) = [node |-> canvas.node, edges |-> Hung(canvas.node, canvas.edges \cup {l})]
    BY <1>0 DEF AddEdge
  <2>3. Hung(canvas.node, canvas.edges \cup {l}) \in SUBSET Links
    BY <2>1, HungAre
  <2> QED BY <1>c, <1>r, <2>2, <2>3
<1>4. ASSUME NEW l PROVE RemoveEdge(l) \in Canvas
  <2>1. RemoveEdge(l) = [node |-> canvas.node, edges |-> canvas.edges \ {l}]
    BY <1>0 DEF RemoveEdge
  <2> QED BY <1>c, <1>r, <2>1
<1>5. ASSUME NEW d, NEW p, p \in Places PROVE ApplyMove(d, p) \in Canvas
  <2>1. CASE OnCanvas(d)
    <3>1. ApplyMove(d, p) = [node |-> [canvas.node EXCEPT ![d].at = p], edges |-> canvas.edges]
      BY <1>0, <2>1 DEF ApplyMove
    <3> QED BY <1>c, <1>r, <1>5, <2>1, <3>1, NodeChanged DEF OnCanvas
  <2> QED BY <2>1 DEF ApplyMove
<1>6. ASSUME NEW d, NEW n, n \in Names PROVE PatchNode(d, n) \in Canvas
  <2>1. CASE OnCanvas(d)
    <3>1. PatchNode(d, n) = [node |-> [canvas.node EXCEPT ![d].name = n], edges |-> canvas.edges]
      BY <1>0, <2>1 DEF PatchNode
    <3> QED BY <1>c, <1>r, <1>6, <2>1, <3>1, NodeChanged DEF OnCanvas
  <2> QED BY <2>1 DEF PatchNode
<1>7. ASSUME NEW d \in DOMAIN canvas.node PROVE SnapshotNodeSet(d) \in Canvas
  <2>1. canvas.node[d] \in Node /\ d \in CanvasDevices
    BY <1>0, PartialsAre, NodeChanged DEF NodeRecords
  <2>2. [x \in {d} |-> canvas.node[d]] \in NodeRecords
    BY <2>1, PartialOfOne DEF NodeRecords
  <2> QED BY <1>0, <2>2, CanvasIs DEF SnapshotNodeSet
<1> QED BY <1>1, <1>2, <1>3, <1>4, <1>5, <1>6, <1>7

\* The oldest entries go; the others stay in their order.
LEMMA TrimIs ==
  ASSUME NEW S, NEW s \in Seq(S)
  PROVE  \E k \in Nat :
           /\ k <= Len(s) /\ Len(TrimUndoStack(s)) = Len(s) - k
           /\ TrimUndoStack(s) \in Seq(S)
           /\ \A i \in 1..(Len(s) - k) : TrimUndoStack(s)[i] = s[i + k]
           /\ Len(s) <= MaxEntries => k = 0
           /\ Len(TrimUndoStack(s)) <= MaxEntries
<1>0. MaxEntries \in Nat /\ Len(s) \in Nat
  BY StackAssumption
<1>1. CASE Len(s) <= MaxEntries
  <2>1. TrimUndoStack(s) = s
    BY <1>0, <1>1 DEF TrimUndoStack
  <2>2. \A i \in 1..Len(s) : s[i] = s[i + 0]
    BY <1>0
  <2> WITNESS 0 \in Nat
  <2> QED BY <1>0, <1>1, <2>1, <2>2
<1>2. CASE Len(s) > MaxEntries
  <2> DEFINE k == Len(s) - MaxEntries
             t == SubSeq(s, k + 1, Len(s))
  <2>1. TrimUndoStack(s) = t
    BY <1>0, <1>2 DEF TrimUndoStack
  <2>2. k \in Nat /\ k <= Len(s) /\ MaxEntries = Len(s) - k
    BY <1>0, <1>2
  <2>3. \A i \in (k + 1)..Len(s) : s[i] \in S
    BY <1>0, <2>2, ElementOfSeq
  <2>4. t \in Seq(S) /\ Len(t) = MaxEntries /\ \A i \in 1..MaxEntries : t[i] = s[i + k]
    <3> HIDE DEF k
    <3>1. k + 1 \in Int /\ Len(s) \in Int
      BY <1>0, <2>2
    <3>2. /\ SubSeq(s, k + 1, Len(s)) \in Seq(S)
          /\ Len(SubSeq(s, k + 1, Len(s))) = IF k + 1 <= Len(s) THEN Len(s) - (k + 1) + 1 ELSE 0
      BY <2>3, <3>1, SubSeqProperties
    <3>3. \A i \in 1..(Len(s) - (k + 1) + 1) : SubSeq(s, k + 1, Len(s))[i] = s[(k + 1) + i - 1]
      BY <2>3, <3>1, SubSeqProperties
    <3>4. \A i \in 1..MaxEntries : i \in 1..(Len(s) - (k + 1) + 1) /\ (k + 1) + i - 1 = i + k
      BY <1>0, <2>2, <3>1
    <3> QED BY <1>0, <2>2, <3>2, <3>3, <3>4
  <2>5. t \in Seq(S) /\ Len(t) = Len(s) - k /\ \A i \in 1..(Len(s) - k) : t[i] = s[i + k]
    BY <2>2, <2>4
  <2>6. Len(t) <= MaxEntries /\ ~(Len(s) <= MaxEntries)
    BY <1>0, <1>2, <2>4
  <2> HIDE DEF k, t
  <2> QED BY <2>1, <2>2, <2>5, <2>6
<1>3. Len(s) <= MaxEntries \/ Len(s) > MaxEntries
  BY <1>0
<1> QED BY <1>1, <1>2, <1>3

\* What lies below the top of a stack.
LEMMA PopIs ==
  ASSUME NEW S, NEW s \in Seq(S), s # <<>>
  PROVE  /\ WithoutTop(s) \in Seq(S) /\ Len(WithoutTop(s)) = Len(s) - 1 /\ Len(s) \in Nat \ {0}
         /\ \A i \in 1..(Len(s) - 1) : WithoutTop(s)[i] = s[i]
         /\ TopEntry(s) = s[Len(s)] /\ TopEntry(s) \in S
<1>0. Len(s) \in Nat \ {0}
  BY EmptySeq
<1>1. \A i \in 1..(Len(s) - 1) : s[i] \in S
  BY <1>0, ElementOfSeq
<1> DEFINE n == Len(s) - 1
           t == SubSeq(s, 1, n)
<1>2. n \in Nat /\ n \in Int /\ \A i \in 1..n : s[i] \in S
  BY <1>0, <1>1
<1>3. /\ t \in Seq(S)
      /\ Len(t) = IF 1 <= n THEN n - 1 + 1 ELSE 0
      /\ \A i \in 1..(n - 1 + 1) : t[i] = s[1 + i - 1]
  <2> HIDE DEF n
  <2> QED BY <1>2, SubSeqProperties
<1>5. s[Len(s)] \in S
  BY <1>0, ElementOfSeq
<1>6. Len(t) = n /\ \A i \in 1..n : t[i] = s[i]
  <2> HIDE DEF t, n
  <2> QED BY <1>2, <1>3
<1>7. WithoutTop(s) = t
  BY DEF WithoutTop
<1> HIDE DEF t
<1> QED BY <1>0, <1>3, <1>5, <1>6, <1>7 DEF TopEntry

\* The top of a sound stack is an entry, and what lies below it is sound.
LEMMA SoundTop ==
  ASSUME NEW s, NEW n, Sound(s, n), s # <<>>
  PROVE  /\ Sound(WithoutTop(s), n) /\ Stacked(TopEntry(s)) /\ TopEntry(s).id <= n
         /\ Lacks(WithoutTop(s), TopEntry(s).id)
         /\ Len(WithoutTop(s)) = Len(s) - 1 /\ Len(s) \in Nat \ {0}
         /\ \A i \in 1..(Len(s) - 1) : WithoutTop(s)[i] = s[i]
<1>1. s \in Seq(EntryRecords)
  BY DEF Sound
<1>2. /\ WithoutTop(s) \in Seq(EntryRecords) /\ Len(WithoutTop(s)) = Len(s) - 1
      /\ Len(s) \in Nat \ {0} /\ TopEntry(s) = s[Len(s)]
      /\ \A i \in 1..(Len(s) - 1) : WithoutTop(s)[i] = s[i]
  BY <1>1, PopIs
<1>3. Len(s) \in 1..Len(s) /\ \A i \in 1..(Len(s) - 1) : i \in 1..Len(s) /\ i # Len(s)
  BY <1>2
<1> QED BY <1>2, <1>3 DEF Sound, Lacks

\* A stack stays sound with an entry that it lacks on top,
LEMMA SoundAppend ==
  ASSUME NEW s, NEW n, Sound(s, n), NEW e, Stacked(e), e.id <= n, Lacks(s, e.id)
  PROVE  /\ Sound(Append(s, e), n) /\ Len(Append(s, e)) = Len(s) + 1 /\ Len(s) \in Nat
         /\ Append(s, e)[Len(s) + 1] = e
         /\ \A i \in 1..Len(s) : Append(s, e)[i] = s[i]
<1>1. s \in Seq(EntryRecords) /\ e \in EntryRecords
  BY DEF Sound, Stacked, EntryFits
<1> DEFINE t == Append(s, e)
<1>2. /\ t \in Seq(EntryRecords) /\ Len(t) = Len(s) + 1 /\ Len(s) \in Nat
      /\ t[Len(s) + 1] = e /\ \A i \in 1..Len(s) : t[i] = s[i]
  BY <1>1, AppendProperties
<1> HIDE DEF t
<1>3. \A i \in 1..(Len(s) + 1) : i = Len(s) + 1 \/ i \in 1..Len(s)
  BY <1>2
<1>4. \A i \in 1..Len(t) : Stacked(t[i]) /\ t[i].id <= n
  BY <1>2, <1>3 DEF Sound
<1>5. \A i, j \in 1..Len(t) : t[i].id = t[j].id => i = j
  BY <1>2, <1>3 DEF Sound, Lacks
<1>6. Sound(t, n)
  BY <1>2, <1>4, <1>5 DEF Sound
<1> QED BY <1>2, <1>6 DEF t

\* and without its oldest entries.
LEMMA SoundTrim ==
  ASSUME NEW s, NEW n, Sound(s, n)
  PROVE  /\ Sound(TrimUndoStack(s), n)
         /\ Len(TrimUndoStack(s)) <= MaxEntries
         /\ Len(s) <= MaxEntries => Len(TrimUndoStack(s)) = Len(s)
         /\ \A i \in 1..Len(TrimUndoStack(s)) : \E j \in 1..Len(s) : TrimUndoStack(s)[i] = s[j]
<1>1. s \in Seq(EntryRecords)
  BY DEF Sound
<1> DEFINE t == TrimUndoStack(s)
<1>2. PICK k \in Nat :
        /\ k <= Len(s) /\ Len(t) = Len(s) - k
        /\ t \in Seq(EntryRecords)
        /\ \A i \in 1..(Len(s) - k) : t[i] = s[i + k]
        /\ Len(s) <= MaxEntries => k = 0
        /\ Len(t) <= MaxEntries
  BY <1>1, TrimIs
<1> HIDE DEF t
<1>3. Len(s) \in Nat
  BY <1>1
<1>4. \A i \in 1..Len(t) : i + k \in 1..Len(s) /\ t[i] = s[i + k]
  BY <1>2, <1>3
<1>5. \A i, j \in 1..Len(t) : i + k = j + k => i = j
  BY <1>2, <1>3
<1>6. Sound(t, n)
  BY <1>2, <1>4, <1>5 DEF Sound
<1>7. \A i \in 1..Len(t) : \E j \in 1..Len(s) : t[i] = s[j]
  BY <1>4
<1> QED BY <1>2, <1>3, <1>6, <1>7 DEF t

\* What the user sees is a content.
LEMMA ContentTyped ==
  ASSUME NEW srv \in Server, NEW cnv \in Canvas
  PROVE  ContentOf(srv, cnv) \in AnyContent
BY CanvasIs DEF ContentOf, AnyContent, LinkCount

\* An entry to begin with.
LEMMA BlankTyped ==
  /\ Blank \in EntryRecords /\ NoKept \in KeptRecords /\ NoSight \in Canvas
  /\ NoEntryCall \in EntryCalls
<1>1. [d \in {} |-> NoId] \in NodeRecords
  <2>1. [d \in {} |-> NoId] \in [{} -> Node]
    OBVIOUS
  <2> QED BY <2>1 DEF NodeRecords, Partial
<1>2. NoSight \in Canvas
  BY <1>1, CanvasIs DEF NoSight
<1>3. NoKept \in KeptRecords
  BY DEF NoKept, KeptRecords, LinkOrNone
<1>4. 0 \in 0..MaxActions
  BY StackAssumption
<1>5. Blank \in EntryRecords
  BY <1>2, <1>3, <1>4 DEF Blank, EntryRecords, Kinds, Values, LinkOrNone
<1> QED BY <1>2, <1>3, <1>5 DEF NoEntryCall, EntryCalls, LinkOrNone

\* A stack without entries is sound,
LEMMA SoundEmpty ==
  ASSUME NEW n
  PROVE  Sound(<<>>, n) /\ Len(<<>>) = 0
<1>1. <<>> \in Seq(EntryRecords) /\ Len(<<>>) = 0
  BY EmptySeq
<1>2. \A i \in 1..0 : FALSE
  OBVIOUS
<1> QED BY <1>1, <1>2 DEF Sound

\* and a sound one stays so after further actions.
LEMMA SoundLater ==
  ASSUME NEW s, NEW n \in Int, NEW m \in Int, n <= m, Sound(s, n)
  PROVE  Sound(s, m)
<1>1. \A i \in 1..Len(s) : s[i].id \in Int
  BY StackAssumption DEF Sound, Stacked, EntryFits, EntryRecords
<1> QED BY <1>1 DEF Sound

\* A new entry on the undo stack.
LEMMA PushKeeps ==
  ASSUME StacksSound, actions \in Nat, actions' \in Nat, actions <= actions',
         NEW e, Stacked(e), e.id <= actions', Lacks(undoStack, e.id), PushEntry(e)
  PROVE  StacksSound'
<1>1. Sound(undoStack, actions')
  BY SoundLater DEF StacksSound
<1> DEFINE a == Append(undoStack, e)
<1>2. Sound(a, actions')
  BY <1>1, SoundAppend
<1> HIDE DEF a
<1>3. undoStack' = TrimUndoStack(a) /\ redoStack' = <<>>
  BY DEF PushEntry, a
<1>4. Sound(undoStack', actions') /\ Len(undoStack') <= MaxEntries
  BY <1>2, <1>3, SoundTrim
<1>5. Sound(redoStack', actions') /\ Len(redoStack') = 0
  BY <1>3, SoundEmpty
<1>6. Apart(undoStack, redoStack)'
  BY <1>5 DEF Apart
<1>7. Len(undoStack') + Len(redoStack') <= MaxEntries
  <2>1. Len(undoStack') \in Nat
    BY <1>4 DEF Sound
  <2> QED BY <1>4, <1>5, <2>1
<1> QED BY <1>4, <1>5, <1>6, <1>7 DEF StacksSound

\* An entry that goes from the top of one stack to the other.
LEMMA ShiftKeeps ==
  ASSUME StacksSound, actions \in Nat, actions' = actions, NEW way \in {"undo", "redo"},
         Source(way) # <<>>, NEW e, Stacked(e), e.id = TopEntry(Source(way)).id, ShiftEntry(way, e)
  PROVE  StacksSound'
<1>1. /\ Sound(undoStack, actions) /\ Sound(redoStack, actions) /\ Apart(undoStack, redoStack)
      /\ Len(undoStack) + Len(redoStack) <= MaxEntries
  BY DEF StacksSound
<1>2. ASSUME NEW s, NEW t, Sound(s, actions), Sound(t, actions), Apart(s, t), s # <<>>,
             e.id = TopEntry(s).id
      PROVE  /\ Sound(WithoutTop(s), actions) /\ Sound(Append(t, e), actions)
             /\ Apart(WithoutTop(s), Append(t, e))
             /\ Len(WithoutTop(s)) = Len(s) - 1 /\ Len(Append(t, e)) = Len(t) + 1
             /\ Len(s) \in Nat /\ Len(t) \in Nat
  <2>1. /\ Sound(WithoutTop(s), actions) /\ e.id <= actions /\ Lacks(WithoutTop(s), e.id)
        /\ Len(WithoutTop(s)) = Len(s) - 1 /\ Len(s) \in Nat \ {0}
        /\ \A i \in 1..(Len(s) - 1) : WithoutTop(s)[i] = s[i]
    BY <1>2, SoundTop
  <2>2. Len(s) \in 1..Len(s) /\ TopEntry(s) = s[Len(s)] /\ \A i \in 1..(Len(s) - 1) : i \in 1..Len(s)
    BY <2>1 DEF TopEntry
  <2>3. Lacks(t, e.id)
    BY <1>2, <2>2 DEF Lacks, Apart
  <2> DEFINE a == Append(t, e)
  <2>4. /\ Sound(a, actions) /\ Len(a) = Len(t) + 1 /\ Len(t) \in Nat
        /\ a[Len(t) + 1] = e /\ \A i \in 1..Len(t) : a[i] = t[i]
    BY <1>2, <2>1, <2>3, SoundAppend
  <2> HIDE DEF a
  <2>5. \A i \in 1..Len(a) : i = Len(t) + 1 \/ i \in 1..Len(t)
    BY <2>4
  <2>6. Apart(WithoutTop(s), a)
    BY <1>2, <2>1, <2>2, <2>4, <2>5 DEF Apart, Lacks
  <2> QED BY <2>1, <2>4, <2>6 DEF a
<1>3. Apart(redoStack, undoStack)
  BY <1>1 DEF Apart
<1>4. CASE way = "undo"
  <2>1. Source(way) = undoStack /\ undoStack' = WithoutTop(undoStack) /\ redoStack' = Append(redoStack, e)
    BY <1>4 DEF Source, ShiftEntry
  <2>2. /\ Sound(undoStack', actions) /\ Sound(redoStack', actions) /\ Apart(undoStack', redoStack')
        /\ Len(undoStack') = Len(undoStack) - 1 /\ Len(redoStack') = Len(redoStack) + 1
        /\ Len(undoStack) \in Nat /\ Len(redoStack) \in Nat
    BY <1>1, <1>2, <2>1
  <2>3. Len(undoStack') + Len(redoStack') <= MaxEntries
    BY <1>1, <2>2
  <2> QED BY <2>2, <2>3 DEF StacksSound
<1>5. CASE way = "redo"
  <2> DEFINE a == Append(undoStack, e)
  <2>1. Source(way) = redoStack /\ redoStack' = WithoutTop(redoStack) /\ undoStack' = TrimUndoStack(a)
    BY <1>5 DEF Source, ShiftEntry
  <2>2. /\ Sound(redoStack', actions) /\ Sound(a, actions) /\ Apart(redoStack', a)
        /\ Len(redoStack') = Len(redoStack) - 1 /\ Len(a) = Len(undoStack) + 1
        /\ Len(undoStack) \in Nat /\ Len(redoStack) \in Nat
    BY <1>1, <1>2, <1>3, <2>1
  <2> HIDE DEF a
  <2>3. Len(a) <= MaxEntries
    <3>1. Len(redoStack) # 0
      BY <2>1, EmptySeq, <1>1 DEF Sound
    <3> QED BY <1>1, <2>2, <3>1, StackAssumption
  <2>4. /\ Sound(undoStack', actions) /\ Len(undoStack') = Len(a)
        /\ \A i \in 1..Len(undoStack') : \E j \in 1..Len(a) : undoStack'[i] = a[j]
    BY <2>1, <2>2, <2>3, SoundTrim
  <2>5. Apart(undoStack', redoStack')
    <3>1. \A i \in 1..Len(redoStack'), j \in 1..Len(a) : redoStack'[i].id # a[j].id
      BY <2>2 DEF Apart
    <3> QED BY <2>4, <3>1 DEF Apart
  <2>6. Len(undoStack') + Len(redoStack') <= MaxEntries
    BY <1>1, <2>2, <2>4
  <2> QED BY <2>2, <2>4, <2>5, <2>6 DEF StacksSound
<1> QED BY <1>4, <1>5

\* Nothing else happens to the stacks.
LEMMA StacksStay ==
  ASSUME StacksSound, actions \in Nat, actions' \in Nat, actions <= actions',
         undoStack' = undoStack, redoStack' = redoStack
  PROVE  StacksSound'
<1>1. Sound(undoStack, actions') /\ Sound(redoStack, actions')
  BY SoundLater DEF StacksSound
<1> QED BY <1>1 DEF StacksSound, Apart

\* A stack lacks what it has lacked, also without its oldest entries.
LEMMA TrimLacks ==
  ASSUME NEW a \in Seq(EntryRecords), NEW id, Lacks(a, id)
  PROVE  Lacks(TrimUndoStack(a), id)
<1>1. PICK k \in Nat :
        /\ k <= Len(a) /\ Len(TrimUndoStack(a)) = Len(a) - k
        /\ TrimUndoStack(a) \in Seq(EntryRecords)
        /\ \A i \in 1..(Len(a) - k) : TrimUndoStack(a)[i] = a[i + k]
        /\ Len(a) <= MaxEntries => k = 0
        /\ Len(TrimUndoStack(a)) <= MaxEntries
  BY TrimIs
<1>2. \A i \in 1..(Len(a) - k) : i + k \in 1..Len(a)
  BY <1>1
<1> QED BY <1>1, <1>2 DEF Lacks

\* An action that no entry is of has none afterwards, but for the new entry.
LEMMA PushLacks ==
  ASSUME StacksSound, NEW e \in EntryRecords, NEW id, id # e.id, Lacks(undoStack, id), PushEntry(e)
  PROVE  Lacks(undoStack', id) /\ Lacks(redoStack', id)
<1>1. undoStack \in Seq(EntryRecords)
  BY DEF StacksSound, Sound
<1> DEFINE a == Append(undoStack, e)
<1>2. /\ a \in Seq(EntryRecords) /\ Len(a) = Len(undoStack) + 1 /\ Len(undoStack) \in Nat
      /\ a[Len(undoStack) + 1] = e /\ \A i \in 1..Len(undoStack) : a[i] = undoStack[i]
  BY <1>1, AppendProperties
<1>3. undoStack' = TrimUndoStack(a) /\ redoStack' = <<>>
  BY DEF PushEntry
<1> HIDE DEF a
<1>5. \A i \in 1..Len(a) : i = Len(undoStack) + 1 \/ i \in 1..Len(undoStack)
  BY <1>2
<1>6. Lacks(a, id)
  BY <1>2, <1>5 DEF Lacks
<1>8. Lacks(undoStack', id)
  BY <1>2, <1>3, <1>6, TrimLacks
<1>9. Lacks(<<>>, id)
  BY EmptySeq DEF Lacks
<1> QED BY <1>3, <1>8, <1>9

\* nor is there one after an entry has gone from one stack to the other.
LEMMA ShiftLacks ==
  ASSUME StacksSound, NEW way \in {"undo", "redo"}, Source(way) # <<>>, NEW e \in EntryRecords,
         e.id = TopEntry(Source(way)).id, ShiftEntry(way, e),
         NEW id, Lacks(undoStack, id), Lacks(redoStack, id)
  PROVE  Lacks(undoStack', id) /\ Lacks(redoStack', id)
<1>1. undoStack \in Seq(EntryRecords) /\ redoStack \in Seq(EntryRecords)
  BY DEF StacksSound, Sound
<1>2. ASSUME NEW s \in Seq(EntryRecords), s # <<>>, Lacks(s, id)
      PROVE  Lacks(WithoutTop(s), id) /\ TopEntry(s).id # id
  <2>1. /\ Len(WithoutTop(s)) = Len(s) - 1 /\ Len(s) \in Nat \ {0} /\ TopEntry(s) = s[Len(s)]
        /\ \A i \in 1..(Len(s) - 1) : WithoutTop(s)[i] = s[i]
    BY <1>2, PopIs
  <2>2. Len(s) \in 1..Len(s) /\ \A i \in 1..(Len(s) - 1) : i \in 1..Len(s)
    BY <2>1
  <2> QED BY <1>2, <2>1, <2>2 DEF Lacks
<1>3. ASSUME NEW s \in Seq(EntryRecords), Lacks(s, id), e.id # id
      PROVE  Lacks(Append(s, e), id) /\ Lacks(TrimUndoStack(Append(s, e)), id)
  <2> DEFINE a == Append(s, e)
  <2>1. /\ a \in Seq(EntryRecords) /\ Len(a) = Len(s) + 1 /\ Len(s) \in Nat
        /\ a[Len(s) + 1] = e /\ \A i \in 1..Len(s) : a[i] = s[i]
    BY <1>3, AppendProperties
  <2> HIDE DEF a
  <2>2. \A i \in 1..Len(a) : i = Len(s) + 1 \/ i \in 1..Len(s)
    BY <2>1
  <2>3. Lacks(a, id)
    BY <1>3, <2>1, <2>2 DEF Lacks
  <2>6. Lacks(TrimUndoStack(a), id)
    BY <2>1, <2>3, TrimLacks
  <2> QED BY <2>3, <2>6 DEF a
<1>4. CASE way = "undo"
  BY <1>1, <1>2, <1>3, <1>4 DEF Source, ShiftEntry
<1>5. CASE way = "redo"
  BY <1>1, <1>2, <1>3, <1>5 DEF Source, ShiftEntry
<1> QED BY <1>4, <1>5

\* An entry that has no number yet.
Unnumbered(e) ==
  /\ e \in EntryRecords
  /\ e.kind = "move" => e.d \in CanvasDevices /\ {e.from, e.to} \subseteq Places
  /\ e.kind = "field" => e.d \in CanvasDevices /\ {e.from, e.to} \subseteq Names
  /\ e.kind = "delete_node" => e.d \in CanvasDevices

\* With its number it is one.
LEMMA Numbered ==
  ASSUME NEW e, Unnumbered(e), NEW n \in 1..MaxActions, NEW c \in AnyContent
  PROVE  /\ EntryFits([e EXCEPT !.id = n, !.was = c])
         /\ \A x \in AnyContent : EntryFits([e EXCEPT !.id = n, !.was = c, !.now = x])
<1>0. e \in EntryRecords /\ n \in 0..MaxActions /\ n # 0
  BY StackAssumption DEF Unnumbered
<1>1. [e EXCEPT !.id = n, !.was = c] \in EntryRecords
  BY <1>0 DEF EntryRecords
<1>2. ASSUME NEW x \in AnyContent
      PROVE  EntryFits([e EXCEPT !.id = n, !.was = c, !.now = x])
  <2>1. [e EXCEPT !.id = n, !.was = c, !.now = x] \in EntryRecords
    BY <1>0 DEF EntryRecords
  <2>2. LET f == [e EXCEPT !.id = n, !.was = c, !.now = x]
        IN  f.id = n /\ f.kind = e.kind /\ f.d = e.d /\ f.from = e.from /\ f.to = e.to
    BY <1>0 DEF EntryRecords
  <2> QED BY <1>0, <2>1, <2>2 DEF EntryFits, Unnumbered
<1>3. LET f == [e EXCEPT !.id = n, !.was = c]
      IN  f.id = n /\ f.kind = e.kind /\ f.d = e.d /\ f.from = e.from /\ f.to = e.to
  BY <1>0 DEF EntryRecords
<1>4. EntryFits([e EXCEPT !.id = n, !.was = c])
  BY <1>0, <1>1, <1>3 DEF EntryFits, Unnumbered
<1> QED BY <1>2, <1>4

\* A request under way stays as it is, whatever happens to the stacks.
LEMMA RequestStays ==
  ASSUME RequestSound, pending' = pending, actions \in Nat, actions' \in Nat, actions <= actions',
         pending.way = "forward" =>
           Lacks(undoStack', pending.entry.id) /\ Lacks(redoStack', pending.entry.id)
  PROVE  RequestSound'
<1>1. waiting => pending.entry.id <= actions'
  <2>1. pending.entry.id \in Int
    BY StackAssumption DEF RequestSound, EntryCalls, EntryRecords
  <2> QED BY <2>1 DEF RequestSound
<1>2. waiting' = waiting /\ Op' = Op
  BY DEF waiting, Op
<1> QED BY <1>1, <1>2 DEF RequestSound

\* The next action is within the bound, and no entry has its number.
LEMMA NextNumber ==
  ASSUME StacksTyped, actions + writes < MaxActions
  PROVE  /\ actions + 1 \in 1..MaxActions /\ actions + 1 \in Nat /\ actions <= actions + 1
         /\ actions + 1 + writes <= MaxActions
         /\ Lacks(undoStack, actions + 1) /\ Lacks(redoStack, actions + 1)
         /\ waiting => pending.entry.id # actions + 1
<1>1. actions \in Nat /\ writes \in Nat /\ MaxActions \in Nat
  BY StackAssumption DEF StacksTyped
<1>2. /\ \A i \in 1..Len(undoStack) : undoStack[i].id <= actions /\ undoStack[i].id \in Int
      /\ \A i \in 1..Len(redoStack) : redoStack[i].id <= actions /\ redoStack[i].id \in Int
  BY StackAssumption DEF StacksTyped, StacksSound, Sound, Stacked, EntryFits, EntryRecords
<1>3. waiting => pending.entry.id <= actions /\ pending.entry.id \in Int
  BY StackAssumption DEF StacksTyped, RequestSound, EntryFits, EntryRecords
<1> QED BY <1>1, <1>2, <1>3 DEF Lacks

\* What the user does alone, without a request, keeps the types:
LEMMA CommitTyped ==
  ASSUME StacksTyped, NEW e, Unnumbered(e), e.kind # "delete_node",
         NEW srv \in Server, NEW cnv \in Canvas, Commit(e, srv, cnv)
  PROVE  StacksTyped'
<1>0. /\ actions + writes < MaxActions /\ inventory' = srv /\ canvas' = cnv
      /\ actions' = actions + 1 /\ linkIds' = linkIds /\ pending' = pending
      /\ writes' = writes /\ renamed' = renamed /\ overlap' = (overlap \/ waiting)
  BY DEF Commit, Overlapping
<1>1. /\ actions + 1 \in 1..MaxActions /\ actions + 1 \in Nat /\ actions <= actions + 1
      /\ actions + 1 + writes <= MaxActions
      /\ Lacks(undoStack, actions + 1) /\ Lacks(redoStack, actions + 1)
      /\ waiting => pending.entry.id # actions + 1
  BY <1>0, NextNumber
<1>2. StacksSound /\ RequestSound /\ actions \in Nat /\ writes \in Nat /\ linkIds \in SUBSET Links
      /\ overlap \in BOOLEAN /\ renamed \in BOOLEAN /\ inventory \in Server /\ canvas \in Canvas
  BY DEF StacksTyped
<1> DEFINE f == [e EXCEPT !.id = actions + 1, !.was = Content, !.now = ContentOf(srv, cnv)]
<1>3. PushEntry(f)
  BY DEF Commit
<1>4. Content \in AnyContent /\ ContentOf(srv, cnv) \in AnyContent
  BY <1>2, ContentTyped DEF Content
<1>5. EntryFits(f)
  BY <1>1, <1>4, Numbered
<1>6. f.id = actions + 1 /\ f.kind = e.kind /\ f \in EntryRecords
  <2>1. e \in EntryRecords
    BY DEF Unnumbered
  <2> QED BY <1>5, <2>1 DEF EntryFits, EntryRecords
<1> HIDE DEF f
<1>7. Stacked(f)
  BY <1>5, <1>6 DEF Stacked
<1>8. f.id <= actions' /\ Lacks(undoStack, f.id)
  BY <1>0, <1>1, <1>6
<1>9. StacksSound'
  BY <1>0, <1>1, <1>2, <1>3, <1>7, <1>8, PushKeeps
<1>10. RequestSound'
  <2>1. pending.way = "forward" =>
           Lacks(undoStack, pending.entry.id) /\ pending.entry.id # f.id
    BY <1>1, <1>2, <1>6 DEF RequestSound, waiting
  <2>2. pending.way = "forward" =>
           Lacks(undoStack', pending.entry.id) /\ Lacks(redoStack', pending.entry.id)
    BY <2>1, <1>2, <1>3, <1>6, PushLacks
  <2> QED BY <1>0, <1>1, <1>2, <2>2, RequestStays
<1>11. overlap' \in BOOLEAN
  BY <1>0, <1>2
<1> QED BY <1>0, <1>1, <1>2, <1>9, <1>10, <1>11 DEF StacksTyped

\* moves, removals from view, fields.
LEMMA MovesTyped ==
  ASSUME StacksTyped, CommitMoveGesture \/ CommitLocalRemoveFromView \/ PushFieldEntry
  PROVE  StacksTyped'
<1>0. /\ canvas \in Canvas /\ inventory \in Server /\ canvas.node \in NodeRecords
      /\ inventory.device \in Rows /\ DOMAIN canvas.node \in SUBSET CanvasDevices
  <2>1. canvas \in Canvas /\ inventory \in Server
    BY DEF StacksTyped
  <2>2. canvas.node \in NodeRecords /\ inventory.device \in Rows
    BY <2>1, CanvasIs
  <2> QED BY <2>1, <2>2, PartialsAre DEF NodeRecords
<1>1. CASE CommitMoveGesture
  <2>1. PICK d \in DOMAIN canvas.node, p \in Places :
          Commit([Blank EXCEPT !.kind = "move", !.d = d, !.from = canvas.node[d].at, !.to = p],
                 inventory, ApplyMove(d, p))
    BY <1>1 DEF CommitMoveGesture
  <2> DEFINE e == [Blank EXCEPT !.kind = "move", !.d = d, !.from = canvas.node[d].at, !.to = p]
  <2>2. canvas.node[d].at \in Places /\ d \in CanvasDevices
    BY <1>0, NodeChanged DEF Node
  <2>3. e \in EntryRecords /\ e.kind = "move" /\ e.d = d /\ e.from = canvas.node[d].at /\ e.to = p
    BY <2>2, BlankTyped DEF EntryRecords, Kinds, Values
  <2> HIDE DEF e
  <2>4. Unnumbered(e) /\ e.kind # "delete_node"
    BY <2>2, <2>3 DEF Unnumbered
  <2>5. ApplyMove(d, p) \in Canvas
    BY <1>0, CanvasStays
  <2>6. Commit(e, inventory, ApplyMove(d, p))
    BY <2>1 DEF e
  <2> QED BY <1>0, <2>4, <2>5, <2>6, CommitTyped
<1>2. CASE CommitLocalRemoveFromView
  <2>1. PICK d \in DOMAIN canvas.node :
          Commit([Blank EXCEPT !.kind = "remove_from_view", !.d = d, !.sight = SnapshotNodeSet(d)],
                 inventory, ApplySnapshotRemoval(SnapshotNodeSet(d)))
    BY <1>2 DEF CommitLocalRemoveFromView
  <2> DEFINE e == [Blank EXCEPT !.kind = "remove_from_view", !.d = d, !.sight = SnapshotNodeSet(d)]
  <2>2. SnapshotNodeSet(d) \in Canvas /\ d \in CanvasDevices
    BY <1>0, CanvasStays
  <2>3. e \in EntryRecords /\ e.kind = "remove_from_view"
    BY <2>2, BlankTyped DEF EntryRecords, Kinds
  <2> HIDE DEF e
  <2>4. Unnumbered(e) /\ e.kind # "delete_node"
    BY <2>3 DEF Unnumbered
  <2>5. ApplySnapshotRemoval(SnapshotNodeSet(d)) \in Canvas
    BY <1>0, <2>2, CanvasStays
  <2>6. Commit(e, inventory, ApplySnapshotRemoval(SnapshotNodeSet(d)))
    BY <2>1 DEF e
  <2> QED BY <1>0, <2>4, <2>5, <2>6, CommitTyped
<1>3. CASE PushFieldEntry
  <2>1. PICK d \in DOMAIN canvas.node, n \in Names :
          /\ d \in DOMAIN inventory.device
          /\ Commit([Blank EXCEPT !.kind = "field", !.d = d, !.from = inventory.device[d], !.to = n],
                    [inventory EXCEPT !.device[d] = n], PatchNode(d, n))
    BY <1>3 DEF PushFieldEntry
  <2> DEFINE e == [Blank EXCEPT !.kind = "field", !.d = d, !.from = inventory.device[d], !.to = n]
             srv == [inventory EXCEPT !.device[d] = n]
  <2>2. inventory.device[d] \in Names /\ d \in CanvasDevices
    BY <1>0, <2>1, PartialsAre DEF Rows
  <2>3. e \in EntryRecords /\ e.kind = "field" /\ e.d = d /\ e.from = inventory.device[d] /\ e.to = n
    BY <2>2, BlankTyped DEF EntryRecords, Kinds, Values
  <2>4. srv \in Server
    <3>1. [inventory.device EXCEPT ![d] = n] \in Rows
      BY <1>0, <2>1, PartialChanged DEF Rows
    <3>2. inventory.link \in LinkOrNone /\ inventory \in [device : Rows, link : LinkOrNone]
      BY <1>0, CanvasIs
    <3>3. srv \in [device : Rows, link : LinkOrNone]
      BY <3>1, <3>2
    <3> QED BY <3>3, CanvasIs
  <2>5. PatchNode(d, n) \in Canvas
    BY <1>0, CanvasStays
  <2>6. Commit(e, srv, PatchNode(d, n))
    BY <2>1
  <2> HIDE DEF e, srv
  <2>7. Unnumbered(e) /\ e.kind # "delete_node"
    BY <2>2, <2>3 DEF Unnumbered
  <2> QED BY <2>4, <2>5, <2>6, <2>7, CommitTyped
<1> QED BY <1>1, <1>2, <1>3

\* A request is made of a fitting entry, and nothing else changes.
LEMMA AskTyped ==
  ASSUME StacksTyped, NEW way \in {"forward", "undo", "redo"}, NEW e, Ask(way, e),
         EntryFits(e), ~Local(e), e.id <= actions',
         actions' \in Nat, actions <= actions', actions' + writes <= MaxActions,
         way = "forward" => e.kind # "field" /\ Lacks(undoStack, e.id) /\ Lacks(redoStack, e.id),
         way # "forward" => Stacked(e)
  PROVE  StacksTyped'
<1>0. /\ pending' = [NoEntryCall EXCEPT !.way = way, !.at = "asked", !.entry = e]
      /\ inventory' = inventory /\ linkIds' = linkIds /\ canvas' = canvas /\ writes' = writes
      /\ undoStack' = undoStack /\ redoStack' = redoStack /\ overlap' = overlap /\ renamed' = renamed
  BY DEF Ask
<1>1. e \in EntryRecords
  BY DEF EntryFits
<1>2. /\ pending' \in EntryCalls /\ pending'.way = way /\ pending'.at = "asked"
      /\ pending'.entry = e
  BY <1>0, <1>1, BlankTyped DEF EntryCalls
<1>3. StacksSound'
  BY <1>0, StacksStay DEF StacksTyped
<1>4. RequestSound'
  BY <1>0, <1>2 DEF RequestSound, waiting
<1> QED BY <1>0, <1>3, <1>4 DEF StacksTyped

\* What the user asks for gets the next number.
LEMMA RequestTyped ==
  ASSUME StacksTyped, NEW e, Unnumbered(e), ~Local(e), e.kind # "field", RequestCanvasAction(e)
  PROVE  StacksTyped'
<1>0. actions + writes < MaxActions /\ actions' = actions + 1
  BY DEF RequestCanvasAction
<1>1. /\ actions + 1 \in 1..MaxActions /\ actions + 1 \in Nat /\ actions <= actions + 1
      /\ actions + 1 + writes <= MaxActions
      /\ Lacks(undoStack, actions + 1) /\ Lacks(redoStack, actions + 1)
  BY <1>0, NextNumber
<1> DEFINE f == [e EXCEPT !.id = actions + 1, !.was = Content]
<1>2. Ask("forward", f)
  BY DEF RequestCanvasAction
<1>3. Content \in AnyContent
  BY ContentTyped DEF Content, StacksTyped
<1>4. EntryFits(f)
  BY <1>1, <1>3, Numbered
<1>5. f.id = actions + 1 /\ f.kind = e.kind
  BY DEF Unnumbered, EntryRecords
<1> HIDE DEF f
<1>6. ~Local(f)
  BY <1>5 DEF Local
<1>7. f.id <= actions' /\ Lacks(undoStack, f.id) /\ Lacks(redoStack, f.id) /\ f.kind # "field"
  BY <1>0, <1>1, <1>5
<1> QED BY <1>0, <1>1, <1>2, <1>4, <1>6, <1>7, AskTyped

\* A connection to make, one to delete, a device to delete.
LEMMA RequestsTyped ==
  ASSUME StacksTyped, RequestCreateEdge \/ RequestDeleteEdge \/ RequestDeleteNode
  PROVE  StacksTyped'
<1>0. /\ canvas \in Canvas /\ canvas.edges \in SUBSET Links
      /\ DOMAIN canvas.node \in SUBSET CanvasDevices
  <2>1. canvas \in Canvas
    BY DEF StacksTyped
  <2>2. canvas.node \in NodeRecords /\ canvas.edges \in SUBSET Links
    BY <2>1, CanvasIs
  <2> QED BY <2>1, <2>2, PartialsAre DEF NodeRecords
<1>1. CASE RequestCreateEdge
  <2> DEFINE e == [Blank EXCEPT !.kind = "create_edge"]
  <2>1. e \in EntryRecords /\ e.kind = "create_edge"
    BY BlankTyped DEF EntryRecords, Kinds
  <2>2. RequestCanvasAction(e)
    BY <1>1 DEF RequestCreateEdge
  <2> HIDE DEF e
  <2>3. Unnumbered(e) /\ ~Local(e) /\ e.kind # "field"
    BY <2>1 DEF Unnumbered, Local
  <2> QED BY <2>2, <2>3, RequestTyped
<1>2. CASE RequestDeleteEdge
  <2>1. PICK l \in canvas.edges :
          RequestCanvasAction([Blank EXCEPT !.kind = "delete_edge", !.link = l])
    BY <1>2 DEF RequestDeleteEdge
  <2> DEFINE e == [Blank EXCEPT !.kind = "delete_edge", !.link = l]
  <2>2. e \in EntryRecords /\ e.kind = "delete_edge"
    BY <1>0, BlankTyped DEF EntryRecords, Kinds, LinkOrNone
  <2>3. RequestCanvasAction(e)
    BY <2>1
  <2> HIDE DEF e
  <2>4. Unnumbered(e) /\ ~Local(e) /\ e.kind # "field"
    BY <2>2 DEF Unnumbered, Local
  <2> QED BY <2>3, <2>4, RequestTyped
<1>3. CASE RequestDeleteNode
  <2>1. PICK d \in DOMAIN canvas.node :
          RequestCanvasAction([Blank EXCEPT !.kind = "delete_node", !.d = d,
                                            !.sight = SnapshotNodeSet(d)])
    BY <1>3 DEF RequestDeleteNode
  <2> DEFINE e == [Blank EXCEPT !.kind = "delete_node", !.d = d, !.sight = SnapshotNodeSet(d)]
  <2>2. SnapshotNodeSet(d) \in Canvas /\ d \in CanvasDevices
    BY <1>0, CanvasStays
  <2>3. e \in EntryRecords /\ e.kind = "delete_node" /\ e.d = d
    BY <2>2, BlankTyped DEF EntryRecords, Kinds
  <2>4. RequestCanvasAction(e)
    BY <2>1
  <2> HIDE DEF e
  <2>5. Unnumbered(e) /\ ~Local(e) /\ e.kind # "field"
    BY <2>2, <2>3 DEF Unnumbered, Local
  <2> QED BY <2>4, <2>5, RequestTyped
<1> QED BY <1>1, <1>2, <1>3

\* The top of a stack is an entry.
LEMMA SourceTop ==
  ASSUME StacksSound, NEW way \in {"undo", "redo"}, Source(way) # <<>>
  PROVE  Stacked(TopEntry(Source(way))) /\ TopEntry(Source(way)).id <= actions
BY SoundTop DEF StacksSound, Source

\* What is replayed in the browser leaves a canvas.
LEMMA ReplayedTyped ==
  ASSUME canvas \in Canvas, NEW e, Stacked(e), Local(e), NEW way \in {"undo", "redo"}
  PROVE  ApplyLocalOp(e, way) \in Canvas
<1>1. e.sight \in Canvas
  BY DEF Stacked, EntryFits, EntryRecords
<1>2. CASE e.kind = "move"
  <2>1. e.from \in Places /\ e.to \in Places
    BY <1>2 DEF Stacked, EntryFits
  <2>2. ApplyLocalOp(e, way) = ApplyMove(e.d, IF way = "undo" THEN e.from ELSE e.to)
    BY <1>2 DEF ApplyLocalOp
  <2> QED BY <2>1, <2>2, CanvasStays
<1>3. CASE e.kind = "remove_from_view"
  <2>1. CASE way = "undo"
    BY <1>1, <1>3, <2>1, CanvasStays DEF ApplyLocalOp
  <2>2. CASE way = "redo"
    BY <1>1, <1>3, <2>2, CanvasStays DEF ApplyLocalOp
  <2> QED BY <2>1, <2>2
<1> QED BY <1>2, <1>3 DEF Local

\* A replay, in the browser or asked of the server, keeps the types.
LEMMA ReplaysTyped ==
  ASSUME StacksTyped, NEW way \in {"undo", "redo"}, ReplayLocally(way) \/ ReplayByServer(way)
  PROVE  StacksTyped'
<1>0. /\ StacksSound /\ RequestSound /\ actions \in Nat /\ writes \in Nat /\ canvas \in Canvas
      /\ actions + writes <= MaxActions /\ overlap \in BOOLEAN
  BY DEF StacksTyped
<1> DEFINE e == TopEntry(Source(way))
<1>1. Source(way) # <<>>
  BY DEF ReplayLocally, ReplayByServer
<1>2. Stacked(e) /\ e.id <= actions /\ EntryFits(e) /\ e \in EntryRecords
  BY <1>0, <1>1, SourceTop DEF Stacked, EntryFits
<1>3. CASE ReplayLocally(way)
  <2>1. /\ Local(e) /\ canvas' = ApplyLocalOp(e, way) /\ ShiftEntry(way, e)
        /\ overlap' = (overlap \/ waiting)
        /\ inventory' = inventory /\ linkIds' = linkIds /\ pending' = pending
        /\ actions' = actions /\ writes' = writes /\ renamed' = renamed
    BY <1>3 DEF ReplayLocally, Overlapping
  <2>2. e.id = TopEntry(Source(way)).id
    OBVIOUS
  <2> HIDE DEF e
  <2>3. canvas' \in Canvas
    BY <1>0, <1>2, <2>1, ReplayedTyped
  <2>4. StacksSound'
    BY <1>0, <1>1, <1>2, <2>1, <2>2, ShiftKeeps
  <2>5. pending.way = "forward" =>
          Lacks(undoStack', pending.entry.id) /\ Lacks(redoStack', pending.entry.id)
    BY <1>0, <1>1, <1>2, <2>1, <2>2, ShiftLacks DEF RequestSound
  <2>6. actions' \in Nat /\ actions <= actions'
    BY <1>0, <2>1
  <2>7. RequestSound'
    BY <1>0, <2>1, <2>5, <2>6, RequestStays
  <2> QED BY <1>0, <2>1, <2>3, <2>4, <2>7 DEF StacksTyped
<1>4. CASE ReplayByServer(way)
  <2>1. Ask(way, e) /\ ~Local(e) /\ actions' = actions
    BY <1>4 DEF ReplayByServer
  <2> HIDE DEF e
  <2>2. e.id <= actions' /\ actions' \in Nat /\ actions <= actions' /\ actions' + writes <= MaxActions
    BY <1>0, <1>2, <2>1
  <2> QED BY <1>2, <2>1, <2>2, AskTyped
<1> QED BY <1>3, <1>4

\* What the server is asked to do tells of which entry it is.
LEMMA OpIs ==
  ASSUME RequestSound, waiting
  PROVE  /\ Op \in {"connect", "disconnect", "delete", "restore", "field"}
         /\ Op = "connect" => \/ pending.entry.kind = "create_edge" /\ pending.way # "undo"
                              \/ pending.entry.kind = "delete_edge" /\ pending.way = "undo"
         /\ Op = "disconnect" => \/ pending.entry.kind = "create_edge" /\ pending.way = "undo"
                                 \/ pending.entry.kind = "delete_edge" /\ pending.way # "undo"
         /\ Op = "delete" => /\ pending.entry.kind = "delete_node" /\ pending.way # "undo"
                             /\ pending.entry.d \in CanvasDevices
         /\ Op = "restore" => /\ pending.entry.kind = "delete_node" /\ pending.way = "undo"
                              /\ pending.entry.d \in CanvasDevices
                              /\ pending.entry.kept.name \in Names
         /\ Op = "field" => /\ pending.entry.kind = "field" /\ pending.way \in {"undo", "redo"}
                            /\ {pending.entry.from, pending.entry.to} \subseteq Names
<1>1. /\ EntryFits(pending.entry) /\ ~Local(pending.entry) /\ pending.way \in {"forward", "undo", "redo"}
      /\ pending.way = "undo" => Stacked(pending.entry)
      /\ pending.way = "forward" => pending.entry.kind # "field"
  BY DEF RequestSound, waiting, EntryCalls
<1>2. pending.entry.kind \in {"create_edge", "delete_edge", "delete_node", "field"}
  BY <1>1 DEF EntryFits, EntryRecords, Kinds, Local
<1> QED BY <1>1, <1>2 DEF Op, EntryFits, Stacked

\* An answer of the server keeps the types.
LEMMA AnswerTyped ==
  ASSUME StacksTyped, waiting, inventory' \in Server, linkIds' \in SUBSET Links,
         pending' \in EntryCalls, pending'.way = pending.way, pending'.entry = pending.entry,
         pending'.at \in {"done", "refused", "lost"},
         pending'.at = "done" /\ Op = "delete" => pending'.kept.name \in Names,
         pending'.at = "done" /\ Op = "connect" => pending'.link \in Links,
         UNCHANGED <<canvas, undoStack, redoStack, actions, writes, overlap, renamed>>
  PROVE  StacksTyped'
<1>1. StacksSound'
  BY StacksStay DEF StacksTyped
<1>2. Op' = Op /\ waiting'
  BY DEF Op, waiting
<1>3. RequestSound /\ actions' = actions
  BY DEF StacksTyped
<1>4. RequestSound'
  BY <1>2, <1>3 DEF RequestSound, waiting
<1> QED BY <1>1, <1>4 DEF StacksTyped

\* So does whatever the server does.
LEMMA ServeTyped ==
  ASSUME StacksTyped, Serve
  PROVE  StacksTyped'
<1>0. /\ RequestSound /\ inventory \in Server /\ linkIds \in SUBSET Links /\ pending \in EntryCalls
      /\ inventory.device \in Rows /\ inventory.link \in LinkOrNone
      /\ inventory \in [device : Rows, link : LinkOrNone]
  <2>1. RequestSound /\ inventory \in Server /\ linkIds \in SUBSET Links /\ pending \in EntryCalls
    BY DEF StacksTyped, RequestSound
  <2> QED BY <2>1, CanvasIs
<1>s. \A r \in Rows, l \in LinkOrNone : [device |-> r, link |-> l] \in Server
  BY CanvasIs
<1>w. waiting
  <2>1. pending.at \in {"asked", "done"}
    BY DEF Serve, CreateEdge, DeleteEdge, DeletePublishedDevice, RestorePublishedDevice,
           ApplyUndoableFieldPatch, RefuseEntry, EntryCallRaises, Asked
  <2> QED BY <1>0, <2>1 DEF RequestSound, NoEntryCall, waiting
<1>1. CASE CreateEdge
  <2>1. PICK l \in Links \ linkIds :
          /\ inventory' = [inventory EXCEPT !.link = l]
          /\ linkIds' = linkIds \cup {l}
          /\ pending' = [pending EXCEPT !.at = "done", !.link = l]
    BY <1>1 DEF CreateEdge
  <2>2. /\ Op = "connect"
        /\ UNCHANGED <<canvas, undoStack, redoStack, actions, writes, overlap, renamed>>
    BY <1>1 DEF CreateEdge, Asked
  <2>3. inventory' \in Server /\ linkIds' \in SUBSET Links
    <3>1. inventory' \in [device : Rows, link : LinkOrNone]
      BY <1>0, <2>1 DEF LinkOrNone
    <3> QED BY <1>0, <2>1, <3>1, CanvasIs
  <2>4. /\ pending' \in EntryCalls /\ pending'.way = pending.way /\ pending'.entry = pending.entry
        /\ pending'.at = "done" /\ pending'.link = l
    BY <1>0, <2>1 DEF EntryCalls, LinkOrNone
  <2> QED BY <1>w, <2>1, <2>2, <2>3, <2>4, AnswerTyped
<1>a. ASSUME NEW at \in {"done", "refused", "lost"}, NEW srv \in Server, Settled(at, srv),
             at = "done" => Op \notin {"delete", "connect"}
      PROVE  StacksTyped'
  <2>1. /\ inventory' = srv /\ linkIds' = linkIds /\ pending' = [pending EXCEPT !.at = at]
        /\ UNCHANGED <<canvas, undoStack, redoStack, actions, writes, overlap, renamed>>
    BY <1>a DEF Settled
  <2>2. /\ pending' \in EntryCalls /\ pending'.way = pending.way /\ pending'.entry = pending.entry
        /\ pending'.at = at
    BY <1>0, <2>1 DEF EntryCalls
  <2> QED BY <1>0, <1>a, <1>w, <2>1, <2>2, AnswerTyped
<1>2. CASE DeleteEdge
  <2>1. Op = "disconnect"
    BY <1>2 DEF DeleteEdge, Asked
  <2> DEFINE srv == IF inventory.link = pending.entry.link
                    THEN [inventory EXCEPT !.link = NoId] ELSE inventory
  <2>2. srv \in Server
    <3>1. [inventory EXCEPT !.link = NoId] \in [device : Rows, link : LinkOrNone]
      BY <1>0 DEF LinkOrNone
    <3> QED BY <1>0, <3>1, CanvasIs
  <2>3. Settled("done", srv)
    BY <1>2 DEF DeleteEdge
  <2> HIDE DEF srv
  <2> QED BY <1>a, <2>1, <2>2, <2>3
<1>3. CASE DeletePublishedDevice
  <2> DEFINE d == pending.entry.d
             k == [name |-> inventory.device[d], link |-> inventory.link]
             r == Without(inventory.device, {d})
  <2>1. /\ d \in DOMAIN inventory.device
        /\ inventory' = [device |-> r, link |-> NoId]
        /\ pending' = [pending EXCEPT !.at = "done", !.kept = k] /\ linkIds' = linkIds /\ Op = "delete"
        /\ UNCHANGED <<canvas, undoStack, redoStack, actions, writes, overlap, renamed>>
    BY <1>3 DEF DeletePublishedDevice, Asked
  <2>2. inventory.device[d] \in Names /\ r \in Rows
    BY <1>0, <2>1, PartialsAre, PartialWithout DEF Rows
  <2>3. k \in KeptRecords /\ k.name \in Names
    BY <1>0, <2>2 DEF KeptRecords
  <2> HIDE DEF d, r, k
  <2>4. inventory' \in Server
    BY <1>s, <2>1, <2>2 DEF LinkOrNone
  <2>5. /\ pending' \in EntryCalls /\ pending'.way = pending.way /\ pending'.entry = pending.entry
        /\ pending'.at = "done" /\ pending'.kept = k
    BY <1>0, <2>1, <2>3 DEF EntryCalls
  <2> QED BY <1>0, <1>w, <2>1, <2>3, <2>4, <2>5, AnswerTyped
<1>4. CASE RestorePublishedDevice
  <2> DEFINE d == pending.entry.d
             k == pending.entry.kept
             m == IF k.link # NoId THEN k.link ELSE inventory.link
             r == Over(inventory.device, [x \in {d} |-> k.name])
  <2>1. Settled("done", [device |-> r, link |-> m]) /\ Op = "restore"
    BY <1>4 DEF RestorePublishedDevice, Asked
  <2>2. d \in CanvasDevices /\ k.name \in Names
    BY <1>0, <1>w, <2>1, OpIs
  <2>3. k.link \in LinkOrNone
    BY <1>0 DEF EntryCalls, EntryRecords, KeptRecords
  <2>4. r \in Rows
    BY <1>0, <2>2, PartialOfOne, PartialOver DEF Rows
  <2>5. m \in LinkOrNone
    BY <1>0, <2>3
  <2> HIDE DEF d, k, m, r
  <2>6. [device |-> r, link |-> m] \in Server
    BY <1>s, <2>4, <2>5
  <2> QED BY <1>a, <2>1, <2>6
<1>5. CASE ApplyUndoableFieldPatch
  <2> DEFINE e == pending.entry
             n == IF pending.way = "undo" THEN e.from ELSE e.to
             r == [inventory.device EXCEPT ![e.d] = n]
  <2>1. /\ Op = "field" /\ e.d \in DOMAIN inventory.device
        /\ Settled("done", [inventory EXCEPT !.device[e.d] = n])
    BY <1>5 DEF ApplyUndoableFieldPatch, Asked
  <2>2. n \in Names
    BY <1>0, <1>w, <2>1, OpIs
  <2>3. r \in Rows
    BY <1>0, <2>1, <2>2, PartialChanged DEF Rows
  <2>4. [inventory EXCEPT !.device[e.d] = n] \in Server
    <3>1. [inventory EXCEPT !.device[e.d] = n] = [inventory EXCEPT !.device = r]
      BY <1>0
    <3> HIDE DEF r, n, e
    <3>2. [inventory EXCEPT !.device = r] \in [device : Rows, link : LinkOrNone]
      BY <1>0, <2>3
    <3> QED BY <3>1, <3>2, CanvasIs
  <2> QED BY <1>a, <2>1, <2>4
<1>6. CASE RefuseEntry
  BY <1>0, <1>a, <1>6 DEF RefuseEntry
<1>7. CASE EntryCallRaises
  BY <1>0, <1>a, <1>7 DEF EntryCallRaises
<1> QED BY <1>1, <1>2, <1>3, <1>4, <1>5, <1>6, <1>7 DEF Serve

\* An answered request: what it makes of the canvas,
LEMMA PatchTyped ==
  ASSUME StacksTyped, pending.at = "done"
  PROVE  GraphPatch \in Canvas
<1>0. /\ RequestSound /\ canvas \in Canvas /\ pending.entry.sight \in Canvas /\ waiting
  BY DEF StacksTyped, RequestSound, EntryCalls, EntryRecords, NoEntryCall, waiting
<1>1. CASE Op = "connect"
  <2>1. pending.link \in Links /\ GraphPatch = AddEdge(pending.link)
    BY <1>0, <1>1 DEF RequestSound, GraphPatch
  <2> QED BY <1>0, <2>1, CanvasStays
<1>2. CASE Op = "disconnect"
  BY <1>0, <1>2, CanvasStays DEF GraphPatch
<1>3. CASE Op = "delete"
  BY <1>0, <1>3, CanvasStays DEF GraphPatch
<1>4. CASE Op = "restore"
  BY <1>0, <1>4, CanvasStays DEF GraphPatch
<1>5. CASE Op = "field"
  <2>1. pending.entry.from \in Names /\ pending.entry.to \in Names
    BY <1>0, <1>5, OpIs
  <2>2. GraphPatch = PatchNode(pending.entry.d, IF pending.way = "undo" THEN pending.entry.from
                                                ELSE pending.entry.to)
    BY <1>5 DEF GraphPatch
  <2> QED BY <1>0, <2>1, <2>2, CanvasStays
<1> QED BY <1>0, <1>1, <1>2, <1>3, <1>4, <1>5, OpIs

\* and of its entry.
LEMMA PatchedTyped ==
  ASSUME StacksTyped, pending.at = "done"
  PROVE  LET e == pending.entry
             f == EntryPatch(e)
         IN  /\ Stacked(f) /\ f.id = e.id /\ f.kind = e.kind
             /\ \A x \in AnyContent : Stacked([f EXCEPT !.now = x]) /\ [f EXCEPT !.now = x].id = e.id
<1> DEFINE e == pending.entry
           f == EntryPatch(e)
<1>0. /\ RequestSound /\ EntryFits(e) /\ waiting /\ ~Local(e) /\ pending.kept \in KeptRecords
      /\ pending.way \in {"forward", "undo", "redo"}
  BY DEF StacksTyped, RequestSound, EntryCalls, NoEntryCall, waiting
<1>1. EntryFits(f) /\ f.id = e.id /\ f.kind = e.kind /\ (f.kind = "delete_node" => f.kept.name \in Names)
  <2>1. CASE Op = "connect"
    <3>1. pending.link \in Links /\ f = [e EXCEPT !.link = pending.link]
      BY <1>0, <2>1 DEF RequestSound, EntryPatch
    <3>2. f \in EntryRecords /\ f.id = e.id /\ f.kind = e.kind /\ f.d = e.d /\ f.from = e.from /\ f.to = e.to
      BY <1>0, <3>1 DEF EntryFits, EntryRecords, LinkOrNone
    <3>3. e.kind \in {"create_edge", "delete_edge"}
      BY <1>0, <2>1, OpIs
    <3> QED BY <1>0, <3>2, <3>3 DEF EntryFits
  <2>2. CASE Op = "delete"
    <3> DEFINE E == IF pending.way = "forward" THEN e.sight.edges ELSE {pending.kept.link} \ {NoId}
               g == [e EXCEPT !.kept = pending.kept, !.sight = [e.sight EXCEPT !.edges = E]]
    <3>1. e \in EntryRecords /\ e.sight \in [node : NodeRecords, edges : SUBSET Links]
      BY <1>0, CanvasIs DEF EntryFits, EntryRecords
    <3>2. f = g
      BY <2>2, <3>1 DEF EntryPatch, EntryRecords
    <3>3. E \in SUBSET Links
      BY <1>0, <3>1 DEF KeptRecords, LinkOrNone
    <3>4. [e.sight EXCEPT !.edges = E] \in Canvas
      <4> HIDE DEF E
      <4>1. [e.sight EXCEPT !.edges = E] \in [node : NodeRecords, edges : SUBSET Links]
        BY <3>1, <3>3
      <4> QED BY <4>1, CanvasIs
    <3>5. /\ g \in EntryRecords /\ g.id = e.id /\ g.kind = e.kind /\ g.d = e.d
          /\ g.from = e.from /\ g.to = e.to /\ g.kept = pending.kept
      <4> HIDE DEF E, e
      <4> QED BY <1>0, <3>1, <3>4 DEF EntryRecords
    <3>6. pending.kept.name \in Names
      BY <1>0, <2>2 DEF RequestSound
    <3> HIDE DEF e, f, g
    <3> QED BY <1>0, <3>2, <3>5, <3>6 DEF EntryFits
  <2>3. CASE Op \notin {"connect", "delete"}
    <3>1. f = e
      BY <2>3 DEF EntryPatch
    <3>2. Op = "restore" => e.kept.name \in Names
      BY <1>0, OpIs
    <3>3. e.kind = "delete_node" => Op \in {"restore", "delete"}
      BY DEF Op
    <3> QED BY <1>0, <2>3, <3>1, <3>2, <3>3
  <2> QED BY <2>1, <2>2, <2>3
<1> HIDE DEF f, e
<1>2. Stacked(f) /\ f \in EntryRecords
  BY <1>1 DEF Stacked, EntryFits
<1>3. ASSUME NEW x \in AnyContent PROVE Stacked([f EXCEPT !.now = x]) /\ [f EXCEPT !.now = x].id = f.id
  <2> DEFINE g == [f EXCEPT !.now = x]
  <2>1. /\ g \in EntryRecords /\ g.id = f.id /\ g.kind = f.kind /\ g.d = f.d /\ g.from = f.from
        /\ g.to = f.to /\ g.kept = f.kept
    BY <1>2 DEF EntryRecords
  <2> HIDE DEF g
  <2>2. Stacked(g) /\ g.id = f.id
    BY <1>1, <2>1 DEF Stacked, EntryFits
  <2> QED BY <2>2 DEF g
<1> QED BY <1>1, <1>2, <1>3 DEF f, e

\* When a request is over none is left.
LEMMA ReleaseSound ==
  ASSUME pending' = NoEntryCall
  PROVE  RequestSound'
<1>1. pending' \in EntryCalls /\ pending'.way = "none" /\ pending'.at = "none"
  BY BlankTyped DEF NoEntryCall
<1> QED BY <1>1 DEF RequestSound, waiting

\* The answer that the request has succeeded keeps the types,
LEMMA SucceedsTyped ==
  ASSUME StacksTyped, EntrySucceeds
  PROVE  StacksTyped'
<1> DEFINE e == pending.entry
           f == EntryPatch(e)
           way == pending.way
           src == Source(way)
           g == [f EXCEPT !.now = ContentOf(inventory, GraphPatch)]
<1>0. /\ pending.at = "done" /\ canvas' = GraphPatch /\ pending' = NoEntryCall
      /\ IF way = "forward" THEN PushEntry(g)
         ELSE IF src # <<>> /\ TopEntry(src).id = e.id THEN ShiftEntry(way, f)
         ELSE UNCHANGED <<undoStack, redoStack>>
      /\ renamed' = (renamed \/ /\ Op = "connect" /\ e.link # NoId
                                /\ \E s \in {undoStack, redoStack} : Mentions(s, e.link, e.id))
      /\ UNCHANGED <<inventory, linkIds, actions, writes, overlap>>
  BY DEF EntrySucceeds
<1>1. /\ StacksSound /\ RequestSound /\ actions \in Nat /\ inventory \in Server
      /\ renamed \in BOOLEAN /\ waiting /\ way \in {"forward", "undo", "redo"}
      /\ e.id <= actions
  BY <1>0 DEF StacksTyped, RequestSound, EntryCalls, NoEntryCall, waiting
<1>2. GraphPatch \in Canvas /\ ContentOf(inventory, GraphPatch) \in AnyContent
  BY <1>0, <1>1, PatchTyped, ContentTyped
<1>3. /\ Stacked(f) /\ f.id = e.id /\ Stacked(g) /\ g.id = e.id
  BY <1>0, <1>2, PatchedTyped
<1>4. way = "forward" => Lacks(undoStack, e.id)
  BY <1>1 DEF RequestSound
<1>5. actions' \in Nat /\ actions <= actions' /\ actions' = actions
  BY <1>0, <1>1
<1> HIDE DEF g, f, e, way, src
<1>6. StacksSound'
  <2>1. CASE way = "forward"
    <3>1. PushEntry(g)
      BY <1>0, <2>1
    <3> QED BY <1>1, <1>3, <1>4, <1>5, <2>1, <3>1, PushKeeps
  <2>2. CASE way # "forward" /\ src # <<>> /\ TopEntry(src).id = e.id
    <3>1. ShiftEntry(way, f)
      BY <1>0, <2>2
    <3>2. way \in {"undo", "redo"} /\ Source(way) # <<>> /\ f.id = TopEntry(Source(way)).id
      BY <1>1, <1>3, <2>2 DEF src
    <3> QED BY <1>1, <1>3, <1>5, <3>1, <3>2, ShiftKeeps
  <2>3. CASE way # "forward" /\ ~(src # <<>> /\ TopEntry(src).id = e.id)
    <3>1. undoStack' = undoStack /\ redoStack' = redoStack
      BY <1>0, <2>3
    <3> QED BY <1>1, <1>5, <3>1, StacksStay
  <2> QED BY <2>1, <2>2, <2>3
<1>7. RequestSound'
  BY <1>0, ReleaseSound
<1>8. renamed' \in BOOLEAN
  BY <1>0, <1>1
<1> QED BY <1>0, <1>2, <1>6, <1>7, <1>8 DEF StacksTyped

\* so does the one that it has failed.
LEMMA FailsTyped ==
  ASSUME StacksTyped, EntryFails
  PROVE  StacksTyped'
<1>0. /\ pending' = NoEntryCall
      /\ UNCHANGED <<inventory, linkIds, canvas, undoStack, redoStack, actions, writes, overlap, renamed>>
  BY DEF EntryFails
<1>1. StacksSound' /\ RequestSound'
  BY <1>0, StacksStay, ReleaseSound DEF StacksTyped
<1> QED BY <1>0, <1>1 DEF StacksTyped

\* The writes of other users leave the browser as it is.
LEMMA OthersTyped ==
  ASSUME StacksTyped, OthersWrite
  PROVE  StacksTyped'
<1>0. /\ writes' = writes + 1 /\ actions + writes < MaxActions
      /\ UNCHANGED <<canvas, undoStack, redoStack, pending, actions, overlap, renamed>>
  BY DEF OthersWrite
<1>1. /\ inventory \in [device : Rows, link : LinkOrNone] /\ linkIds \in SUBSET Links
      /\ actions \in Nat /\ writes \in Nat /\ MaxActions \in Nat
      /\ StacksSound /\ RequestSound /\ inventory \in Server
  BY CanvasIs, StackAssumption DEF StacksTyped
<1>s. \A r \in Rows, l \in LinkOrNone : [device |-> r, link |-> l] \in Server
  BY CanvasIs
<1>2. inventory' \in Server /\ linkIds' \in SUBSET Links
  <2>1. ASSUME NEW d \in DOMAIN inventory.device,
               inventory' = [device |-> Without(inventory.device, {d}), link |-> NoId],
               linkIds' = linkIds
        PROVE  inventory' \in Server /\ linkIds' \in SUBSET Links
    <3>1. Without(inventory.device, {d}) \in Rows
      BY <1>1, PartialWithout DEF Rows
    <3> QED BY <1>1, <1>s, <2>1, <3>1 DEF LinkOrNone
  <2>2. ASSUME NEW d \in DOMAIN inventory.device, NEW n \in Names,
               inventory' = [inventory EXCEPT !.device[d] = n], linkIds' = linkIds
        PROVE  inventory' \in Server /\ linkIds' \in SUBSET Links
    <3> DEFINE r == [inventory.device EXCEPT ![d] = n]
    <3>1. r \in Rows
      BY <1>1, PartialChanged DEF Rows
    <3>2. inventory' = [inventory EXCEPT !.device = r]
      BY <1>1, <2>2
    <3> HIDE DEF r
    <3>3. inventory' \in [device : Rows, link : LinkOrNone]
      BY <1>1, <3>1, <3>2
    <3> QED BY <1>1, <2>2, <3>3, CanvasIs
  <2>3. ASSUME NEW l \in LinkOrNone, inventory' = [inventory EXCEPT !.link = l],
               linkIds' \in SUBSET Links
        PROVE  inventory' \in Server /\ linkIds' \in SUBSET Links
    <3>1. inventory' \in [device : Rows, link : LinkOrNone]
      BY <1>1, <2>3
    <3> QED BY <2>3, <3>1, CanvasIs
  <2>4. NoId \in LinkOrNone /\ \A l \in Links : l \in LinkOrNone /\ linkIds \cup {l} \in SUBSET Links
    BY <1>1 DEF LinkOrNone
  <2> QED BY <1>1, <2>1, <2>2, <2>3, <2>4 DEF OthersWrite
<1>3. StacksSound'
  BY <1>0, <1>1, StacksStay
<1>4. RequestSound'
  <2>1. waiting' = waiting /\ Op' = Op
    BY <1>0 DEF waiting, Op
  <2> QED BY <1>0, <1>1, <2>1 DEF RequestSound
<1> QED BY <1>0, <1>1, <1>2, <1>3, <1>4 DEF StacksTyped

\* At first the types are right.
LEMMA StacksTypedInit ==
  ASSUME StackInit
  PROVE  StacksTyped
<1> DEFINE n == CHOOSE x \in Names : TRUE
           p == CHOOSE x \in Places : TRUE
           nodes == [d \in CanvasDevices |-> [at |-> p, name |-> inventory.device[d]]]
<1>0. n \in Names /\ p \in Places
  BY StackAssumption
<1> HIDE DEF n, p
<1>1. /\ inventory \in [device : [CanvasDevices -> {n}], link : LinkOrNone]
      /\ linkIds = {inventory.link} \ {NoId}
      /\ canvas = [node |-> nodes, edges |-> linkIds]
      /\ undoStack = <<>> /\ redoStack = <<>> /\ pending = NoEntryCall
      /\ actions = 0 /\ writes = 0 /\ overlap = FALSE /\ renamed = FALSE
  BY DEF StackInit, LinkOrNone, n, p
<1>2. inventory.device \in [CanvasDevices -> {n}] /\ inventory.link \in LinkOrNone
  BY <1>1
<1>3. inventory.device \in Rows
  <2>1. inventory.device \in [CanvasDevices -> Names]
    BY <1>0, <1>2
  <2> QED BY <2>1 DEF Rows, Partial
<1>4. inventory \in Server
  <2>1. inventory \in [device : Rows, link : LinkOrNone]
    BY <1>1, <1>2, <1>3
  <2> QED BY <2>1, CanvasIs
<1>5. nodes \in NodeRecords
  <2>1. \A d \in CanvasDevices : inventory.device[d] \in Names
    BY <1>0, <1>2
  <2>2. nodes \in [CanvasDevices -> Node]
    BY <1>0, <2>1 DEF Node
  <2> QED BY <2>2 DEF NodeRecords, Partial
<1>6. linkIds \in SUBSET Links
  BY <1>1, <1>2 DEF LinkOrNone
<1>7. canvas \in Canvas
  <2>1. \A x \in NodeRecords, E \in SUBSET Links : [node |-> x, edges |-> E] \in Canvas
    BY CanvasIs
  <2> QED BY <1>1, <1>5, <1>6, <2>1
<1>8. StacksSound
  <2>1. Sound(<<>>, 0) /\ Len(<<>>) = 0
    BY SoundEmpty
  <2>2. Apart(<<>>, <<>>)
    BY <2>1 DEF Apart
  <2> QED BY <1>1, <2>1, <2>2, StackAssumption DEF StacksSound
<1>9. RequestSound
  <2>1. pending \in EntryCalls /\ pending.way = "none" /\ pending.at = "none"
    BY <1>1, BlankTyped DEF NoEntryCall
  <2> QED BY <1>1, <2>1 DEF RequestSound, waiting
<1>10. /\ actions \in Nat /\ writes \in Nat /\ actions + writes <= MaxActions
       /\ overlap \in BOOLEAN /\ renamed \in BOOLEAN
  <2>1. actions = 0 /\ writes = 0 /\ overlap = FALSE /\ renamed = FALSE
    BY <1>1
  <2>2. MaxActions \in Nat
    BY StackAssumption
  <2>3. actions \in Nat /\ writes \in Nat /\ actions + writes <= MaxActions
    BY <2>1, <2>2
  <2>4. overlap \in BOOLEAN /\ renamed \in BOOLEAN
    BY <2>1
  <2> QED BY <2>3, <2>4
<1> HIDE DEF nodes
<1> QED BY <1>4, <1>6, <1>7, <1>8, <1>9, <1>10 DEF StacksTyped

\* Every action keeps the types.
LEMMA StacksTypedNext ==
  ASSUME StacksTyped, [StackNext]_stackVars
  PROVE  StacksTyped'
<1>1. CASE CommitMoveGesture \/ CommitLocalRemoveFromView \/ PushFieldEntry
  BY <1>1, MovesTyped
<1>2. CASE RequestCreateEdge \/ RequestDeleteEdge \/ RequestDeleteNode
  BY <1>2, RequestsTyped
<1>3. CASE \E way \in {"undo", "redo"} : ReplayLocally(way) \/ ReplayByServer(way)
  BY <1>3, ReplaysTyped
<1>4. CASE Serve
  BY <1>4, ServeTyped
<1>5. CASE EntrySucceeds
  BY <1>5, SucceedsTyped
<1>6. CASE EntryFails
  BY <1>6, FailsTyped
<1>7. CASE OthersWrite
  BY <1>7, OthersTyped
<1>8. CASE UNCHANGED stackVars
  <2>1. waiting' = waiting /\ Op' = Op
    BY <1>8 DEF stackVars, waiting, Op
  <2>2. StacksSound' = StacksSound /\ RequestSound' = RequestSound
    BY <1>8, <2>1 DEF stackVars, StacksSound, RequestSound
  <2> QED BY <1>8, <2>2 DEF stackVars, StacksTyped
<1> QED BY <1>1, <1>2, <1>3, <1>4, <1>5, <1>6, <1>7, <1>8 DEF StackNext

\* An empty stack leads from anything.
LEMMA LeadsEmpty ==
  ASSUME NEW way, NEW c, NEW l \in LinkOrNone
  PROVE  LeadsFrom(way, <<>>, c, l)
<1> DEFINE ids == [i \in 0..0 |-> l]
<1>1. Len(<<>>) = 0
  BY EmptySeq
<1>2. ids \in [0..0 -> LinkOrNone] /\ ids[0] = l
  OBVIOUS
<1>3. \A i \in 1..0 : FALSE
  OBVIOUS
<1>4. Trail(way, <<>>, ids, c)
  BY <1>1, <1>3 DEF Trail
<1> QED BY <1>1, <1>2, <1>4 DEF LeadsFrom

\* The top of a stack leads to what lies below it.
LEMMA LeadsPop ==
  ASSUME NEW way, NEW s \in Seq(EntryRecords), s # <<>>, NEW c, NEW l, LeadsFrom(way, s, c, l)
  PROVE  /\ Near(way, TopEntry(s)) = c
         /\ \E m \in LinkOrNone : /\ Across(way, TopEntry(s), m, l)
                                  /\ LeadsFrom(way, WithoutTop(s), Far(way, TopEntry(s)), m)
<1>1. PICK ids \in [0..Len(s) -> LinkOrNone] : ids[Len(s)] = l /\ Trail(way, s, ids, c)
  BY DEF LeadsFrom
<1> DEFINE n == Len(s)
           t == WithoutTop(s)
           e == TopEntry(s)
<1>2. /\ t \in Seq(EntryRecords) /\ Len(t) = n - 1 /\ n \in Nat \ {0}
      /\ \A i \in 1..(n - 1) : t[i] = s[i]
      /\ e = s[n]
  BY PopIs
<1> HIDE DEF t, e
<1>3. \A i \in 1..n : /\ Across(way, s[i], ids[i - 1], ids[i])
                      /\ Near(way, s[i]) = IF i = n THEN c ELSE Far(way, s[i + 1])
  BY <1>1 DEF Trail
<1> HIDE DEF n
<1>4. n \in 1..n /\ n - 1 \in 0..n
  BY <1>2
<1>5. Near(way, e) = c /\ Across(way, e, ids[n - 1], ids[n])
  BY <1>2, <1>3, <1>4
<1>6. ids[n] = l
  BY <1>1 DEF n
<1>7. ids \in [0..n -> LinkOrNone]
  BY <1>1 DEF n
<1> DEFINE jds == [i \in 0..(n - 1) |-> ids[i]]
<1>8. jds \in [0..(n - 1) -> LinkOrNone] /\ jds[n - 1] = ids[n - 1]
  <2>1. \A i \in 0..(n - 1) : i \in 0..n
    BY <1>2
  <2>2. n - 1 \in 0..(n - 1)
    BY <1>2
  <2> QED BY <1>7, <2>1, <2>2
<1>9. \A i \in 1..(n - 1) :
         /\ i \in 1..n /\ i # n /\ jds[i - 1] = ids[i - 1] /\ jds[i] = ids[i]
         /\ t[i] = s[i]
         /\ i # n - 1 => t[i + 1] = s[i + 1]
         /\ i = n - 1 => s[i + 1] = e
  <2> SUFFICES ASSUME NEW i \in 1..(n - 1)
      PROVE /\ i \in 1..n /\ i # n /\ jds[i - 1] = ids[i - 1] /\ jds[i] = ids[i]
            /\ t[i] = s[i]
            /\ i # n - 1 => t[i + 1] = s[i + 1]
            /\ i = n - 1 => s[i + 1] = e
    OBVIOUS
  <2>1. /\ i \in 1..n /\ i # n /\ i - 1 \in 0..(n - 1) /\ i \in 0..(n - 1)
        /\ i # n - 1 => i + 1 \in 1..(n - 1)
        /\ i = n - 1 => i + 1 = n
    BY <1>2
  <2> QED BY <1>2, <2>1
<1>10. Trail(way, t, jds, Far(way, e))
  <2> HIDE DEF jds
  <2>1. \A i \in 1..(n - 1) :
          /\ Across(way, t[i], jds[i - 1], jds[i])
          /\ Near(way, t[i]) = IF i = n - 1 THEN Far(way, e) ELSE Far(way, t[i + 1])
    BY <1>3, <1>9
  <2> QED BY <1>2, <2>1 DEF Trail
<1>11. LeadsFrom(way, t, Far(way, e), ids[n - 1])
  <2> HIDE DEF jds
  <2> QED BY <1>2, <1>8, <1>10 DEF LeadsFrom
<1>12. ids[n - 1] \in LinkOrNone
  BY <1>4, <1>7
<1> QED BY <1>5, <1>6, <1>11, <1>12 DEF t, e

\* A new top leads to what there was.
LEMMA LeadsAppend ==
  ASSUME NEW way, NEW s \in Seq(EntryRecords), NEW e \in EntryRecords, NEW l \in LinkOrNone,
         NEW m \in LinkOrNone, LeadsFrom(way, s, Far(way, e), m), Across(way, e, m, l)
  PROVE  LeadsFrom(way, Append(s, e), Near(way, e), l)
<1>1. PICK ids \in [0..Len(s) -> LinkOrNone] : ids[Len(s)] = m /\ Trail(way, s, ids, Far(way, e))
  BY DEF LeadsFrom
<1> DEFINE n == Len(s)
           t == Append(s, e)
           jds == [i \in 0..(n + 1) |-> IF i = n + 1 THEN l ELSE ids[i]]
<1>2. /\ t \in Seq(EntryRecords) /\ Len(t) = n + 1 /\ n \in Nat
      /\ t[n + 1] = e /\ \A i \in 1..n : t[i] = s[i]
  BY AppendProperties
<1> HIDE DEF t
<1>3. /\ \A i \in 1..n : /\ Across(way, s[i], ids[i - 1], ids[i])
                         /\ Near(way, s[i]) = IF i = n THEN Far(way, e) ELSE Far(way, s[i + 1])
      /\ ids \in [0..n -> LinkOrNone] /\ ids[n] = m
  BY <1>1 DEF Trail
<1> HIDE DEF n
<1>4. /\ jds \in [0..(n + 1) -> LinkOrNone] /\ jds[n + 1] = l
      /\ \A i \in 0..n : jds[i] = ids[i]
  <2>1. \A i \in 0..(n + 1) : i = n + 1 \/ i \in 0..n
    BY <1>2
  <2>2. n + 1 \in 0..(n + 1) /\ \A i \in 0..n : i \in 0..(n + 1) /\ i # n + 1
    BY <1>2
  <2> QED BY <1>3, <2>1, <2>2
<1> HIDE DEF jds
<1>5. ASSUME NEW i \in 1..(n + 1)
      PROVE  /\ Across(way, t[i], jds[i - 1], jds[i])
             /\ Near(way, t[i]) = IF i = n + 1 THEN Near(way, e) ELSE Far(way, t[i + 1])
  <2>1. CASE i = n + 1
    <3>1. i - 1 = n /\ n \in 0..n
      BY <1>2, <2>1
    <3>2. jds[i - 1] = m /\ jds[i] = l /\ t[i] = e
      BY <1>2, <1>3, <1>4, <2>1, <3>1
    <3> QED BY <2>1, <3>2
  <2>2. CASE i # n + 1
    <3>1. i \in 1..n /\ i - 1 \in 0..n /\ i \in 0..n /\ (i = n => i + 1 = n + 1)
          /\ (i # n => i + 1 \in 1..n)
      BY <1>2, <2>2
    <3>2. jds[i - 1] = ids[i - 1] /\ jds[i] = ids[i] /\ t[i] = s[i]
      BY <1>2, <1>4, <3>1
    <3>3. CASE i = n
      BY <1>2, <1>3, <2>2, <3>1, <3>2, <3>3
    <3>4. CASE i # n
      BY <1>2, <1>3, <2>2, <3>1, <3>2, <3>4
    <3> QED BY <3>3, <3>4
  <2> QED BY <2>1, <2>2
<1>6. Trail(way, t, jds, Near(way, e))
  BY <1>2, <1>5 DEF Trail
<1>7. LeadsFrom(way, t, Near(way, e), l)
  BY <1>2, <1>4, <1>6 DEF LeadsFrom
<1> QED BY <1>7 DEF t

\* Without its oldest entries a stack leads from the same.
LEMMA LeadsTrim ==
  ASSUME NEW way, NEW s \in Seq(EntryRecords), NEW c, NEW l, LeadsFrom(way, s, c, l)
  PROVE  LeadsFrom(way, TrimUndoStack(s), c, l)
<1>1. PICK ids \in [0..Len(s) -> LinkOrNone] : ids[Len(s)] = l /\ Trail(way, s, ids, c)
  BY DEF LeadsFrom
<1> DEFINE n == Len(s)
           t == TrimUndoStack(s)
<1>2. PICK k \in Nat :
        /\ k <= Len(s) /\ Len(t) = Len(s) - k
        /\ t \in Seq(EntryRecords)
        /\ \A i \in 1..(Len(s) - k) : t[i] = s[i + k]
        /\ Len(s) <= MaxEntries => k = 0
        /\ Len(t) <= MaxEntries
  BY TrimIs
<1> HIDE DEF t
<1>3. n \in Nat /\ k <= n /\ Len(t) = n - k /\ \A i \in 1..(n - k) : t[i] = s[i + k]
  BY <1>2
<1>4. /\ \A i \in 1..n : /\ Across(way, s[i], ids[i - 1], ids[i])
                         /\ Near(way, s[i]) = IF i = n THEN c ELSE Far(way, s[i + 1])
      /\ ids \in [0..n -> LinkOrNone] /\ ids[n] = l
  BY <1>1 DEF Trail
<1> HIDE DEF n
<1> DEFINE jds == [i \in 0..(n - k) |-> ids[i + k]]
<1>5. /\ jds \in [0..(n - k) -> LinkOrNone] /\ jds[n - k] = l
      /\ \A i \in 0..(n - k) : jds[i] = ids[i + k]
  <2>1. \A i \in 0..(n - k) : i + k \in 0..n
    BY <1>3
  <2>2. n - k \in 0..(n - k) /\ (n - k) + k = n
    BY <1>3
  <2> QED BY <1>4, <2>1, <2>2
<1> HIDE DEF jds
<1>6. ASSUME NEW i \in 1..(n - k)
      PROVE  /\ Across(way, t[i], jds[i - 1], jds[i])
             /\ Near(way, t[i]) = IF i = n - k THEN c ELSE Far(way, t[i + 1])
  <2>1. /\ i + k \in 1..n /\ i - 1 \in 0..(n - k) /\ i \in 0..(n - k)
        /\ (i - 1) + k = (i + k) - 1 /\ (i = n - k <=> i + k = n)
        /\ (i # n - k => i + 1 \in 1..(n - k) /\ (i + 1) + k = (i + k) + 1)
    BY <1>3
  <2>2. t[i] = s[i + k] /\ jds[i - 1] = ids[(i + k) - 1] /\ jds[i] = ids[i + k]
        /\ (i # n - k => t[i + 1] = s[(i + k) + 1])
    <3>1. jds[i - 1] = ids[(i - 1) + k] /\ jds[i] = ids[i + k]
      BY <1>5, <2>1
    <3>2. t[i] = s[i + k]
      BY <1>3
    <3>3. i # n - k => t[i + 1] = s[(i + 1) + k]
      BY <1>3, <2>1
    <3> QED BY <2>1, <3>1, <3>2, <3>3
  <2> DEFINE j == i + k
  <2>3. /\ Across(way, s[j], ids[j - 1], ids[j])
        /\ Near(way, s[j]) = IF j = n THEN c ELSE Far(way, s[j + 1])
    BY <1>4, <2>1
  <2>4. CASE i = n - k
    BY <2>1, <2>2, <2>3, <2>4
  <2>5. CASE i # n - k
    BY <2>1, <2>2, <2>3, <2>5
  <2> QED BY <2>4, <2>5
<1>7. Trail(way, t, jds, c)
  BY <1>3, <1>6 DEF Trail
<1>8. LeadsFrom(way, t, c, l)
  BY <1>3, <1>5, <1>7 DEF LeadsFrom
<1> QED BY <1>8 DEF t

\* No connection, and its edge.
LEMMA DrawnIs ==
  ASSUME NEW n, NEW l \in LinkOrNone
  PROVE  /\ NoId \notin Links
         /\ Drawn(n, l) = IF CanvasDevices \subseteq DOMAIN n /\ l # NoId THEN {l} ELSE {}
         /\ Drawn(n, l) \in SUBSET Links /\ Drawn(n, l) \subseteq {l} \ {NoId}
         /\ Hung(n, Drawn(n, l)) = Drawn(n, l)
         /\ Cardinality(Drawn(n, l)) =
              IF CanvasDevices \subseteq DOMAIN n THEN LinkCount(l) ELSE 0
<1>1. NoId \notin Links
  BY StackAssumption
<1>2. Drawn(n, l) = IF CanvasDevices \subseteq DOMAIN n /\ l # NoId THEN {l} ELSE {}
  BY DEF Drawn, Hung
<1>3. Cardinality({}) = 0 /\ Cardinality({l}) = 1
  BY FS_EmptySet, FS_Singleton
<1>4. /\ Drawn(n, l) \in SUBSET Links /\ Drawn(n, l) \subseteq {l} \ {NoId}
      /\ Hung(n, Drawn(n, l)) = Drawn(n, l)
  BY <1>2 DEF Hung, LinkOrNone
<1>5. Cardinality(Drawn(n, l)) = IF CanvasDevices \subseteq DOMAIN n THEN LinkCount(l) ELSE 0
  <2>1. CASE CanvasDevices \subseteq DOMAIN n /\ l # NoId
    BY <1>2, <1>3, <2>1 DEF LinkCount
  <2>2. CASE ~(CanvasDevices \subseteq DOMAIN n /\ l # NoId)
    BY <1>2, <1>3, <2>2 DEF LinkCount
  <2> QED BY <2>1, <2>2
<1> QED BY <1>1, <1>2, <1>4, <1>5

\* The id l after old has been replaced by new; an entry that names old.
Renamed(l, old, new) == IF l = old THEN new ELSE l
NamesId(e, old) == e.link = old \/ old \in e.sight.edges \/ e.kept.link = old

\* A content shows the same connection by another id,
LEMMA ShowsRenamed ==
  ASSUME NEW c, NEW l, Shows(c, l), NEW old \in Links, NEW new \in Links
  PROVE  Shows(c, Renamed(l, old, new)) /\ Renamed(l, old, new) \in LinkOrNone
<1> DEFINE m == Renamed(l, old, new)
<1>1. l \in LinkOrNone /\ m \in LinkOrNone /\ NoId \notin Links /\ (m = NoId <=> l = NoId)
  BY StackAssumption DEF Shows, Renamed, LinkOrNone
<1> HIDE DEF m
<1>2. LinkCount(m) = LinkCount(l)
  BY <1>1 DEF LinkCount
<1>3. Cardinality(Drawn(c.node, m)) = Cardinality(Drawn(c.node, l))
  BY <1>1, <1>2, DrawnIs
<1>4. Shows(c, m)
  BY <1>1, <1>2, <1>3 DEF Shows
<1> QED BY <1>1, <1>4 DEF m

\* and an entry that does not name the old id did the same.
LEMMA TookRenamed ==
  ASSUME NEW e \in EntryRecords, NEW l, NEW m, Took(e, l, m),
         NEW old \in Links, NEW new \in Links, ~NamesId(e, old)
  PROVE  Took(e, Renamed(l, old, new), Renamed(m, old, new))
<1> DEFINE p == Renamed(l, old, new)
           q == Renamed(m, old, new)
<1>1. Shows(e.was, p) /\ Shows(e.now, q) /\ l \in LinkOrNone /\ m \in LinkOrNone
      /\ p \in LinkOrNone /\ q \in LinkOrNone
  BY ShowsRenamed DEF Took, Shows
<1>2. NoId # old /\ NoId # new
  BY StackAssumption
<1>3. (m = l => q = p) /\ (l # old => p = l) /\ (m # old => q = m) /\ (l = old => p = new)
  BY DEF Renamed
<1>4. e.link # old /\ old \notin e.sight.edges /\ e.kept.link # old
  BY DEF NamesId
<1> SUFFICES Took(e, p, q)
  OBVIOUS
<1> HIDE DEF p, q
<1>5. CASE e.kind \in {"move", "field"}
  BY <1>1, <1>3, <1>5 DEF Took
<1>6. CASE e.kind = "remove_from_view"
  <2>1. m = l /\ TookRemoval(e, e.was, e.now, l)
    BY <1>6 DEF Took
  <2>2. e.sight.edges = Drawn(e.was.node, l)
    BY <2>1 DEF TookRemoval
  <2>3. Drawn(e.was.node, p) = Drawn(e.was.node, l)
    BY <1>1, <1>2, <1>3, <1>4, <2>2, DrawnIs
  <2>4. TookRemoval(e, e.was, e.now, p)
    BY <2>1, <2>3 DEF TookRemoval
  <2> QED BY <1>1, <1>3, <1>6, <2>1, <2>4 DEF Took
<1>7. CASE e.kind \in {"create_edge", "delete_edge"}
  BY <1>1, <1>2, <1>3, <1>4, <1>7 DEF Took
<1>8. CASE e.kind = "delete_node"
  <2>1. m = NoId /\ TookDelete(e, e.was, e.now, l)
    BY <1>8 DEF Took
  <2>2. e.kept.link = l
    BY <2>1 DEF TookDelete
  <2> QED BY <1>1, <1>2, <1>3, <1>4, <1>8, <2>1, <2>2 DEF Took
<1>9. e.kind \in Kinds
  BY DEF EntryRecords
<1> QED BY <1>5, <1>6, <1>7, <1>8, <1>9 DEF Kinds, p, q

\* So does a stack.
LEMMA LeadsRenamed ==
  ASSUME NEW way, NEW s \in Seq(EntryRecords), NEW c, NEW l, LeadsFrom(way, s, c, l),
         NEW old \in Links, NEW new \in Links, \A i \in 1..Len(s) : ~NamesId(s[i], old)
  PROVE  LeadsFrom(way, s, c, Renamed(l, old, new))
<1>1. PICK ids \in [0..Len(s) -> LinkOrNone] : ids[Len(s)] = l /\ Trail(way, s, ids, c)
  BY DEF LeadsFrom
<1> DEFINE n == Len(s)
           jds == [i \in 0..n |-> Renamed(ids[i], old, new)]
<1>2. n \in Nat /\ \A i \in 1..n : s[i] \in EntryRecords
  BY ElementOfSeq
<1>3. \A i \in 1..n : /\ Across(way, s[i], ids[i - 1], ids[i])
                      /\ Near(way, s[i]) = IF i = n THEN c ELSE Far(way, s[i + 1])
  BY <1>1 DEF Trail
<1>4. ids \in [0..n -> LinkOrNone] /\ ids[n] = l
  BY <1>1
<1> HIDE DEF n
<1>5. \A i \in 0..n : jds[i] = Renamed(ids[i], old, new)
  OBVIOUS
<1>6. jds \in [0..n -> LinkOrNone] /\ jds[n] = Renamed(l, old, new)
  <2>1. \A i \in 0..n : Renamed(ids[i], old, new) \in LinkOrNone
    BY <1>4 DEF Renamed, LinkOrNone
  <2>2. n \in 0..n
    BY <1>2
  <2> QED BY <1>4, <2>1, <2>2
<1> HIDE DEF jds
<1>7. ASSUME NEW i \in 1..n PROVE Across(way, s[i], jds[i - 1], jds[i])
  <2>1. i \in 0..n /\ i - 1 \in 0..n
    BY <1>2
  <2>2. jds[i] = Renamed(ids[i], old, new) /\ jds[i - 1] = Renamed(ids[i - 1], old, new)
    BY <1>5, <2>1
  <2>3. ~NamesId(s[i], old) /\ s[i] \in EntryRecords /\ Across(way, s[i], ids[i - 1], ids[i])
    BY <1>2, <1>3 DEF n
  <2>4. CASE way = "undo"
    <3>1. Took(s[i], ids[i - 1], ids[i])
      BY <2>3, <2>4 DEF Across
    <3> QED BY <2>2, <2>3, <2>4, <3>1, TookRenamed DEF Across
  <2>5. CASE way # "undo"
    <3>1. Took(s[i], ids[i], ids[i - 1])
      BY <2>3, <2>5 DEF Across
    <3> QED BY <2>2, <2>3, <2>5, <3>1, TookRenamed DEF Across
  <2> QED BY <2>4, <2>5
<1>8. Trail(way, s, jds, c)
  BY <1>3, <1>7 DEF Trail, n
<1> QED BY <1>6, <1>8 DEF LeadsFrom, n

\* What the canvas and the server hold when they show content c with connection l.
Picture(c, l)  == [node |-> c.node, edges |-> Drawn(c.node, l)]
Registry(c, l) == [device |-> c.device, link |-> l]

\* From the two the content can be told,
LEMMA ContentIs ==
  ASSUME NEW c, NEW l, Shows(c, l)
  PROVE  ContentOf(Registry(c, l), Picture(c, l)) = c
<1>1. /\ c \in [device : Rows, links : {0, 1}, node : NodeRecords,
                edges : {Cardinality(E) : E \in SUBSET Links}]
      /\ c.links = LinkCount(l) /\ c.edges = Cardinality(Drawn(c.node, l))
  BY DEF Shows, AnyContent
<1>2. ContentOf(Registry(c, l), Picture(c, l))
        = [device |-> c.device, links |-> c.links, node |-> c.node, edges |-> c.edges]
  BY <1>1 DEF ContentOf, Registry, Picture
<1> QED BY <1>1, <1>2

\* and they show it.
LEMMA ContentShows ==
  ASSUME NEW r \in Rows, NEW n \in NodeRecords, NEW m \in LinkOrNone, NamesAgree(r, n)
  PROVE  LET c == ContentOf([device |-> r, link |-> m], [node |-> n, edges |-> Drawn(n, m)])
         IN  /\ Shows(c, m) /\ c.device = r /\ c.node = n
             /\ Registry(c, m) = [device |-> r, link |-> m]
             /\ Picture(c, m) = [node |-> n, edges |-> Drawn(n, m)]
<1> DEFINE srv == [device |-> r, link |-> m]
           cnv == [node |-> n, edges |-> Drawn(n, m)]
           c == ContentOf(srv, cnv)
<1>1. /\ c.device = r /\ c.node = n /\ c.links = LinkCount(m)
      /\ c.edges = Cardinality(Drawn(n, m))
  BY DEF ContentOf
<1>2. c \in AnyContent
  <2>1. srv \in Server /\ cnv \in Canvas
    BY CanvasIs, DrawnIs
  <2> HIDE DEF srv, cnv
  <2> QED BY <2>1, ContentTyped
<1>3. Shows(c, m)
  <2> HIDE DEF c
  <2> QED BY <1>1, <1>2 DEF Shows
<1>4. Registry(c, m) = srv /\ Picture(c, m) = cnv
  <2> HIDE DEF c
  <2> QED BY <1>1 DEF Registry, Picture
<1> QED BY <1>1, <1>3, <1>4

\* What contents are made of.
LEMMA ShowsParts ==
  ASSUME NEW c, NEW l, Shows(c, l)
  PROVE  /\ c.device \in Rows /\ c.node \in NodeRecords /\ l \in LinkOrNone
         /\ NamesAgree(c.device, c.node)
         /\ DOMAIN c.node \in SUBSET CanvasDevices /\ DOMAIN c.device \in SUBSET CanvasDevices
         /\ c.node \in [DOMAIN c.node -> Node] /\ c.device \in [DOMAIN c.device -> Names]
<1>1. c.device \in Rows /\ c.node \in NodeRecords /\ l \in LinkOrNone /\ NamesAgree(c.device, c.node)
  BY DEF Shows, AnyContent
<1> QED BY <1>1, PartialsAre DEF Rows, NodeRecords

\* A key that is taken out and put back,
LEMMA TakenAndBack ==
  ASSUME NEW f, NEW S, f \in [DOMAIN f -> S], NEW d \in DOMAIN f
  PROVE  /\ Over([x \in {d} |-> f[d]], Without(f, {d})) = f
         /\ Over(Without(f, {d}), [x \in {d} |-> f[d]]) = f
<1>1. DOMAIN Without(f, {d}) = DOMAIN f \ {d}
  BY DEF Without
<1>2. /\ Over([x \in {d} |-> f[d]], Without(f, {d})) \in [DOMAIN f -> S]
      /\ Over(Without(f, {d}), [x \in {d} |-> f[d]]) \in [DOMAIN f -> S]
  BY <1>1 DEF Over, Without
<1>3. \A x \in DOMAIN f :
        /\ Over([y \in {d} |-> f[d]], Without(f, {d}))[x] = f[x]
        /\ Over(Without(f, {d}), [y \in {d} |-> f[d]])[x] = f[x]
  BY <1>1 DEF Over, Without
<1> QED BY <1>2, <1>3

\* a value that is changed and changed back.
LEMMA ChangedAndBack ==
  ASSUME NEW f, NEW S, f \in [DOMAIN f -> S], NEW d \in DOMAIN f, NEW v
  PROVE  [[f EXCEPT ![d] = v] EXCEPT ![d] = f[d]] = f
OBVIOUS

\* A node that is moved and moved back,
LEMMA MovedBack ==
  ASSUME NEW n \in NodeRecords, NEW d \in DOMAIN n, NEW p, NEW q, n[d].at = p
  PROVE  [[n EXCEPT ![d].at = q] EXCEPT ![d].at = p] = n
<1>1. n \in [DOMAIN n -> Node] /\ n[d] \in Node
  BY PartialsAre DEF NodeRecords
<1>2. [[n[d] EXCEPT !.at = q] EXCEPT !.at = p] = n[d]
  BY <1>1 DEF Node
<1>3. [[n EXCEPT ![d].at = q] EXCEPT ![d].at = p]
        = [[n EXCEPT ![d] = [n[d] EXCEPT !.at = q]] EXCEPT ![d] = n[d]]
  BY <1>1, <1>2
<1> QED BY <1>1, <1>3, ChangedAndBack

\* named and named back.
LEMMA NamedBack ==
  ASSUME NEW n \in NodeRecords, NEW d \in DOMAIN n, NEW p, NEW q, n[d].name = p
  PROVE  [[n EXCEPT ![d].name = q] EXCEPT ![d].name = p] = n
<1>1. n \in [DOMAIN n -> Node] /\ n[d] \in Node
  BY PartialsAre DEF NodeRecords
<1>2. [[n[d] EXCEPT !.name = q] EXCEPT !.name = p] = n[d]
  BY <1>1 DEF Node
<1>3. [[n EXCEPT ![d].name = q] EXCEPT ![d].name = p]
        = [[n EXCEPT ![d] = [n[d] EXCEPT !.name = q]] EXCEPT ![d] = n[d]]
  BY <1>1, <1>2
<1> QED BY <1>1, <1>3, ChangedAndBack

\* What an operation makes of the picture of a content: a node moved,
LEMMA MoveIs ==
  ASSUME NEW c, NEW l, Shows(c, l), canvas = Picture(c, l), NEW d \in DOMAIN c.node, NEW p \in Places
  PROVE  LET n == [c.node EXCEPT ![d].at = p]
         IN  /\ n \in NodeRecords /\ NamesAgree(c.device, n)
             /\ ApplyMove(d, p) = [node |-> n, edges |-> Drawn(n, l)]
<1> DEFINE n == [c.node EXCEPT ![d].at = p]
<1>1. /\ c.node \in NodeRecords /\ NamesAgree(c.device, c.node)
      /\ c.node \in [DOMAIN c.node -> Node]
  BY ShowsParts
<1>2. n \in NodeRecords
  BY <1>1, NodeChanged
<1>3. DOMAIN n = DOMAIN c.node /\ \A x \in DOMAIN n : n[x].name = c.node[x].name
  BY <1>1 DEF Node
<1>4. NamesAgree(c.device, n)
  <2> HIDE DEF n
  <2> QED BY <1>1, <1>3 DEF NamesAgree
<1>5. Drawn(n, l) = Drawn(c.node, l)
  <2> HIDE DEF n
  <2> QED BY <1>3 DEF Drawn, Hung
<1>6. ApplyMove(d, p) = [node |-> n, edges |-> Drawn(c.node, l)]
  BY DEF ApplyMove, OnCanvas, Picture
<1> QED BY <1>2, <1>4, <1>5, <1>6

\* a device by another name,
LEMMA NameIs ==
  ASSUME NEW c, NEW l, Shows(c, l), canvas = Picture(c, l), NEW d \in DOMAIN c.device, NEW m \in Names
  PROVE  LET n == IF d \in DOMAIN c.node THEN [c.node EXCEPT ![d].name = m] ELSE c.node
             r == [c.device EXCEPT ![d] = m]
         IN  /\ n \in NodeRecords /\ r \in Rows /\ NamesAgree(r, n)
             /\ PatchNode(d, m) = [node |-> n, edges |-> Drawn(n, l)]
<1> DEFINE n == IF d \in DOMAIN c.node THEN [c.node EXCEPT ![d].name = m] ELSE c.node
           r == [c.device EXCEPT ![d] = m]
<1>1. /\ c.node \in NodeRecords /\ NamesAgree(c.device, c.node) /\ c.device \in Rows
      /\ c.node \in [DOMAIN c.node -> Node] /\ c.device \in [DOMAIN c.device -> Names]
  BY ShowsParts
<1>2. n \in NodeRecords /\ r \in Rows
  BY <1>1, NodeChanged, PartialChanged DEF Rows
<1>3. DOMAIN n = DOMAIN c.node /\ \A x \in DOMAIN n : n[x].name = IF x = d THEN m ELSE c.node[x].name
  BY <1>1 DEF Node
<1>4. DOMAIN r = DOMAIN c.device /\ \A x \in DOMAIN r : r[x] = IF x = d THEN m ELSE c.device[x]
  BY <1>1
<1>5. NamesAgree(r, n)
  <2> HIDE DEF n, r
  <2> QED BY <1>1, <1>3, <1>4 DEF NamesAgree
<1>6. Drawn(n, l) = Drawn(c.node, l)
  <2> HIDE DEF n
  <2> QED BY <1>3 DEF Drawn, Hung
<1>7. PatchNode(d, m) = [node |-> n, edges |-> Drawn(c.node, l)]
  BY DEF PatchNode, OnCanvas, Picture
<1> QED BY <1>2, <1>5, <1>6, <1>7

\* a node that is gone, with its edges,
LEMMA GoneIs ==
  ASSUME NEW c, NEW l, Shows(c, l), NEW d \in DOMAIN c.node
  PROVE  LET n == Without(c.node, {d})
         IN  /\ n \in NodeRecords /\ NamesAgree(c.device, n)
             /\ NamesAgree(Without(c.device, {d}), n) /\ Without(c.device, {d}) \in Rows
             /\ \A E : Hung(n, E) = {}
<1> DEFINE n == Without(c.node, {d})
           r == Without(c.device, {d})
<1>1. /\ c.node \in NodeRecords /\ NamesAgree(c.device, c.node) /\ c.device \in Rows
      /\ DOMAIN c.node \in SUBSET CanvasDevices
  BY ShowsParts
<1>2. n \in NodeRecords /\ r \in Rows
  BY <1>1, PartialWithout DEF Rows, NodeRecords
<1>3. DOMAIN n = DOMAIN c.node \ {d} /\ \A x \in DOMAIN n : n[x] = c.node[x]
  BY DEF Without
<1>4. DOMAIN r = DOMAIN c.device \ {d} /\ \A x \in DOMAIN r : r[x] = c.device[x]
  BY DEF Without
<1> HIDE DEF r, n
<1>6. NamesAgree(c.device, n) /\ NamesAgree(r, n)
  BY <1>1, <1>3, <1>4 DEF NamesAgree
<1>7. ~(CanvasDevices \subseteq DOMAIN n)
  BY <1>1, <1>3
<1>8. \A E : Hung(n, E) = {}
  BY <1>7 DEF Hung
<1> QED BY <1>2, <1>6, <1>8 DEF r, n

\* taken away
LEMMA RemovalIs ==
  ASSUME NEW c, NEW l, Shows(c, l), canvas = Picture(c, l), NEW d \in DOMAIN c.node,
         NEW sight, DOMAIN sight.node = {d}
  PROVE  ApplySnapshotRemoval(sight) = [node |-> Without(c.node, {d}), edges |-> {}]
<1>1. ApplySnapshotRemoval(sight) = [node |-> Without(c.node, {d}),
                                     edges |-> Hung(Without(c.node, {d}), canvas.edges \ sight.edges)]
  BY DEF ApplySnapshotRemoval, Picture
<1> QED BY <1>1, GoneIs

\* and put back,
LEMMA RestoreIs ==
  ASSUME NEW n \in NodeRecords, NEW d \in DOMAIN n, NEW l \in LinkOrNone, NEW m \in LinkOrNone,
         canvas = [node |-> Without(n, {d}), edges |-> Drawn(Without(n, {d}), m)],
         NEW sight, sight.node = [x \in {d} |-> n[d]], Hung(n, sight.edges) = Drawn(n, l)
  PROVE  ApplySnapshotRestore(sight) = [node |-> n, edges |-> Drawn(n, l)]
<1>1. DOMAIN n \in SUBSET CanvasDevices /\ n \in [DOMAIN n -> Node]
  BY PartialsAre DEF NodeRecords
<1>2. Over(sight.node, canvas.node) = n
  BY <1>1, TakenAndBack
<1>3. canvas.edges = {}
  <2>1. ~(CanvasDevices \subseteq DOMAIN Without(n, {d}))
    BY <1>1 DEF Without
  <2> QED BY <2>1 DEF Drawn, Hung
<1> QED BY <1>2, <1>3 DEF ApplySnapshotRestore

\* an edge drawn or taken away.
LEMMA EdgeIs ==
  ASSUME NEW c, NEW m \in Links
  PROVE  /\ canvas = Picture(c, NoId) => AddEdge(m) = Picture(c, m)
         /\ canvas = Picture(c, m) => RemoveEdge(m) = Picture(c, NoId)
<1>1. NoId # m /\ m \in LinkOrNone /\ NoId \in LinkOrNone
  BY StackAssumption DEF LinkOrNone
<1>2. /\ Drawn(c.node, NoId) = {}
      /\ Drawn(c.node, m) = Hung(c.node, {m}) /\ Drawn(c.node, m) \subseteq {m}
  BY <1>1, DrawnIs DEF Drawn
<1>3. ASSUME canvas = Picture(c, NoId) PROVE AddEdge(m) = Picture(c, m)
  <2>1. canvas.edges \cup {m} = {m} /\ canvas.node = c.node
    BY <1>2, <1>3 DEF Picture
  <2>2. AddEdge(m) = [node |-> c.node, edges |-> Hung(c.node, {m})]
    BY <1>3, <2>1 DEF AddEdge, Picture
  <2> QED BY <1>2, <2>2 DEF Picture
<1>4. ASSUME canvas = Picture(c, m) PROVE RemoveEdge(m) = Picture(c, NoId)
  <2>1. canvas.edges \ {m} = {}
    BY <1>2, <1>4 DEF Picture
  <2>2. RemoveEdge(m) = [node |-> c.node, edges |-> {}]
    BY <1>4, <2>1 DEF RemoveEdge, Picture
  <2> QED BY <1>2, <2>2 DEF Picture
<1> QED BY <1>3, <1>4

\* With no request under way, all is well when the stacks lead from what there is.
LEMMA Settles ==
  ASSUME pending' = NoEntryCall, NEW c, NEW l, Shows(c, l),
         canvas' = Picture(c, l), inventory' = Registry(c, l),
         LeadsFrom("undo", undoStack', c, l), LeadsFrom("redo", redoStack', c, l)
  PROVE  StacksLead'
<1>1. ~waiting' /\ pending'.way = "none" /\ pending'.at = "none"
  BY DEF waiting, NoEntryCall
<1>2. Base' = c
  <2>1. Content' = ContentOf(inventory', canvas')
    BY DEF Content
  <2> QED BY <1>1, <2>1, ContentIs DEF Base
<1>3. AskedRightly(c, l)'
  BY <1>1 DEF AskedRightly
<1>4. World(c, l)'
  BY <1>1, <1>3 DEF World, Picture, Registry
<1>5. l \in LinkOrNone
  BY DEF Shows
<1> QED BY <1>2, <1>4, <1>5 DEF StacksLead

\* So they do then.
LEMMA AtRest ==
  ASSUME StacksTyped, StacksLead, ~waiting
  PROVE  \E l \in LinkOrNone :
           /\ Shows(Content, l) /\ canvas = Picture(Content, l) /\ inventory = Registry(Content, l)
           /\ LeadsFrom("undo", undoStack, Content, l) /\ LeadsFrom("redo", redoStack, Content, l)
           /\ pending = NoEntryCall
<1>1. pending = NoEntryCall /\ pending.at # "done" /\ Base = Content
  BY DEF StacksTyped, RequestSound, waiting, NoEntryCall, Base
<1> QED BY <1>1 DEF StacksLead, World, Picture, Registry

\* Stacks are sequences of entries.
LEMMA StacksAreSeqs ==
  ASSUME StacksTyped
  PROVE  undoStack \in Seq(EntryRecords) /\ redoStack \in Seq(EntryRecords)
BY DEF StacksTyped, StacksSound, Sound

\* A new entry leads from what its action has left.
LEMMA PushLeads ==
  ASSUME StacksTyped, NEW f \in EntryRecords, PushEntry(f), NEW l \in LinkOrNone, NEW m \in LinkOrNone,
         LeadsFrom("undo", undoStack, f.was, l), Took(f, l, m)
  PROVE  LeadsFrom("undo", undoStack', f.now, m) /\ LeadsFrom("redo", redoStack', f.now, m)
<1>1. Far("undo", f) = f.was /\ Near("undo", f) = f.now /\ Across("undo", f, l, m)
  BY DEF Far, Near, Across
<1> DEFINE t == Append(undoStack, f)
<1>2. LeadsFrom("undo", t, f.now, m) /\ t \in Seq(EntryRecords)
  BY <1>1, StacksAreSeqs, LeadsAppend, AppendProperties
<1>3. undoStack' = TrimUndoStack(t) /\ redoStack' = <<>>
  BY DEF PushEntry
<1> HIDE DEF t
<1> QED BY <1>2, <1>3, LeadsTrim, LeadsEmpty

\* An entry that goes to the other stack leads back from there.
LEMMA ShiftLeads ==
  ASSUME StacksTyped, NEW way \in {"undo", "redo"}, Source(way) # <<>>, NEW f \in EntryRecords,
         ShiftEntry(way, f), NEW l \in LinkOrNone, NEW m \in LinkOrNone,
         LeadsFrom(way, WithoutTop(Source(way)), Far(way, f), m),
         LeadsFrom(Other(way), Source(Other(way)), Near(way, f), l),
         Across(way, f, m, l)
  PROVE  LeadsFrom("undo", undoStack', Far(way, f), m) /\ LeadsFrom("redo", redoStack', Far(way, f), m)
<1>0. undoStack \in Seq(EntryRecords) /\ redoStack \in Seq(EntryRecords)
  BY StacksAreSeqs
<1>1. CASE way = "undo"
  <2>1. /\ Source(way) = undoStack /\ Source(Other(way)) = redoStack /\ Other(way) = "redo"
        /\ undoStack' = WithoutTop(undoStack) /\ redoStack' = Append(redoStack, f)
    BY <1>1 DEF Source, Other, ShiftEntry
  <2>2. /\ Far("redo", f) = f.now /\ Near("redo", f) = f.was
        /\ Far(way, f) = f.was /\ Near(way, f) = f.now /\ Across("redo", f, l, m)
    BY <1>1 DEF Far, Near, Across
  <2>3. LeadsFrom("redo", Append(redoStack, f), f.was, m)
    BY <1>0, <2>1, <2>2, LeadsAppend
  <2> QED BY <1>1, <2>1, <2>2, <2>3
<1>2. CASE way = "redo"
  <2> DEFINE t == Append(undoStack, f)
  <2>1. /\ Source(way) = redoStack /\ Source(Other(way)) = undoStack /\ Other(way) = "undo"
        /\ redoStack' = WithoutTop(redoStack) /\ undoStack' = TrimUndoStack(t)
    BY <1>2 DEF Source, Other, ShiftEntry
  <2>2. /\ Far("undo", f) = f.was /\ Near("undo", f) = f.now
        /\ Far(way, f) = f.now /\ Near(way, f) = f.was /\ Across("undo", f, l, m)
    BY <1>2 DEF Far, Near, Across
  <2>3. LeadsFrom("undo", t, f.now, m) /\ t \in Seq(EntryRecords)
    BY <1>0, <2>1, <2>2, LeadsAppend, AppendProperties
  <2> HIDE DEF t
  <2>4. LeadsFrom("undo", undoStack', f.now, m)
    BY <2>1, <2>3, LeadsTrim
  <2> QED BY <1>2, <2>1, <2>2, <2>4
<1> QED BY <1>1, <1>2

\* What the user does alone is on the stack with what it has done.
LEMMA CommitLeads ==
  ASSUME StacksTyped, pending = NoEntryCall, NEW e \in EntryRecords, NEW srv, NEW cnv, Commit(e, srv, cnv),
         NEW l \in LinkOrNone, LeadsFrom("undo", undoStack, Content, l),
         NEW f, f = [e EXCEPT !.id = actions + 1, !.was = Content, !.now = ContentOf(srv, cnv)],
         f \in EntryRecords, Took(f, l, l), cnv = Picture(f.now, l), srv = Registry(f.now, l)
  PROVE  StacksLead'
<1>1. /\ inventory' = srv /\ canvas' = cnv /\ pending' = NoEntryCall /\ PushEntry(f)
  BY DEF Commit
<1>2. f.was = Content /\ Shows(f.now, l)
  BY DEF EntryRecords, Took
<1>3. LeadsFrom("undo", undoStack', f.now, l) /\ LeadsFrom("redo", redoStack', f.now, l)
  BY <1>1, <1>2, PushLeads
<1> QED BY <1>1, <1>2, <1>3, Settles

\* The number, and the contents, of an entry make it none of another kind.
LEMMA CommittedIs ==
  ASSUME StacksTyped, actions + writes < MaxActions, NEW e \in EntryRecords,
         NEW x \in AnyContent
  PROVE  LET f == [e EXCEPT !.id = actions + 1, !.was = Content, !.now = x]
         IN  /\ f \in EntryRecords /\ f.was = Content /\ f.now = x
             /\ f.kind = e.kind /\ f.d = e.d /\ f.from = e.from /\ f.to = e.to /\ f.sight = e.sight
             /\ f.kept = e.kept /\ f.link = e.link
<1>1. actions + 1 \in 0..MaxActions
  BY NextNumber, StackAssumption
<1>2. Content \in AnyContent
  BY ContentTyped DEF Content, StacksTyped
<1> QED BY <1>1, <1>2 DEF EntryRecords

\* An entry tells what its action has done: a move,
LEMMA MoveTook ==
  ASSUME NEW c, NEW l, Shows(c, l), canvas = Picture(c, l), inventory = Registry(c, l),
         NEW d \in DOMAIN c.node, NEW p \in Places, NEW f,
         f.kind = "move", f.d = d, f.from = c.node[d].at, f.to = p, f.was = c,
         f.now = ContentOf(inventory, ApplyMove(d, p))
  PROVE  Took(f, l, l) /\ ApplyMove(d, p) = Picture(f.now, l) /\ inventory = Registry(f.now, l)
<1> DEFINE n == [c.node EXCEPT ![d].at = p]
<1>1. /\ n \in NodeRecords /\ NamesAgree(c.device, n)
      /\ ApplyMove(d, p) = [node |-> n, edges |-> Drawn(n, l)]
  BY MoveIs
<1>2. inventory = [device |-> c.device, link |-> l] /\ c.device \in Rows /\ l \in LinkOrNone
  BY ShowsParts DEF Registry
<1> HIDE DEF n
<1>3. /\ Shows(f.now, l) /\ f.now.device = c.device /\ f.now.node = n
      /\ Registry(f.now, l) = inventory /\ Picture(f.now, l) = ApplyMove(d, p)
  BY <1>1, <1>2, ContentShows
<1>4. TookMove(f, f.was, f.now)
  BY <1>3 DEF TookMove, n
<1> QED BY <1>3, <1>4 DEF Took

\* a removal from view,
LEMMA RemovalTook ==
  ASSUME NEW c, NEW l, Shows(c, l), canvas = Picture(c, l), inventory = Registry(c, l),
         NEW d \in DOMAIN c.node, NEW f,
         NEW s, s = SnapshotNodeSet(d), f.kind = "remove_from_view", f.d = d, f.sight = s, f.was = c,
         f.now = ContentOf(inventory, ApplySnapshotRemoval(s))
  PROVE  /\ Took(f, l, l) /\ inventory = Registry(f.now, l)
         /\ ApplySnapshotRemoval(s) = Picture(f.now, l)
<1>0. PICK n : n = Without(c.node, {d})
  OBVIOUS
<1>1. s = [node |-> [y \in {d} |-> c.node[d]], edges |-> Drawn(c.node, l)]
  BY DEF SnapshotNodeSet, Picture
<1>2. DOMAIN s.node = {d}
  BY <1>1
<1>3. inventory = [device |-> c.device, link |-> l] /\ c.device \in Rows /\ l \in LinkOrNone
  BY ShowsParts DEF Registry
<1>4. /\ n \in NodeRecords /\ NamesAgree(c.device, n)
      /\ ApplySnapshotRemoval(s) = [node |-> n, edges |-> Drawn(n, l)]
  <2>1. ApplySnapshotRemoval(s) = [node |-> n, edges |-> {}]
    BY <1>0, <1>2, RemovalIs
  <2>2. n \in NodeRecords /\ NamesAgree(c.device, n) /\ Drawn(n, l) = {}
    BY <1>0, GoneIs DEF Drawn
  <2> QED BY <2>1, <2>2
<1>5. /\ Shows(f.now, l) /\ f.now.device = c.device /\ f.now.node = n
      /\ Registry(f.now, l) = inventory
      /\ Picture(f.now, l) = ApplySnapshotRemoval(s)
  BY <1>3, <1>4, ContentShows
<1>6. TookRemoval(f, f.was, f.now, l)
  BY <1>0, <1>1, <1>5 DEF TookRemoval
<1> QED BY <1>5, <1>6 DEF Took

\* a field of the panel.
LEMMA FieldTook ==
  ASSUME NEW c, NEW l, Shows(c, l), canvas = Picture(c, l), inventory = Registry(c, l),
         NEW d \in DOMAIN c.device, NEW m \in Names, NEW srv, srv = [inventory EXCEPT !.device[d] = m],
         NEW f, f.kind = "field", f.d = d, f.from = c.device[d], f.to = m, f.was = c,
         f.now = ContentOf(srv, PatchNode(d, m))
  PROVE  Took(f, l, l) /\ PatchNode(d, m) = Picture(f.now, l) /\ srv = Registry(f.now, l)
<1> DEFINE n == IF d \in DOMAIN c.node THEN [c.node EXCEPT ![d].name = m] ELSE c.node
           r == [c.device EXCEPT ![d] = m]
<1>1. /\ n \in NodeRecords /\ r \in Rows /\ NamesAgree(r, n)
      /\ PatchNode(d, m) = [node |-> n, edges |-> Drawn(n, l)]
  BY NameIs
<1>2. srv = [device |-> r, link |-> l] /\ l \in LinkOrNone
  BY ShowsParts DEF Registry
<1> HIDE DEF n, r
<1>3. /\ Shows(f.now, l) /\ f.now.device = r /\ f.now.node = n
      /\ Registry(f.now, l) = srv /\ Picture(f.now, l) = PatchNode(d, m)
  <2>1. f.now = ContentOf([device |-> r, link |-> l], [node |-> n, edges |-> Drawn(n, l)])
    BY <1>1, <1>2
  <2> DEFINE x == ContentOf([device |-> r, link |-> l], [node |-> n, edges |-> Drawn(n, l)])
  <2>2. /\ Shows(x, l) /\ x.device = r /\ x.node = n
        /\ Registry(x, l) = [device |-> r, link |-> l]
        /\ Picture(x, l) = [node |-> n, edges |-> Drawn(n, l)]
    BY <1>1, <1>2, ContentShows
  <2> HIDE DEF x
  <2> QED BY <1>1, <1>2, <2>1, <2>2 DEF x
<1>4. TookField(f, f.was, f.now)
  BY <1>3 DEF TookField, n, r
<1> QED BY <1>3, <1>4 DEF Took

\* What the user does alone, without a request, keeps the stacks leading.
LEMMA MovesLead ==
  ASSUME StacksTyped, StacksLead, ~waiting,
         CommitMoveGesture \/ CommitLocalRemoveFromView \/ PushFieldEntry
  PROVE  StacksLead'
<1>1. PICK l \in LinkOrNone :
        /\ Shows(Content, l) /\ canvas = Picture(Content, l) /\ inventory = Registry(Content, l)
        /\ LeadsFrom("undo", undoStack, Content, l) /\ LeadsFrom("redo", redoStack, Content, l)
        /\ pending = NoEntryCall
  BY AtRest
<1>2. PICK c : c = Content
  OBVIOUS
<1>3. /\ Shows(c, l) /\ canvas = Picture(c, l) /\ inventory = Registry(c, l)
      /\ canvas.node = c.node /\ inventory.device = c.device
  BY <1>1, <1>2 DEF Picture, Registry
<1>4. /\ canvas \in Canvas /\ inventory \in Server /\ DOMAIN c.node \in SUBSET CanvasDevices
      /\ c.node \in NodeRecords /\ c.device \in [DOMAIN c.device -> Names]
  BY <1>3, ShowsParts DEF StacksTyped
<1>5. \A e \in EntryRecords, srv \in Server, cnv \in Canvas :
        Commit(e, srv, cnv) =>
          LET f == [e EXCEPT !.id = actions + 1, !.was = Content, !.now = ContentOf(srv, cnv)]
          IN  /\ f \in EntryRecords /\ f.was = c /\ f.now = ContentOf(srv, cnv)
              /\ f.kind = e.kind /\ f.d = e.d /\ f.from = e.from /\ f.to = e.to /\ f.sight = e.sight
              /\ f.kept = e.kept /\ f.link = e.link
  <2> SUFFICES ASSUME NEW e \in EntryRecords, NEW srv \in Server, NEW cnv \in Canvas, Commit(e, srv, cnv)
      PROVE  LET f == [e EXCEPT !.id = actions + 1, !.was = Content, !.now = ContentOf(srv, cnv)]
             IN  /\ f \in EntryRecords /\ f.was = c /\ f.now = ContentOf(srv, cnv)
                 /\ f.kind = e.kind /\ f.d = e.d /\ f.from = e.from /\ f.to = e.to /\ f.sight = e.sight
                 /\ f.kept = e.kept /\ f.link = e.link
    OBVIOUS
  <2>1. actions + writes < MaxActions
    BY DEF Commit
  <2>2. PICK x \in AnyContent : x = ContentOf(srv, cnv)
    BY ContentTyped
  <2> QED BY <1>2, <2>1, <2>2, CommittedIs
<1>6. CASE CommitMoveGesture
  <2>1. PICK d \in DOMAIN canvas.node, p \in Places :
          Commit([Blank EXCEPT !.kind = "move", !.d = d, !.from = canvas.node[d].at, !.to = p],
                 inventory, ApplyMove(d, p))
    BY <1>6 DEF CommitMoveGesture
  <2>2. PICK e : e = [Blank EXCEPT !.kind = "move", !.d = d, !.from = canvas.node[d].at, !.to = p]
    OBVIOUS
  <2>3. d \in DOMAIN c.node /\ d \in CanvasDevices /\ c.node[d].at \in Places
    BY <1>3, <1>4, NodeChanged DEF Node
  <2>4. e \in EntryRecords /\ e.kind = "move" /\ e.d = d /\ e.from = c.node[d].at /\ e.to = p
    BY <1>3, <2>2, <2>3, BlankTyped DEF EntryRecords, Kinds, Values
  <2>5. PICK cnv \in Canvas : cnv = ApplyMove(d, p)
    BY <1>4, CanvasStays
  <2>s. PICK srv \in Server : srv = inventory
    BY <1>4
  <2>6. Commit(e, srv, cnv)
    BY <2>1, <2>2, <2>5, <2>s
  <2>7. PICK f : f = [e EXCEPT !.id = actions + 1, !.was = Content, !.now = ContentOf(srv, cnv)]
    OBVIOUS
  <2>8. /\ f \in EntryRecords /\ f.was = c /\ f.now = ContentOf(srv, cnv)
        /\ f.kind = "move" /\ f.d = d /\ f.from = c.node[d].at /\ f.to = p
    <3>1. /\ f \in EntryRecords /\ f.was = c /\ f.now = ContentOf(srv, cnv)
          /\ f.kind = e.kind /\ f.d = e.d /\ f.from = e.from /\ f.to = e.to
      <4>1. e \in EntryRecords
        BY <2>4
      <4> QED BY <1>5, <4>1, <2>6, <2>7
    <3> QED BY <2>4, <3>1
  <2>9. Took(f, l, l) /\ cnv = Picture(f.now, l) /\ srv = Registry(f.now, l)
    BY <1>3, <2>3, <2>5, <2>8, <2>s, MoveTook
  <2> QED BY <1>1, <2>4, <2>6, <2>7, <2>8, <2>9, CommitLeads
<1>7. CASE CommitLocalRemoveFromView
  <2>1. PICK d \in DOMAIN canvas.node :
          Commit([Blank EXCEPT !.kind = "remove_from_view", !.d = d, !.sight = SnapshotNodeSet(d)],
                 inventory, ApplySnapshotRemoval(SnapshotNodeSet(d)))
    BY <1>7 DEF CommitLocalRemoveFromView
  <2>2. PICK s \in Canvas : s = SnapshotNodeSet(d)
    BY <1>4, CanvasStays
  <2>3. PICK e : e = [Blank EXCEPT !.kind = "remove_from_view", !.d = d, !.sight = s]
    OBVIOUS
  <2>4. d \in DOMAIN c.node /\ d \in CanvasDevices
    BY <1>3, <1>4
  <2>5. e \in EntryRecords /\ e.kind = "remove_from_view" /\ e.d = d /\ e.sight = s
    BY <2>3, <2>4, BlankTyped DEF EntryRecords, Kinds
  <2>6. PICK cnv \in Canvas : cnv = ApplySnapshotRemoval(s)
    BY <1>4, CanvasStays
  <2>s. PICK srv \in Server : srv = inventory
    BY <1>4
  <2>7. Commit(e, srv, cnv)
    BY <2>1, <2>2, <2>3, <2>6, <2>s
  <2>8. PICK f : f = [e EXCEPT !.id = actions + 1, !.was = Content, !.now = ContentOf(srv, cnv)]
    OBVIOUS
  <2>9. /\ f \in EntryRecords /\ f.was = c /\ f.now = ContentOf(srv, cnv)
        /\ f.kind = "remove_from_view" /\ f.d = d /\ f.sight = s
    BY <1>5, <2>5, <2>7, <2>8
  <2>10. Took(f, l, l) /\ cnv = Picture(f.now, l) /\ srv = Registry(f.now, l)
    BY <1>3, <2>2, <2>4, <2>6, <2>9, <2>s, RemovalTook
  <2> QED BY <1>1, <2>5, <2>7, <2>8, <2>9, <2>10, CommitLeads
<1>8. CASE PushFieldEntry
  <2>1. PICK d \in DOMAIN canvas.node, m \in Names :
          /\ d \in DOMAIN inventory.device
          /\ Commit([Blank EXCEPT !.kind = "field", !.d = d, !.from = inventory.device[d], !.to = m],
                    [inventory EXCEPT !.device[d] = m], PatchNode(d, m))
    BY <1>8 DEF PushFieldEntry
  <2>2. PICK e : e = [Blank EXCEPT !.kind = "field", !.d = d, !.from = inventory.device[d], !.to = m]
    OBVIOUS
  <2>3. d \in DOMAIN c.device /\ d \in CanvasDevices /\ c.device[d] \in Names
    BY <1>3, <1>4, <2>1
  <2>4. e \in EntryRecords /\ e.kind = "field" /\ e.d = d /\ e.from = c.device[d] /\ e.to = m
    BY <1>3, <2>2, <2>3, BlankTyped DEF EntryRecords, Kinds, Values
  <2>5. PICK cnv \in Canvas : cnv = PatchNode(d, m)
    BY <1>4, CanvasStays
  <2>6. PICK srv : srv = [inventory EXCEPT !.device[d] = m]
    OBVIOUS
  <2>7. srv \in Server
    <3>1. inventory.device \in Rows /\ inventory \in [device : Rows, link : LinkOrNone]
      BY <1>4, CanvasIs
    <3>2. [inventory.device EXCEPT ![d] = m] \in Rows
      BY <2>1, <3>1, PartialChanged DEF Rows
    <3>3. srv \in [device : Rows, link : LinkOrNone]
      BY <2>6, <3>1, <3>2
    <3> QED BY <3>3, CanvasIs
  <2>8. Commit(e, srv, cnv)
    BY <2>1, <2>2, <2>5, <2>6
  <2>9. PICK f : f = [e EXCEPT !.id = actions + 1, !.was = Content, !.now = ContentOf(srv, cnv)]
    OBVIOUS
  <2>10. /\ f \in EntryRecords /\ f.was = c /\ f.now = ContentOf(srv, cnv)
         /\ f.kind = "field" /\ f.d = d /\ f.from = c.device[d] /\ f.to = m
    BY <1>5, <2>4, <2>7, <2>8, <2>9
  <2>11. Took(f, l, l) /\ cnv = Picture(f.now, l) /\ srv = Registry(f.now, l)
    BY <1>3, <2>3, <2>5, <2>6, <2>10, FieldTook
  <2> QED BY <1>1, <2>4, <2>8, <2>9, <2>10, <2>11, CommitLeads
<1> QED BY <1>6, <1>7, <1>8

\* A request is made from what there is.
LEMMA AskLeads ==
  ASSUME pending = NoEntryCall, NEW way \in {"forward", "undo", "redo"}, NEW e, Ask(way, e),
         NEW c, NEW l, Shows(c, l), canvas = Picture(c, l), inventory = Registry(c, l),
         LeadsFrom("undo", undoStack, c, l), LeadsFrom("redo", redoStack, c, l),
         c = IF way = "undo" THEN e.now ELSE e.was,
         way # "forward" => Source(way) # <<>> /\ e = TopEntry(Source(way)),
         way = "forward" =>
           /\ e.kind = "create_edge" => CanvasDevices \subseteq DOMAIN c.node
           /\ e.kind = "delete_edge" => e.link = l /\ CanvasDevices \subseteq DOMAIN c.node
           /\ e.kind = "delete_edge" => l # NoId
           /\ e.kind = "delete_node" => /\ e.d \in DOMAIN c.node
                                        /\ e.sight = [node |-> [x \in {e.d} |-> c.node[e.d]],
                                                      edges |-> Drawn(c.node, l)]
  PROVE  StacksLead'
<1>1. /\ pending' = [NoEntryCall EXCEPT !.way = way, !.at = "asked", !.entry = e]
      /\ inventory' = inventory /\ canvas' = canvas /\ undoStack' = undoStack /\ redoStack' = redoStack
  BY DEF Ask
<1>2. pending'.way = way /\ pending'.at = "asked" /\ pending'.entry = e
  BY <1>1 DEF NoEntryCall
<1>3. waiting'
  BY <1>2 DEF waiting
<1>4. Base' = c
  BY <1>2, <1>3 DEF Base
<1>5. (Source(pending.way) # <<>> /\ pending.entry = TopEntry(Source(pending.way)))'
        <=> Source(way) # <<>> /\ e = TopEntry(Source(way))
  BY <1>1, <1>2 DEF Source, TopEntry
<1>6. AskedRightly(c, l)'
  BY <1>2, <1>5 DEF AskedRightly
<1>7. World(c, l)'
  BY <1>1, <1>2, <1>6 DEF World, Picture, Registry
<1>8. l \in LinkOrNone
  BY DEF Shows
<1> QED BY <1>1, <1>4, <1>7, <1>8 DEF StacksLead

\* A connection to make, one to delete, a device to delete.
LEMMA RequestsLead ==
  ASSUME StacksTyped, StacksLead, RequestCreateEdge \/ RequestDeleteEdge \/ RequestDeleteNode
  PROVE  StacksLead'
<1>0. ~waiting
  BY DEF RequestCreateEdge, RequestDeleteEdge, RequestDeleteNode, RequestCanvasAction
<1>1. PICK l \in LinkOrNone :
        /\ Shows(Content, l) /\ canvas = Picture(Content, l) /\ inventory = Registry(Content, l)
        /\ LeadsFrom("undo", undoStack, Content, l) /\ LeadsFrom("redo", redoStack, Content, l)
        /\ pending = NoEntryCall
  BY <1>0, AtRest
<1>2. PICK c : c = Content
  OBVIOUS
<1>3. /\ Shows(c, l) /\ canvas = Picture(c, l) /\ inventory = Registry(c, l)
      /\ LeadsFrom("undo", undoStack, c, l) /\ LeadsFrom("redo", redoStack, c, l)
      /\ canvas.node = c.node /\ canvas.edges = Drawn(c.node, l)
  BY <1>1, <1>2 DEF Picture
<1>4. \A e \in EntryRecords : LET f == [e EXCEPT !.id = actions + 1, !.was = Content]
                        IN  /\ f.was = c /\ f.kind = e.kind /\ f.d = e.d
                            /\ f.link = e.link /\ f.sight = e.sight
  BY <1>2 DEF EntryRecords
<1>5. CASE RequestCreateEdge
  <2>1. PICK e : e = [Blank EXCEPT !.kind = "create_edge"]
    OBVIOUS
  <2>2. RequestCanvasAction(e) /\ CanvasDevices \subseteq DOMAIN c.node
    BY <1>3, <1>5, <2>1 DEF RequestCreateEdge
  <2>3. e \in EntryRecords /\ e.kind = "create_edge"
    BY <2>1, BlankTyped DEF EntryRecords, Kinds
  <2>4. PICK f : f = [e EXCEPT !.id = actions + 1, !.was = Content]
    OBVIOUS
  <2>5. f.was = c /\ f.kind = "create_edge"
    BY <1>4, <2>3, <2>4
  <2>6. Ask("forward", f)
    BY <2>2, <2>4 DEF RequestCanvasAction
  <2> QED BY <1>1, <1>3, <2>2, <2>5, <2>6, AskLeads
<1>6. CASE RequestDeleteEdge
  <2>1. PICK x \in canvas.edges : RequestCanvasAction([Blank EXCEPT !.kind = "delete_edge", !.link = x])
    BY <1>6 DEF RequestDeleteEdge
  <2>2. PICK e : e = [Blank EXCEPT !.kind = "delete_edge", !.link = x]
    OBVIOUS
  <2>3. x = l /\ x \in Links /\ l # NoId /\ CanvasDevices \subseteq DOMAIN c.node
    BY <1>3, <2>1, DrawnIs
  <2>4. e \in EntryRecords /\ e.kind = "delete_edge" /\ e.link = l
    BY <2>2, <2>3, BlankTyped DEF EntryRecords, Kinds, LinkOrNone
  <2>5. PICK f : f = [e EXCEPT !.id = actions + 1, !.was = Content]
    OBVIOUS
  <2>6. f.was = c /\ f.kind = "delete_edge" /\ f.link = l
    BY <1>4, <2>4, <2>5
  <2>7. Ask("forward", f)
    BY <2>1, <2>2, <2>5 DEF RequestCanvasAction
  <2> QED BY <1>1, <1>3, <2>3, <2>6, <2>7, AskLeads
<1>7. CASE RequestDeleteNode
  <2>1. PICK d \in DOMAIN canvas.node :
          RequestCanvasAction([Blank EXCEPT !.kind = "delete_node", !.d = d, !.sight = SnapshotNodeSet(d)])
    BY <1>7 DEF RequestDeleteNode
  <2>2. PICK s \in Canvas : s = SnapshotNodeSet(d)
    BY CanvasStays DEF StacksTyped
  <2>3. PICK e : e = [Blank EXCEPT !.kind = "delete_node", !.d = d, !.sight = s]
    OBVIOUS
  <2>4. d \in DOMAIN c.node /\ d \in CanvasDevices
    BY <1>3, ShowsParts
  <2>5. e \in EntryRecords /\ e.kind = "delete_node" /\ e.d = d /\ e.sight = s
    BY <2>3, <2>4, BlankTyped DEF EntryRecords, Kinds
  <2>6. PICK f : f = [e EXCEPT !.id = actions + 1, !.was = Content]
    OBVIOUS
  <2>7. f.was = c /\ f.kind = "delete_node" /\ f.d = d /\ f.sight = s
    BY <1>4, <2>5, <2>6
  <2>8. Ask("forward", f)
    BY <2>1, <2>2, <2>3, <2>6 DEF RequestCanvasAction
  <2>9. s = [node |-> [x \in {d} |-> c.node[d]], edges |-> Drawn(c.node, l)]
    BY <1>3, <2>2 DEF SnapshotNodeSet
  <2>10. f.sight = [node |-> [x \in {f.d} |-> c.node[f.d]], edges |-> Drawn(c.node, l)]
    BY <2>7, <2>9
  <2> QED BY <1>1, <1>3, <2>4, <2>7, <2>8, <2>10, AskLeads
<1> QED BY <1>5, <1>6, <1>7

\* The two contents of an entry that is replayed.
LEMMA AcrossIs ==
  ASSUME NEW way \in {"undo", "redo"}, NEW e, NEW m, NEW l, Across(way, e, m, l)
  PROVE  /\ Shows(Far(way, e), m) /\ Shows(Near(way, e), l)
         /\ way = "undo" => Took(e, m, l) /\ Far(way, e) = e.was /\ Near(way, e) = e.now
         /\ way = "redo" => Took(e, l, m) /\ Far(way, e) = e.now /\ Near(way, e) = e.was
BY DEF Across, Far, Near, Took

\* A local entry that is replayed leads from one of its contents to the other.
LEMMA LocalSteps ==
  ASSUME NEW e, Stacked(e), Local(e), NEW way \in {"undo", "redo"}, NEW m, NEW l, Across(way, e, m, l),
         NEW c, c = Near(way, e), canvas = Picture(c, l), inventory = Registry(c, l)
  PROVE  ApplyLocalOp(e, way) = Picture(Far(way, e), m) /\ Registry(Far(way, e), m) = inventory
<1>1. CASE e.kind = "move"
  <2>1. m = l /\ TookMove(e, e.was, e.now) /\ e.from \in Places /\ e.to \in Places
    BY <1>1, AcrossIs DEF Took, Stacked, EntryFits
  <2>2. CASE way = "undo"
    <3>1. c = e.now /\ Far(way, e) = e.was /\ Shows(e.was, l) /\ Shows(e.now, l)
      BY <2>1, <2>2, AcrossIs
    <3>2. /\ e.was.device = e.now.device /\ e.d \in DOMAIN e.was.node
          /\ e.was.node[e.d].at = e.from /\ e.now.node = [e.was.node EXCEPT ![e.d].at = e.to]
      BY <2>1 DEF TookMove
    <3>3. e.d \in DOMAIN e.now.node /\ e.was.node \in NodeRecords
      BY <3>1, <3>2, ShowsParts
    <3>4. [e.now.node EXCEPT ![e.d].at = e.from] = e.was.node
      <4>1. PICK n \in NodeRecords : n = e.was.node
        BY <3>3
      <4>2. PICK d \in DOMAIN n : d = e.d
        BY <3>2, <4>1
      <4>3. PICK p : p = e.from
        OBVIOUS
      <4>4. PICK q : q = e.to
        OBVIOUS
      <4>5. n[d].at = p /\ e.now.node = [n EXCEPT ![d].at = q]
        BY <3>2, <4>1, <4>2, <4>3, <4>4
      <4>6. [[n EXCEPT ![d].at = q] EXCEPT ![d].at = p] = n
        BY <4>5, MovedBack
      <4> QED BY <4>1, <4>2, <4>3, <4>5, <4>6
    <3>5. ApplyMove(e.d, e.from) = [node |-> e.was.node, edges |-> Drawn(e.was.node, l)]
      <4>1. PICK n : n = [e.now.node EXCEPT ![e.d].at = e.from]
        OBVIOUS
      <4>2. ApplyMove(e.d, e.from) = [node |-> n, edges |-> Drawn(n, l)]
        BY <2>1, <3>1, <3>3, <4>1, MoveIs
      <4> QED BY <3>4, <4>1, <4>2
    <3>6. ApplyLocalOp(e, way) = ApplyMove(e.d, e.from)
      BY <1>1, <2>2 DEF ApplyLocalOp
    <3> QED BY <2>1, <3>1, <3>2, <3>5, <3>6 DEF Picture, Registry
  <2>3. CASE way = "redo"
    <3>1. c = e.was /\ Far(way, e) = e.now /\ Shows(e.was, l) /\ Shows(e.now, l)
      BY <2>1, <2>3, AcrossIs
    <3>2. /\ e.was.device = e.now.device /\ e.d \in DOMAIN e.was.node
          /\ e.now.node = [e.was.node EXCEPT ![e.d].at = e.to]
      BY <2>1 DEF TookMove
    <3>3. ApplyMove(e.d, e.to) = [node |-> e.now.node, edges |-> Drawn(e.now.node, l)]
      BY <2>1, <3>1, <3>2, MoveIs
    <3>4. ApplyLocalOp(e, way) = ApplyMove(e.d, e.to)
      BY <1>1, <2>3 DEF ApplyLocalOp
    <3> QED BY <2>1, <3>1, <3>2, <3>3, <3>4 DEF Picture, Registry
  <2> QED BY <2>2, <2>3
<1>2. CASE e.kind = "remove_from_view"
  <2>1. m = l /\ TookRemoval(e, e.was, e.now, l)
    BY <1>2, AcrossIs DEF Took
  <2>2. /\ e.was.device = e.now.device /\ e.d \in DOMAIN e.was.node
        /\ e.now.node = Without(e.was.node, {e.d})
        /\ e.sight.node = [y \in {e.d} |-> e.was.node[e.d]] /\ e.sight.edges = Drawn(e.was.node, l)
    BY <2>1 DEF TookRemoval
  <2>3. Shows(e.was, l) /\ Shows(e.now, l) /\ e.was.node \in NodeRecords /\ l \in LinkOrNone
    BY <2>1, AcrossIs, ShowsParts
  <2>4. CASE way = "undo"
    <3>1. c = e.now /\ Far(way, e) = e.was
      BY <2>4, AcrossIs
    <3>2. canvas = [node |-> Without(e.was.node, {e.d}), edges |-> Drawn(Without(e.was.node, {e.d}), l)]
      BY <2>2, <3>1 DEF Picture
    <3>3. Hung(e.was.node, e.sight.edges) = Drawn(e.was.node, l)
      BY <2>2, <2>3, DrawnIs
    <3>4. ApplySnapshotRestore(e.sight) = [node |-> e.was.node, edges |-> Drawn(e.was.node, l)]
      BY <2>2, <2>3, <3>2, <3>3, RestoreIs
    <3>5. ApplyLocalOp(e, way) = ApplySnapshotRestore(e.sight)
      BY <1>2, <2>4 DEF ApplyLocalOp
    <3> QED BY <2>1, <2>2, <3>1, <3>4, <3>5 DEF Picture, Registry
  <2>5. CASE way = "redo"
    <3>1. c = e.was /\ Far(way, e) = e.now
      BY <2>5, AcrossIs
    <3>2. DOMAIN e.sight.node = {e.d}
      BY <2>2
    <3>3. ApplySnapshotRemoval(e.sight) = [node |-> Without(e.was.node, {e.d}), edges |-> {}]
      BY <2>2, <2>3, <3>1, <3>2, RemovalIs
    <3>4. Drawn(e.now.node, l) = {}
      BY <2>2, <2>3, GoneIs DEF Drawn
    <3>5. ApplyLocalOp(e, way) = ApplySnapshotRemoval(e.sight)
      BY <1>2, <2>5 DEF ApplyLocalOp
    <3> QED BY <2>1, <2>2, <3>1, <3>3, <3>4, <3>5 DEF Picture, Registry
  <2> QED BY <2>4, <2>5
<1> QED BY <1>1, <1>2 DEF Local

\* The entry to replay, what it leads to, and what lies below it and on the other side.
LEMMA TopLeads ==
  ASSUME StacksTyped, NEW way \in {"undo", "redo"}, Source(way) # <<>>, NEW c, NEW l,
         LeadsFrom("undo", undoStack, c, l), LeadsFrom("redo", redoStack, c, l),
         NEW e, e = TopEntry(Source(way))
  PROVE  /\ Stacked(e) /\ e \in EntryRecords /\ Near(way, e) = c
         /\ LeadsFrom(Other(way), Source(Other(way)), c, l)
         /\ \E m \in LinkOrNone : /\ Across(way, e, m, l)
                                  /\ LeadsFrom(way, WithoutTop(Source(way)), Far(way, e), m)
<1>1. Stacked(e) /\ e \in EntryRecords
  BY SourceTop DEF StacksTyped, Stacked, EntryFits
<1>2. LeadsFrom(Other(way), Source(Other(way)), c, l) /\ LeadsFrom(way, Source(way), c, l)
  BY DEF Other, Source
<1>3. Source(way) \in Seq(EntryRecords)
  BY StacksAreSeqs DEF Source
<1> QED BY <1>1, <1>2, <1>3, LeadsPop

\* A replay, in the browser or asked of the server, keeps the stacks leading.
LEMMA ReplaysLead ==
  ASSUME StacksTyped, StacksLead, ~waiting, NEW way \in {"undo", "redo"},
         ReplayLocally(way) \/ ReplayByServer(way)
  PROVE  StacksLead'
<1>1. PICK l \in LinkOrNone :
        /\ Shows(Content, l) /\ canvas = Picture(Content, l) /\ inventory = Registry(Content, l)
        /\ LeadsFrom("undo", undoStack, Content, l) /\ LeadsFrom("redo", redoStack, Content, l)
        /\ pending = NoEntryCall
  BY AtRest
<1>2. PICK c : c = Content
  OBVIOUS
<1>3. /\ Shows(c, l) /\ canvas = Picture(c, l) /\ inventory = Registry(c, l)
      /\ LeadsFrom("undo", undoStack, c, l) /\ LeadsFrom("redo", redoStack, c, l)
  BY <1>1, <1>2
<1>4. PICK e : e = TopEntry(Source(way))
  OBVIOUS
<1>5. Source(way) # <<>>
  BY DEF ReplayLocally, ReplayByServer
<1>6. /\ Stacked(e) /\ e \in EntryRecords /\ Near(way, e) = c
      /\ LeadsFrom(Other(way), Source(Other(way)), c, l)
      /\ \E m \in LinkOrNone : /\ Across(way, e, m, l)
                               /\ LeadsFrom(way, WithoutTop(Source(way)), Far(way, e), m)
  BY <1>3, <1>4, <1>5, TopLeads
<1>7. PICK m \in LinkOrNone : /\ Across(way, e, m, l)
                              /\ LeadsFrom(way, WithoutTop(Source(way)), Far(way, e), m)
  BY <1>6
<1>8. CASE ReplayLocally(way)
  <2>1. /\ Local(e) /\ canvas' = ApplyLocalOp(e, way) /\ ShiftEntry(way, e)
        /\ inventory' = inventory /\ pending' = NoEntryCall
    BY <1>1, <1>4, <1>8 DEF ReplayLocally
  <2>2. canvas' = Picture(Far(way, e), m) /\ inventory' = Registry(Far(way, e), m)
    BY <1>3, <1>6, <1>7, <2>1, LocalSteps
  <2>3. LeadsFrom("undo", undoStack', Far(way, e), m) /\ LeadsFrom("redo", redoStack', Far(way, e), m)
    <3>1. l \in LinkOrNone
      BY <1>1
    <3> QED BY <1>5, <1>6, <1>7, <2>1, <3>1, ShiftLeads
  <2>4. Shows(Far(way, e), m)
    BY <1>7, AcrossIs
  <2> QED BY <2>1, <2>2, <2>3, <2>4, Settles
<1>9. CASE ReplayByServer(way)
  <2>1. Ask(way, e)
    BY <1>4, <1>9 DEF ReplayByServer
  <2>2. c = IF way = "undo" THEN e.now ELSE e.was
    BY <1>6 DEF Near
  <2>3. way # "forward" /\ way \in {"forward", "undo", "redo"}
    OBVIOUS
  <2> QED BY <1>1, <1>3, <1>4, <1>5, <2>1, <2>2, <2>3, AskLeads
<1> QED BY <1>8, <1>9

\* An answer leaves what was asked, and what it was asked from.
LEMMA AnswerLeads ==
  ASSUME waiting, NEW l \in LinkOrNone, NEW c, c = Base,
         LeadsFrom("undo", undoStack, c, l), LeadsFrom("redo", redoStack, c, l), World(c, l),
         UNCHANGED <<canvas, undoStack, redoStack>>,
         pending'.way = pending.way, pending'.entry = pending.entry,
         \/ pending'.at = "done" /\ ReplayAnswered(c, l)'
         \/ pending'.at = "refused" /\ inventory' = Registry(c, l)
  PROVE  StacksLead'
<1>1. waiting' /\ Base' = c
  BY DEF waiting, Base
<1>2. AskedRightly(c, l)'
  <2>1. AskedRightly(c, l)
    BY DEF World
  <2> QED BY <2>1 DEF AskedRightly, Source, TopEntry
<1>3. World(c, l)'
  <2>1. Shows(c, l) /\ canvas = [node |-> c.node, edges |-> Drawn(c.node, l)]
    BY DEF World
  <2>2. IF pending'.at = "done" THEN ReplayAnswered(c, l)'
        ELSE inventory' = [device |-> c.device, link |-> l]
    BY DEF Registry
  <2> QED BY <1>2, <2>1, <2>2 DEF World
<1> QED BY <1>1, <1>3 DEF StacksLead

\* The connection that is to go is the one that is there.
LEMMA GoesById ==
  ASSUME StacksTyped, waiting, NEW c, NEW l, AskedRightly(c, l), Op = "disconnect",
         LeadsFrom("undo", undoStack, c, l), LeadsFrom("redo", redoStack, c, l)
  PROVE  pending.entry.link = l
<1> DEFINE e == pending.entry
<1>0. RequestSound /\ pending.way \in {"forward", "undo", "redo"}
  BY DEF StacksTyped, RequestSound, EntryCalls, waiting
<1>1. \/ e.kind = "create_edge" /\ pending.way = "undo"
      \/ e.kind = "delete_edge" /\ pending.way # "undo"
  BY <1>0, OpIs
<1>2. CASE pending.way = "forward"
  BY <1>1, <1>2 DEF AskedRightly
<1>3. CASE pending.way \in {"undo", "redo"}
  <2>1. Source(pending.way) # <<>> /\ e = TopEntry(Source(pending.way))
    BY <1>3 DEF AskedRightly
  <2>2. PICK m \in LinkOrNone : Across(pending.way, e, m, l)
    BY <1>3, <2>1, TopLeads
  <2> QED BY <1>1, <1>3, <2>2, AcrossIs DEF Took
<1> QED BY <1>0, <1>2, <1>3

\* What the server does is what the entry says, as long as an answer comes.
LEMMA ServeLeads ==
  ASSUME StacksTyped, StacksLead, Serve, pending.at # "lost", pending'.at # "lost"
  PROVE  StacksLead'
<1>0. RequestSound /\ pending \in EntryCalls
  BY DEF StacksTyped, RequestSound
<1>a. /\ pending.at = "asked" /\ ~EntryCallRaises
      /\ UNCHANGED <<canvas, undoStack, redoStack>>
  BY <1>0 DEF EntryCalls, Serve, CreateEdge, DeleteEdge, DeletePublishedDevice, RestorePublishedDevice,
     ApplyUndoableFieldPatch, RefuseEntry, EntryCallRaises, Asked, Settled
<1>w. waiting
  BY <1>0, <1>a DEF RequestSound, NoEntryCall, waiting
<1>1. PICK l \in LinkOrNone :
        /\ LeadsFrom("undo", undoStack, Base, l) /\ LeadsFrom("redo", redoStack, Base, l)
        /\ World(Base, l)
  BY DEF StacksLead
<1>2. PICK c : c = Base
  OBVIOUS
<1>3. /\ LeadsFrom("undo", undoStack, c, l) /\ LeadsFrom("redo", redoStack, c, l) /\ World(c, l)
      /\ inventory = [device |-> c.device, link |-> l] /\ AskedRightly(c, l)
  BY <1>1, <1>2, <1>a DEF World
<1>4. ASSUME NEW at, pending' = [pending EXCEPT !.at = at]
      PROVE  /\ pending'.way = pending.way /\ pending'.entry = pending.entry /\ pending'.at = at
             /\ pending'.link = pending.link /\ pending'.kept = pending.kept /\ Op' = Op
  BY <1>0, <1>4 DEF EntryCalls, Op
<1>5. ASSUME pending'.way = pending.way, pending'.entry = pending.entry, pending'.at = "done",
             ReplayAnswered(c, l)'
      PROVE  StacksLead'
  BY <1>2, <1>3, <1>5, <1>a, <1>w, AnswerLeads
<1>6. CASE CreateEdge
  <2>1. PICK m \in Links \ linkIds :
          /\ inventory' = [inventory EXCEPT !.link = m]
          /\ pending' = [pending EXCEPT !.at = "done", !.link = m]
    BY <1>6 DEF CreateEdge
  <2>2. Op = "connect" /\ inventory.link = NoId
    BY <1>6 DEF CreateEdge, Asked
  <2>3. /\ pending'.way = pending.way /\ pending'.entry = pending.entry /\ pending'.at = "done"
        /\ pending'.link = m
    BY <1>0, <2>1 DEF EntryCalls
  <2>4. Op' = "connect"
    BY <2>2, <2>3 DEF Op
  <2>5. inventory' = [device |-> c.device, link |-> m] /\ l = NoId
    BY <1>3, <2>1, <2>2
  <2>6. ReplayAnswered(c, l)'
    BY <2>3, <2>4, <2>5 DEF ReplayAnswered, AnsweredConnect
  <2> QED BY <1>5, <2>3, <2>6
<1>7. CASE DeleteEdge
  <2>1. Op = "disconnect" /\ pending.entry.link = l
    <3>1. Op = "disconnect"
      BY <1>7 DEF DeleteEdge, Asked
    <3> QED BY <1>3, <1>w, <3>1, GoesById
  <2>2. /\ inventory' = IF inventory.link = pending.entry.link
                        THEN [inventory EXCEPT !.link = NoId] ELSE inventory
        /\ pending' = [pending EXCEPT !.at = "done"]
    BY <1>7 DEF DeleteEdge, Settled
  <2>3. /\ pending'.way = pending.way /\ pending'.entry = pending.entry /\ pending'.at = "done"
        /\ Op' = "disconnect"
    BY <1>4, <2>1, <2>2
  <2>4. inventory' = [device |-> c.device, link |-> NoId]
    BY <1>3, <2>1, <2>2
  <2>5. ReplayAnswered(c, l)'
    BY <2>1, <2>3, <2>4 DEF ReplayAnswered, AnsweredDisconnect
  <2> QED BY <1>5, <2>3, <2>5
<1>8. CASE DeletePublishedDevice
  <2>1. PICK d : d = pending.entry.d
    OBVIOUS
  <2>2. /\ Op = "delete" /\ d \in DOMAIN inventory.device
        /\ inventory' = [device |-> Without(inventory.device, {d}), link |-> NoId]
        /\ pending' = [pending EXCEPT !.at = "done",
                         !.kept = [name |-> inventory.device[d], link |-> inventory.link]]
    BY <1>8, <2>1 DEF DeletePublishedDevice, Asked
  <2>3. /\ pending'.way = pending.way /\ pending'.entry = pending.entry /\ pending'.at = "done"
        /\ pending'.kept = [name |-> inventory.device[d], link |-> inventory.link]
    BY <1>0, <2>2 DEF EntryCalls
  <2>4. Op' = "delete"
    BY <2>2, <2>3 DEF Op
  <2>5. /\ d \in DOMAIN c.device /\ pending'.kept = [name |-> c.device[d], link |-> l]
        /\ inventory' = [device |-> Without(c.device, {d}), link |-> NoId]
    BY <1>3, <2>2, <2>3
  <2>6. pending'.entry.d = d
    BY <2>1, <2>3
  <2>7. AnsweredDelete(pending.entry, c, l)'
    BY <2>5, <2>6 DEF AnsweredDelete
  <2>8. ReplayAnswered(c, l)'
    BY <2>4, <2>7 DEF ReplayAnswered
  <2> QED BY <1>5, <2>3, <2>8
<1>9. CASE RestorePublishedDevice
  <2>1. /\ Op = "restore" /\ pending' = [pending EXCEPT !.at = "done"]
        /\ inventory' = [device |-> Over(inventory.device,
                                         [x \in {pending.entry.d} |-> pending.entry.kept.name]),
                         link |-> IF pending.entry.kept.link # NoId THEN pending.entry.kept.link
                                  ELSE inventory.link]
    BY <1>9 DEF RestorePublishedDevice, Asked, Settled
  <2>2. /\ pending'.way = pending.way /\ pending'.entry = pending.entry /\ pending'.at = "done"
        /\ Op' = "restore"
    BY <1>4, <2>1
  <2>3. AnsweredRestore(pending.entry, c, l)'
    BY <1>3, <2>1, <2>2 DEF AnsweredRestore
  <2>4. ReplayAnswered(c, l)'
    BY <2>2, <2>3 DEF ReplayAnswered
  <2> QED BY <1>5, <2>2, <2>4
<1>10. CASE ApplyUndoableFieldPatch
  <2>1. /\ Op = "field" /\ pending' = [pending EXCEPT !.at = "done"]
        /\ inventory' = [inventory EXCEPT !.device[pending.entry.d] =
                           IF pending.way = "undo" THEN pending.entry.from ELSE pending.entry.to]
    BY <1>10 DEF ApplyUndoableFieldPatch, Asked, Settled
  <2>2. /\ pending'.way = pending.way /\ pending'.entry = pending.entry /\ pending'.at = "done"
        /\ Op' = "field"
    BY <1>4, <2>1
  <2>3. inventory' = [device |-> [c.device EXCEPT ![pending.entry.d] =
                           IF pending.way = "undo" THEN pending.entry.from ELSE pending.entry.to],
                      link |-> l]
    BY <1>3, <2>1
  <2>4. AnsweredField(pending.entry, c, l)'
    BY <2>2, <2>3 DEF AnsweredField
  <2>5. ReplayAnswered(c, l)'
    BY <2>2, <2>4 DEF ReplayAnswered
  <2> QED BY <1>5, <2>2, <2>5
<1>11. CASE RefuseEntry
  <2>1. pending' = [pending EXCEPT !.at = "refused"] /\ inventory' = inventory
    BY <1>11 DEF RefuseEntry, Settled
  <2>2. pending'.way = pending.way /\ pending'.entry = pending.entry /\ pending'.at = "refused"
    BY <1>4, <2>1
  <2>3. inventory' = Registry(c, l)
    BY <1>3, <2>1 DEF Registry
  <2> QED BY <1>2, <1>3, <1>a, <1>w, <2>2, <2>3, AnswerLeads
<1> QED BY <1>6, <1>7, <1>8, <1>9, <1>10, <1>11, <1>a DEF Serve

\* What an answer makes of the entry that it is for.
LEMMA PatchIs ==
  ASSUME NEW e \in EntryRecords, pending \in EntryCalls
  PROVE  /\ Op = "connect" => EntryPatch(e) = [e EXCEPT !.link = pending.link]
         /\ Op = "delete" =>
              \E E : /\ E = IF pending.way = "forward" THEN e.sight.edges
                            ELSE {pending.kept.link} \ {NoId}
                     /\ EntryPatch(e) = [e EXCEPT !.kept = pending.kept,
                                                  !.sight = [node |-> e.sight.node, edges |-> E]]
         /\ Op \notin {"connect", "delete"} => EntryPatch(e) = e
<1>1. e.sight \in [node : NodeRecords, edges : SUBSET Links]
  BY CanvasIs DEF EntryRecords
<1>2. ASSUME Op = "delete"
      PROVE  \E E : /\ E = IF pending.way = "forward" THEN e.sight.edges
                           ELSE {pending.kept.link} \ {NoId}
                    /\ EntryPatch(e) = [e EXCEPT !.kept = pending.kept,
                                                 !.sight = [node |-> e.sight.node, edges |-> E]]
  <2>1. PICK E : E = IF pending.way = "forward" THEN e.sight.edges ELSE {pending.kept.link} \ {NoId}
    OBVIOUS
  <2>2. EntryPatch(e) = [e EXCEPT !.kept = pending.kept, !.sight = [e.sight EXCEPT !.edges = E]]
    BY <1>2, <2>1 DEF EntryPatch, EntryRecords
  <2>3. [e.sight EXCEPT !.edges = E] = [node |-> e.sight.node, edges |-> E]
    BY <1>1
  <2> QED BY <2>1, <2>2, <2>3
<1> QED BY <1>2 DEF EntryPatch

\* After a refusal all is as it was.
LEMMA FailsLeads ==
  ASSUME StacksTyped, StacksLead, EntryFails
  PROVE  StacksLead'
<1>1. /\ pending.at = "refused" /\ pending' = NoEntryCall
      /\ UNCHANGED <<inventory, canvas, undoStack, redoStack>>
  BY DEF EntryFails
<1>2. PICK l \in LinkOrNone :
        /\ LeadsFrom("undo", undoStack, Base, l) /\ LeadsFrom("redo", redoStack, Base, l)
        /\ World(Base, l)
  BY DEF StacksLead
<1>3. PICK c : c = Base
  OBVIOUS
<1>4. /\ LeadsFrom("undo", undoStack', c, l) /\ LeadsFrom("redo", redoStack', c, l) /\ Shows(c, l)
      /\ canvas' = Picture(c, l) /\ inventory' = Registry(c, l)
  BY <1>1, <1>2, <1>3 DEF World, Picture, Registry
<1> QED BY <1>1, <1>4, Settles

\* What the user has asked for is on the stack with what it has done,
LEMMA ForwardLeads ==
  ASSUME StacksTyped, StacksLead, EntrySucceeds, pending.way = "forward"
  PROVE  StacksLead'
<1>0. /\ RequestSound /\ pending \in EntryCalls /\ waiting /\ pending.at = "done"
      /\ pending.entry \in EntryRecords /\ inventory \in Server
  BY DEF StacksTyped, RequestSound, EntryCalls, EntrySucceeds, waiting
<1>1. PICK e \in EntryRecords : e = pending.entry
  BY <1>0
<1>2. PICK c : c = e.was
  OBVIOUS
<1>3. Base = c
  BY <1>0, <1>1, <1>2 DEF Base
<1>4. PICK l \in LinkOrNone :
        /\ LeadsFrom("undo", undoStack, c, l) /\ LeadsFrom("redo", redoStack, c, l)
        /\ World(c, l)
  BY <1>3 DEF StacksLead
<1>5. /\ Shows(c, l) /\ canvas = Picture(c, l) /\ ReplayAnswered(c, l) /\ AskedRightly(c, l)
      /\ c.device \in Rows /\ c.node \in NodeRecords /\ NamesAgree(c.device, c.node)
  BY <1>0, <1>4, ShowsParts DEF World, Picture
<1>6. PICK f : f = EntryPatch(e)
  OBVIOUS
<1>7. PICK x \in AnyContent : x = ContentOf(inventory, GraphPatch)
  BY <1>0, PatchTyped, ContentTyped
<1>8. PICK g : g = [f EXCEPT !.now = x]
  OBVIOUS
<1>9. /\ canvas' = GraphPatch /\ PushEntry(g) /\ pending' = NoEntryCall /\ inventory' = inventory
  BY <1>1, <1>6, <1>7, <1>8 DEF EntrySucceeds
<1>10. f \in EntryRecords /\ g \in EntryRecords /\ f.kind = e.kind
  <2>1. Stacked(f) /\ f.id = e.id /\ f.kind = e.kind /\ Stacked(g)
    BY <1>0, <1>1, <1>6, <1>7, <1>8, PatchedTyped
  <2> QED BY <2>1 DEF Stacked, EntryFits
<1>11. /\ g.now = x /\ g.was = f.was /\ g.kind = e.kind /\ g.d = f.d /\ g.link = f.link
       /\ g.kept = f.kept /\ g.sight = f.sight
  BY <1>8, <1>10 DEF EntryRecords
<1>12. ASSUME NEW m \in LinkOrNone, NEW r \in Rows, NEW n \in NodeRecords, NamesAgree(r, n),
              inventory = [device |-> r, link |-> m],
              GraphPatch = [node |-> n, edges |-> Drawn(n, m)]
       PROVE  /\ Shows(x, m) /\ x.device = r /\ x.node = n
              /\ Registry(x, m) = inventory /\ Picture(x, m) = GraphPatch
  <2>1. x = ContentOf([device |-> r, link |-> m], [node |-> n, edges |-> Drawn(n, m)])
    BY <1>7, <1>12
  <2> QED BY <1>12, <2>1, ContentShows
<1>13. ASSUME NEW m \in LinkOrNone, Took(g, l, m), g.was = c,
              Shows(x, m), Registry(x, m) = inventory, Picture(x, m) = GraphPatch
       PROVE  StacksLead'
  <2>1. LeadsFrom("undo", undoStack', x, m) /\ LeadsFrom("redo", redoStack', x, m)
    BY <1>4, <1>9, <1>10, <1>11, <1>13, PushLeads
  <2> QED BY <1>9, <1>13, <2>1, Settles
<1>14. CASE Op = "connect"
  <2>1. PICK m \in Links : m = pending.link
    BY <1>0, <1>14 DEF RequestSound
  <2>2. e.kind = "create_edge" /\ CanvasDevices \subseteq DOMAIN c.node
    BY <1>0, <1>1, <1>5, <1>14, OpIs DEF AskedRightly
  <2>3. l = NoId /\ inventory = [device |-> c.device, link |-> m]
    BY <1>5, <1>14, <2>1 DEF ReplayAnswered, AnsweredConnect
  <2>4. GraphPatch = [node |-> c.node, edges |-> Drawn(c.node, m)]
    BY <1>5, <1>14, <2>1, <2>3, EdgeIs DEF GraphPatch, Picture
  <2>5. m \in LinkOrNone /\ m # NoId
    BY StackAssumption DEF LinkOrNone
  <2>6. /\ Shows(x, m) /\ x.device = c.device /\ x.node = c.node
        /\ Registry(x, m) = inventory /\ Picture(x, m) = GraphPatch
    BY <1>5, <1>12, <2>3, <2>4, <2>5
  <2>7. f.link = m /\ f.was = c
    BY <1>0, <1>2, <1>6, <1>14, <2>1, PatchIs DEF EntryRecords
  <2>8. Took(g, l, m)
    BY <1>5, <1>11, <2>2, <2>3, <2>5, <2>6, <2>7 DEF Took, TookEdge
  <2> QED BY <1>11, <1>13, <2>5, <2>6, <2>7, <2>8
<1>15. CASE Op = "disconnect"
  <2>1. e.kind = "delete_edge" /\ CanvasDevices \subseteq DOMAIN c.node /\ e.link = l /\ l # NoId
    BY <1>0, <1>1, <1>5, <1>15, OpIs DEF AskedRightly
  <2>2. l \in Links /\ NoId \in LinkOrNone
    BY <2>1 DEF LinkOrNone
  <2>3. inventory = [device |-> c.device, link |-> NoId]
    BY <1>5, <1>15 DEF ReplayAnswered, AnsweredDisconnect
  <2>4. GraphPatch = [node |-> c.node, edges |-> Drawn(c.node, NoId)]
    BY <1>1, <1>5, <1>15, <2>1, <2>2, EdgeIs DEF GraphPatch, Picture
  <2>6. /\ Shows(x, NoId) /\ x.device = c.device /\ x.node = c.node
        /\ Registry(x, NoId) = inventory /\ Picture(x, NoId) = GraphPatch
    BY <1>5, <1>12, <2>2, <2>3, <2>4
  <2>7. f = e
    BY <1>0, <1>6, <1>15, PatchIs
  <2>8. Took(g, l, NoId)
    BY <1>2, <1>5, <1>11, <2>1, <2>6, <2>7 DEF Took, TookEdge
  <2> QED BY <1>2, <1>11, <1>13, <2>2, <2>6, <2>7, <2>8
<1>16. CASE Op = "delete"
  <2>1. PICK d : d = e.d
    OBVIOUS
  <2>2. /\ e.kind = "delete_node" /\ d \in DOMAIN c.node
        /\ e.sight = [node |-> [y \in {d} |-> c.node[d]], edges |-> Drawn(c.node, l)]
    BY <1>0, <1>1, <1>5, <1>16, <2>1, OpIs DEF AskedRightly
  <2>3. /\ d \in DOMAIN c.device /\ pending.kept = [name |-> c.device[d], link |-> l]
        /\ inventory = [device |-> Without(c.device, {d}), link |-> NoId]
    BY <1>1, <1>5, <1>16, <2>1 DEF ReplayAnswered, AnsweredDelete
  <2>4. PICK n : n = Without(c.node, {d})
    OBVIOUS
  <2>5. PICK r : r = Without(c.device, {d})
    OBVIOUS
  <2>6. n \in NodeRecords /\ r \in Rows /\ NamesAgree(r, n) /\ Drawn(n, NoId) = {}
    BY <1>5, <2>2, <2>4, <2>5, GoneIs DEF Drawn
  <2>7. DOMAIN e.sight.node = {d}
    BY <2>2
  <2>8. GraphPatch = [node |-> n, edges |-> Drawn(n, NoId)]
    BY <1>1, <1>5, <1>16, <2>2, <2>4, <2>6, <2>7, RemovalIs DEF GraphPatch
  <2>9. NoId \in LinkOrNone
    BY DEF LinkOrNone
  <2>10. /\ Shows(x, NoId) /\ x.device = r /\ x.node = n
         /\ Registry(x, NoId) = inventory /\ Picture(x, NoId) = GraphPatch
    BY <1>12, <2>3, <2>5, <2>6, <2>8, <2>9
  <2>11. f = [e EXCEPT !.kept = pending.kept,
                       !.sight = [node |-> e.sight.node, edges |-> e.sight.edges]]
    BY <1>0, <1>6, <1>16, PatchIs
  <2>12. f.was = c /\ f.d = d /\ f.kept = pending.kept /\ f.sight = e.sight
    BY <1>2, <2>1, <2>2, <2>11 DEF EntryRecords
  <2>13. /\ g.sight.node = [y \in {d} |-> c.node[d]] /\ g.sight.edges = Drawn(c.node, l)
    BY <1>11, <2>2, <2>12
  <2>14. TookDelete(g, c, x, l)
    <3>1. Drawn(c.node, l) \subseteq {l} \ {NoId} /\ Hung(c.node, Drawn(c.node, l)) = Drawn(c.node, l)
      BY DrawnIs
    <3>2. g.d = d /\ g.kept = [name |-> c.device[d], link |-> l]
      BY <1>11, <2>3, <2>12
    <3> QED BY <2>2, <2>3, <2>4, <2>5, <2>10, <2>13, <3>1, <3>2 DEF TookDelete
  <2>15. Took(g, l, NoId)
    BY <1>5, <1>11, <2>2, <2>10, <2>12, <2>14 DEF Took
  <2> QED BY <1>11, <1>13, <2>9, <2>10, <2>12, <2>15
<1> QED BY <1>0, <1>14, <1>15, <1>16, OpIs

\* An entry that the server has replayed leads on, as f, to content far with connection m.
ReplayLeads(e, f, m, l) ==
  /\ Far(pending.way, f) = Far(pending.way, e) /\ Near(pending.way, f) = Near(pending.way, e)
  /\ Across(pending.way, f, m, l)
  /\ GraphPatch = Picture(Far(pending.way, e), m)
  /\ inventory = Registry(Far(pending.way, e), m)

\* Only the name of the one node changes.
LEMMA NodePatched ==
  ASSUME NEW x, NEW E, canvas = [node |-> x, edges |-> E], NEW d, d \in DOMAIN x, NEW p
  PROVE  PatchNode(d, p) = [node |-> [x EXCEPT ![d].name = p], edges |-> E]
BY DEF PatchNode, OnCanvas

\* A node that gets its old name back is as it was.
LEMMA PatchedBack ==
  ASSUME NEW n \in NodeRecords, NEW d \in DOMAIN n, NEW p, NEW q, n[d].name = p, NEW E,
         canvas = [node |-> [n EXCEPT ![d].name = q], edges |-> E]
  PROVE  PatchNode(d, p) = [node |-> n, edges |-> E]
<1>1. [[n EXCEPT ![d].name = q] EXCEPT ![d].name = p] = n
  BY NamedBack
<1>2. PICK x : x = [n EXCEPT ![d].name = q]
  OBVIOUS
<1>3. [x EXCEPT ![d].name = p] = n
  BY <1>1, <1>2
<1>4. canvas = [node |-> x, edges |-> E]
  BY <1>2
<1>5. d \in DOMAIN x
  BY <1>2
<1> QED BY <1>3, <1>4, <1>5, NodePatched

\* The old name gives the old picture.
LEMMA NamedAgain ==
  ASSUME NEW c, NEW l, Shows(c, l), canvas = Picture(c, l), NEW w, Shows(w, l),
         NEW d, d \in DOMAIN w.device, NEW p \in Names, w.device[d] = p, NEW q,
         c.device = [w.device EXCEPT ![d] = q],
         c.node = IF d \in DOMAIN w.node THEN [w.node EXCEPT ![d].name = q] ELSE w.node
  PROVE  PatchNode(d, p) = Picture(w, l)
<1>1. PICK n \in NodeRecords : n = w.node
  BY ShowsParts
<1>2. d \in DOMAIN n => n[d].name = p
  BY <1>1, ShowsParts DEF NamesAgree
<1>3. n \in [DOMAIN n -> Node] /\ n \in NodeRecords
  BY <1>1, ShowsParts
<1>4. PatchNode(d, p) = [node |-> n, edges |-> Drawn(c.node, l)]
  <2>1. CASE d \in DOMAIN n
    <3>1. n[d].name = p /\ d \in DOMAIN n /\ n \in NodeRecords
      BY <1>2, <1>3, <2>1
    <3>2. canvas = [node |-> [n EXCEPT ![d].name = q], edges |-> Drawn(c.node, l)]
      BY <1>1, <2>1 DEF Picture
    <3> QED BY <3>1, <3>2, PatchedBack
  <2>2. CASE d \notin DOMAIN n
    BY <1>1, <2>2 DEF PatchNode, OnCanvas, Picture
  <2> QED BY <2>1, <2>2
<1>5. DOMAIN c.node = DOMAIN n
  BY <1>1, <1>3
<1>6. Drawn(c.node, l) = Drawn(n, l)
  BY <1>5 DEF Drawn, Hung
<1> QED BY <1>1, <1>4, <1>6 DEF Picture

\* A field that is given back or set again does,
LEMMA FieldLeads ==
  ASSUME pending.way \in {"undo", "redo"}, Op = "field", NEW e, e = pending.entry,
         e.kind = "field", e.from \in Names, e.to \in Names,
         NEW m \in LinkOrNone, NEW l \in LinkOrNone, Across(pending.way, e, m, l),
         NEW c, c = Near(pending.way, e), canvas = Picture(c, l), ReplayAnswered(c, l)
  PROVE  ReplayLeads(e, e, m, l)
<1>1. m = l /\ TookField(e, e.was, e.now) /\ Shows(e.was, l) /\ Shows(e.now, l)
  BY AcrossIs DEF Took
<1>2. PICK d : d = e.d
  OBVIOUS
<1>3. PICK p \in Names : p = e.from
  OBVIOUS
<1>4. PICK q \in Names : q = e.to
  OBVIOUS
<1>5. PICK n \in NodeRecords : n = e.was.node
  BY <1>1, ShowsParts
<1>6. PICK r \in Rows : r = e.was.device
  BY <1>1, ShowsParts
<1>7. /\ d \in DOMAIN r /\ r[d] = p /\ e.now.device = [r EXCEPT ![d] = q]
      /\ e.now.node = IF d \in DOMAIN n THEN [n EXCEPT ![d].name = q] ELSE n
      /\ r \in [DOMAIN r -> Names] /\ n \in [DOMAIN n -> Node]
  BY <1>1, <1>2, <1>3, <1>4, <1>5, <1>6, ShowsParts DEF TookField
<1>8. CASE pending.way = "undo"
  <2>1. c = e.now /\ Far(pending.way, e) = e.was
    BY <1>8 DEF Near, Far
  <2>2. inventory = [device |-> [c.device EXCEPT ![d] = p], link |-> l]
    BY <1>2, <1>3, <1>8 DEF ReplayAnswered, AnsweredField
  <2>3. [[r EXCEPT ![d] = q] EXCEPT ![d] = p] = r
    BY <1>7, ChangedAndBack
  <2>4. inventory = Registry(e.was, m)
    BY <1>1, <1>6, <1>7, <2>1, <2>2, <2>3 DEF Registry
  <2>5. d \in DOMAIN c.device /\ DOMAIN c.node = DOMAIN n
    BY <1>7, <2>1
  <2>6. GraphPatch = PatchNode(d, p)
    BY <1>2, <1>3, <1>8 DEF GraphPatch
  <2>7. PatchNode(d, p) = Picture(e.was, l)
    <3>1. Shows(c, l) /\ Shows(e.was, l) /\ d \in DOMAIN e.was.device /\ e.was.device[d] = p
      BY <1>1, <1>6, <1>7, <2>1
    <3>2. /\ c.device = [e.was.device EXCEPT ![d] = q]
          /\ c.node = IF d \in DOMAIN e.was.node THEN [e.was.node EXCEPT ![d].name = q] ELSE e.was.node
      BY <1>5, <1>6, <1>7, <2>1
    <3> QED BY <3>1, <3>2, NamedAgain
  <2> QED BY <1>1, <2>1, <2>4, <2>6, <2>7 DEF ReplayLeads
<1>9. CASE pending.way = "redo"
  <2>1. c = e.was /\ Far(pending.way, e) = e.now
    BY <1>9 DEF Near, Far
  <2>2. inventory = [device |-> [c.device EXCEPT ![d] = q], link |-> l]
    BY <1>2, <1>4, <1>9 DEF ReplayAnswered, AnsweredField
  <2>3. inventory = Registry(e.now, m)
    BY <1>1, <1>6, <1>7, <2>1, <2>2 DEF Registry
  <2>4. GraphPatch = PatchNode(d, q)
    BY <1>2, <1>4, <1>9 DEF GraphPatch
  <2>5. PICK k : k = IF d \in DOMAIN c.node THEN [c.node EXCEPT ![d].name = q] ELSE c.node
    OBVIOUS
  <2>6. PatchNode(d, q) = [node |-> k, edges |-> Drawn(k, l)]
    BY <1>1, <1>6, <1>7, <2>1, <2>5, NameIs
  <2>7. k = e.now.node
    BY <1>5, <1>7, <2>1, <2>5
  <2>8. GraphPatch = Picture(e.now, m)
    BY <1>1, <2>4, <2>6, <2>7 DEF Picture
  <2> QED BY <2>1, <2>3, <2>8 DEF ReplayLeads
<1> QED BY <1>8, <1>9

\* so does a connection that goes again,
LEMMA DisconnectLeads ==
  ASSUME pending.way \in {"undo", "redo"}, Op = "disconnect", NEW e, e = pending.entry,
         \/ e.kind = "create_edge" /\ pending.way = "undo"
         \/ e.kind = "delete_edge" /\ pending.way = "redo",
         NEW m \in LinkOrNone, NEW l \in LinkOrNone, Across(pending.way, e, m, l),
         NEW c, c = Near(pending.way, e), canvas = Picture(c, l), ReplayAnswered(c, l)
  PROVE  ReplayLeads(e, e, m, l)
<1>1. /\ m = NoId /\ l = e.link /\ l # NoId
      /\ c.device = Far(pending.way, e).device /\ c.node = Far(pending.way, e).node
  BY AcrossIs DEF Took, TookEdge
<1>2. l \in Links
  BY <1>1 DEF LinkOrNone
<1>3. inventory = Registry(Far(pending.way, e), m)
  BY <1>1 DEF ReplayAnswered, AnsweredDisconnect, Registry
<1>4. GraphPatch = RemoveEdge(l)
  BY <1>1 DEF GraphPatch
<1>5. GraphPatch = Picture(Far(pending.way, e), m)
  BY <1>1, <1>2, <1>4, EdgeIs DEF Picture
<1> QED BY <1>3, <1>5 DEF ReplayLeads

\* one that comes back by a new id,
LEMMA ConnectLeads ==
  ASSUME pending.way \in {"undo", "redo"}, Op = "connect", NEW e \in EntryRecords, e = pending.entry,
         \/ e.kind = "create_edge" /\ pending.way = "redo"
         \/ e.kind = "delete_edge" /\ pending.way = "undo",
         NEW new \in Links, new = pending.link, NEW f, f = [e EXCEPT !.link = new],
         NEW m \in LinkOrNone, NEW l \in LinkOrNone, Across(pending.way, e, m, l),
         NEW c, c = Near(pending.way, e), canvas = Picture(c, l), ReplayAnswered(c, l)
  PROVE  ReplayLeads(e, f, new, l) /\ m = e.link /\ m \in Links
<1>1. /\ l = NoId /\ m = e.link /\ m # NoId
      /\ c.device = Far(pending.way, e).device /\ c.node = Far(pending.way, e).node
      /\ TookEdge(e, e.was, e.now)
  BY AcrossIs DEF Took, TookEdge
<1>2. m \in Links /\ new # NoId /\ new \in LinkOrNone
  BY <1>1, StackAssumption DEF LinkOrNone
<1>3. inventory = Registry(Far(pending.way, e), new)
  BY <1>1 DEF ReplayAnswered, AnsweredConnect, Registry
<1>4. GraphPatch = AddEdge(new)
  BY DEF GraphPatch
<1>5. GraphPatch = Picture(Far(pending.way, e), new)
  BY <1>1, <1>4, EdgeIs DEF Picture
<1>6. f.kind = e.kind /\ f.link = new /\ f.was = e.was /\ f.now = e.now
  BY DEF EntryRecords
<1>7. Far(pending.way, f) = Far(pending.way, e) /\ Near(pending.way, f) = Near(pending.way, e)
  BY <1>6 DEF Far, Near
<1>8. Shows(Far(pending.way, e), new) /\ Shows(Near(pending.way, e), l)
  <2>1. Shows(Far(pending.way, e), m) /\ Shows(Near(pending.way, e), l)
    BY AcrossIs
  <2>2. Renamed(m, m, new) = new
    BY DEF Renamed
  <2> QED BY <1>2, <2>1, <2>2, ShowsRenamed
<1>9. TookEdge(f, f.was, f.now)
  BY <1>1, <1>2, <1>6 DEF TookEdge
<1>10. Across(pending.way, f, new, l)
  BY <1>1, <1>2, <1>6, <1>8, <1>9 DEF Across, Took, Far, Near
<1> QED BY <1>1, <1>2, <1>3, <1>5, <1>7, <1>10 DEF ReplayLeads

\* A device that is deleted again goes with what the server keeps this time,
LEMMA RedeleteLeads ==
  ASSUME pending \in EntryCalls, pending.way = "redo", Op = "delete",
         NEW e \in EntryRecords, e = pending.entry, e.kind = "delete_node", NEW f, f = EntryPatch(e),
         NEW m \in LinkOrNone, NEW l \in LinkOrNone, Across(pending.way, e, m, l),
         NEW c, c = Near(pending.way, e), canvas = Picture(c, l), ReplayAnswered(c, l)
  PROVE  ReplayLeads(e, f, m, l)
<1>1. /\ m = NoId /\ TookDelete(e, e.was, e.now, l) /\ Shows(e.was, l) /\ Shows(e.now, m)
      /\ c = e.was /\ Far(pending.way, e) = e.now
  BY AcrossIs DEF Took
<1>2. PICK d : d = e.d
  OBVIOUS
<1>3. /\ d \in DOMAIN c.node /\ d \in DOMAIN c.device
      /\ e.now.device = Without(c.device, {d}) /\ e.now.node = Without(c.node, {d})
      /\ e.sight.node = [y \in {d} |-> c.node[d]]
  BY <1>1, <1>2 DEF TookDelete
<1>4. /\ pending.kept = [name |-> c.device[d], link |-> l]
      /\ inventory = [device |-> Without(c.device, {d}), link |-> NoId]
  BY <1>2 DEF ReplayAnswered, AnsweredDelete
<1>5. inventory = Registry(e.now, m)
  BY <1>1, <1>3, <1>4 DEF Registry
<1>6. DOMAIN e.sight.node = {d}
  BY <1>3
<1>7. Hung(e.now.node, {}) = {} /\ Hung(e.now.node, {m} \ {NoId}) = {}
  <2>1. Shows(c, l) /\ d \in DOMAIN c.node
    BY <1>1, <1>3
  <2>2. \A E : Hung(Without(c.node, {d}), E) = {}
    BY <2>1, GoneIs
  <2> QED BY <1>3, <2>2
<1>8. GraphPatch = Picture(e.now, m)
  <2>1. Shows(c, l) /\ d \in DOMAIN c.node
    BY <1>1, <1>3
  <2>2. PICK s : s = e.sight
    OBVIOUS
  <2>3. DOMAIN s.node = {d}
    BY <1>6, <2>2
  <2>4. ApplySnapshotRemoval(s) = [node |-> Without(c.node, {d}), edges |-> {}]
    BY <2>1, <2>3, RemovalIs
  <2>5. GraphPatch = ApplySnapshotRemoval(e.sight)
    BY DEF GraphPatch
  <2>6. Drawn(e.now.node, m) = {}
    BY <1>7 DEF Drawn
  <2> QED BY <1>3, <2>2, <2>4, <2>5, <2>6 DEF Picture
<1>9. f = [e EXCEPT !.kept = pending.kept,
                    !.sight = [node |-> e.sight.node, edges |-> {pending.kept.link} \ {NoId}]]
  <2>1. pending.way # "forward"
    OBVIOUS
  <2> QED BY <2>1, PatchIs
<1>10. /\ f.kind = "delete_node" /\ f.d = d /\ f.was = e.was /\ f.now = e.now
       /\ f.kept = pending.kept /\ f.sight.node = e.sight.node
       /\ f.sight.edges = {pending.kept.link} \ {NoId}
  BY <1>2, <1>9 DEF EntryRecords
<1>11. TookDelete(f, e.was, e.now, l)
  <2>1. f.sight.edges = {l} \ {NoId}
    BY <1>4, <1>10
  <2>2. f.kept = [name |-> e.was.device[f.d], link |-> l]
    BY <1>1, <1>4, <1>10
  <2> QED BY <1>1, <1>3, <1>10, <2>1, <2>2 DEF TookDelete, Drawn
<1>12. Took(f, l, m)
  BY <1>1, <1>10, <1>11 DEF Took
<1>13. /\ Far(pending.way, f) = Far(pending.way, e) /\ Near(pending.way, f) = Near(pending.way, e)
       /\ Across(pending.way, f, m, l)
  BY <1>10, <1>12 DEF Far, Near, Across
<1> QED BY <1>1, <1>5, <1>8, <1>13 DEF ReplayLeads

\* and one that is restored comes back with all that went.
LEMMA RestoreLeads ==
  ASSUME pending.way = "undo", Op = "restore", NEW e, e = pending.entry, e.kind = "delete_node",
         NEW m \in LinkOrNone, NEW l \in LinkOrNone, Across(pending.way, e, m, l),
         NEW c, c = Near(pending.way, e), canvas = Picture(c, l), ReplayAnswered(c, l)
  PROVE  ReplayLeads(e, e, m, l)
<1>1. /\ l = NoId /\ TookDelete(e, e.was, e.now, m) /\ Shows(e.was, m)
      /\ c = e.now /\ Far(pending.way, e) = e.was
  BY AcrossIs DEF Took
<1>2. PICK d : d = e.d
  OBVIOUS
<1>3. PICK n : n = e.was.node
  OBVIOUS
<1>4. PICK r : r = e.was.device
  OBVIOUS
<1>5. /\ n \in NodeRecords /\ r \in [DOMAIN r -> Names] /\ d \in DOMAIN n /\ d \in DOMAIN r
  BY <1>1, <1>2, <1>3, <1>4, ShowsParts DEF TookDelete
<1>6. /\ c.device = Without(r, {d}) /\ c.node = Without(n, {d})
      /\ e.kept.name = r[d] /\ e.kept.link = m
      /\ e.sight.node = [y \in {d} |-> n[d]]
      /\ Drawn(n, m) = Hung(n, e.sight.edges)
  BY <1>1, <1>2, <1>3, <1>4 DEF TookDelete
<1>7. inventory = Registry(e.was, m)
  <2>1. inventory = [device |-> Over(c.device, [x \in {e.d} |-> e.kept.name]),
                     link |-> IF e.kept.link # NoId THEN e.kept.link ELSE l]
    BY DEF ReplayAnswered, AnsweredRestore
  <2>2. Over(Without(r, {d}), [x \in {d} |-> r[d]]) = r
    BY <1>5, TakenAndBack
  <2>3. Over(c.device, [x \in {e.d} |-> e.kept.name]) = r
    BY <1>2, <1>6, <2>2
  <2>4. (IF e.kept.link # NoId THEN e.kept.link ELSE l) = m
    BY <1>1, <1>6
  <2> QED BY <1>4, <2>1, <2>3, <2>4 DEF Registry
<1>8. GraphPatch = Picture(e.was, m)
  <2>1. canvas = [node |-> Without(n, {d}), edges |-> Drawn(Without(n, {d}), l)]
    BY <1>6 DEF Picture
  <2>2. ApplySnapshotRestore(e.sight) = [node |-> n, edges |-> Drawn(n, m)]
    BY <1>5, <1>6, <2>1, RestoreIs
  <2>3. GraphPatch = ApplySnapshotRestore(e.sight)
    BY DEF GraphPatch
  <2> QED BY <1>3, <2>2, <2>3 DEF Picture
<1> QED BY <1>1, <1>7, <1>8 DEF ReplayLeads

\* No entry below the one that is replayed names its old id.
LEMMA NamesNoOld ==
  ASSUME StacksTyped, NEW way \in {"undo", "redo"}, Source(way) # <<>>,
         NEW e, e = TopEntry(Source(way)),
         ~\E s \in {undoStack, redoStack} : Mentions(s, e.link, e.id)
  PROVE  \A i \in 1..Len(WithoutTop(Source(way))) : ~NamesId(WithoutTop(Source(way))[i], e.link)
<1>1. PICK s : s = Source(way)
  OBVIOUS
<1>2. Sound(s, actions) /\ s # <<>> /\ ~Mentions(s, e.link, e.id)
  BY <1>1 DEF Source, StacksTyped, StacksSound
<1>3. /\ Lacks(WithoutTop(s), e.id) /\ Len(WithoutTop(s)) = Len(s) - 1 /\ Len(s) \in Nat \ {0}
      /\ \A i \in 1..(Len(s) - 1) : WithoutTop(s)[i] = s[i]
  BY <1>1, <1>2, SoundTop
<1>4. DOMAIN s = 1..Len(s)
  BY <1>2 DEF Sound
<1>5. ASSUME NEW i \in 1..Len(WithoutTop(s))
      PROVE  ~NamesId(WithoutTop(s)[i], e.link)
  <2>1. i \in 1..(Len(s) - 1) /\ i \in 1..Len(s)
    BY <1>3
  <2>2. WithoutTop(s)[i] = s[i] /\ s[i].id # e.id
    BY <1>3, <2>1 DEF Lacks
  <2>3. ~(s[i].link = e.link \/ e.link \in s[i].sight.edges \/ s[i].kept.link = e.link)
    BY <1>2, <1>4, <2>1, <2>2 DEF Mentions
  <2> QED BY <2>2, <2>3 DEF NamesId
<1> QED BY <1>1, <1>5

\* An entry that the server has replayed goes to the other stack with all that it has become.
LEMMA BackLeads ==
  ASSUME StacksTyped, StacksLead, EntrySucceeds, pending.way \in {"undo", "redo"}, ~renamed'
  PROVE  StacksLead'
<1>0. /\ RequestSound /\ pending \in EntryCalls /\ waiting /\ pending.at = "done"
      /\ pending.entry \in EntryRecords
  BY DEF StacksTyped, RequestSound, EntryCalls, EntrySucceeds, waiting
<1>1. PICK e \in EntryRecords : e = pending.entry
  BY <1>0
<1>2. PICK way \in {"undo", "redo"} : way = pending.way
  OBVIOUS
<1>3. PICK c : c = Near(way, e)
  OBVIOUS
<1>4. Base = c
  BY <1>0, <1>1, <1>2, <1>3 DEF Base, Near
<1>5. PICK l \in LinkOrNone :
        /\ LeadsFrom("undo", undoStack, c, l) /\ LeadsFrom("redo", redoStack, c, l)
        /\ World(c, l)
  BY <1>4 DEF StacksLead
<1>6. /\ Shows(c, l) /\ canvas = Picture(c, l) /\ ReplayAnswered(c, l)
      /\ Source(way) # <<>> /\ e = TopEntry(Source(way))
  <2>1. AskedRightly(c, l)
    BY <1>5 DEF World
  <2>2. Source(way) # <<>> /\ e = TopEntry(Source(way))
    BY <1>1, <1>2, <2>1 DEF AskedRightly
  <2> QED BY <1>0, <1>5, <2>2 DEF World, Picture
<1>7. /\ LeadsFrom(Other(way), Source(Other(way)), c, l)
      /\ \E m \in LinkOrNone : /\ Across(way, e, m, l)
                               /\ LeadsFrom(way, WithoutTop(Source(way)), Far(way, e), m)
  BY <1>5, <1>6, TopLeads
<1>8. PICK m \in LinkOrNone : /\ Across(way, e, m, l)
                              /\ LeadsFrom(way, WithoutTop(Source(way)), Far(way, e), m)
  BY <1>7
<1>9. PICK f : f = EntryPatch(e)
  OBVIOUS
<1>10. f \in EntryRecords /\ f.id = e.id
  <2>1. Stacked(f) /\ f.id = e.id
    BY <1>0, <1>1, <1>9, PatchedTyped
  <2> QED BY <2>1 DEF Stacked, EntryFits
<1>11. /\ canvas' = GraphPatch /\ ShiftEntry(way, f) /\ pending' = NoEntryCall
       /\ inventory' = inventory
       /\ Op = "connect" /\ e.link # NoId =>
            ~\E s \in {undoStack, redoStack} : Mentions(s, e.link, e.id)
  BY <1>1, <1>2, <1>6, <1>9 DEF EntrySucceeds
<1>12. ASSUME NEW k \in LinkOrNone, ReplayLeads(e, f, k, l),
              LeadsFrom(way, WithoutTop(Source(way)), Far(way, e), k)
       PROVE  StacksLead'
  <2>1. /\ Far(way, f) = Far(way, e) /\ Near(way, f) = c /\ Across(way, f, k, l)
        /\ GraphPatch = Picture(Far(way, f), k) /\ inventory = Registry(Far(way, f), k)
    BY <1>2, <1>3, <1>12 DEF ReplayLeads
  <2>2. LeadsFrom("undo", undoStack', Far(way, f), k) /\ LeadsFrom("redo", redoStack', Far(way, f), k)
    BY <1>5, <1>6, <1>7, <1>10, <1>11, <1>12, <2>1, ShiftLeads
  <2>3. Shows(Far(way, f), k)
    BY <2>1, AcrossIs
  <2> QED BY <1>11, <2>1, <2>2, <2>3, Settles
<1>13. /\ Across(pending.way, e, m, l) /\ c = Near(pending.way, e)
       /\ LeadsFrom(way, WithoutTop(Source(way)), Far(way, e), m)
  BY <1>2, <1>3, <1>8
<1>14. CASE Op = "field"
  <2>1. e.kind = "field" /\ e.from \in Names /\ e.to \in Names /\ f = e
    BY <1>0, <1>1, <1>9, <1>14, OpIs, PatchIs
  <2>2. ReplayLeads(e, e, m, l)
    BY <1>1, <1>6, <1>13, <1>14, <2>1, FieldLeads
  <2> QED BY <1>12, <1>13, <2>1, <2>2
<1>15. CASE Op = "disconnect"
  <2>1. /\ \/ e.kind = "create_edge" /\ pending.way = "undo"
           \/ e.kind = "delete_edge" /\ pending.way = "redo"
        /\ f = e
    BY <1>0, <1>1, <1>9, <1>15, OpIs, PatchIs
  <2>2. ReplayLeads(e, e, m, l)
    BY <1>1, <1>6, <1>13, <1>15, <2>1, DisconnectLeads
  <2> QED BY <1>12, <1>13, <2>1, <2>2
<1>16. CASE Op = "delete"
  <2>1. e.kind = "delete_node" /\ pending.way = "redo"
    BY <1>0, <1>1, <1>16, OpIs
  <2>2. ReplayLeads(e, f, m, l)
    BY <1>0, <1>1, <1>6, <1>9, <1>13, <1>16, <2>1, RedeleteLeads
  <2> QED BY <1>12, <1>13, <2>2
<1>17. CASE Op = "restore"
  <2>1. e.kind = "delete_node" /\ pending.way = "undo" /\ f = e
    BY <1>0, <1>1, <1>9, <1>17, OpIs, PatchIs
  <2>2. ReplayLeads(e, e, m, l)
    BY <1>1, <1>6, <1>13, <1>17, <2>1, RestoreLeads
  <2> QED BY <1>12, <1>13, <2>1, <2>2
<1>18. CASE Op = "connect"
  <2>1. \/ e.kind = "create_edge" /\ pending.way = "redo"
        \/ e.kind = "delete_edge" /\ pending.way = "undo"
    BY <1>0, <1>1, <1>18, OpIs
  <2>2. PICK new \in Links : new = pending.link
    BY <1>0, <1>18 DEF RequestSound
  <2>3. f = [e EXCEPT !.link = new]
    BY <1>0, <1>9, <1>18, <2>2, PatchIs
  <2>4. ReplayLeads(e, f, new, l) /\ m = e.link /\ m \in Links
    BY <1>1, <1>6, <1>13, <1>18, <2>1, <2>2, <2>3, ConnectLeads
  <2>5. m # NoId /\ new \in LinkOrNone
    BY <2>4, StackAssumption DEF LinkOrNone
  <2>6. PICK s : s = WithoutTop(Source(way))
    OBVIOUS
  <2>7. \A i \in 1..Len(s) : ~NamesId(s[i], m)
    BY <1>6, <1>11, <1>18, <2>4, <2>5, <2>6, NamesNoOld
  <2>8. s \in Seq(EntryRecords)
    BY <1>6, <2>6, StacksAreSeqs, PopIs DEF Source
  <2>9. LeadsFrom(way, s, Far(way, e), m)
    BY <1>13, <2>6
  <2>10. LeadsFrom(way, s, Far(way, e), Renamed(m, m, new))
    BY <2>4, <2>7, <2>8, <2>9, LeadsRenamed
  <2>11. Renamed(m, m, new) = new
    BY DEF Renamed
  <2> QED BY <1>12, <2>4, <2>5, <2>6, <2>10, <2>11
<1> QED BY <1>0, <1>14, <1>15, <1>16, <1>17, <1>18, OpIs

\* At first there is only what there is.
LEMMA StacksLeadInit ==
  ASSUME StackInit
  PROVE  StacksLead
<1>0. StacksTyped
  BY StacksTypedInit
<1>1. /\ linkIds = {inventory.link} \ {NoId} /\ DOMAIN canvas.node = CanvasDevices
      /\ \A d \in CanvasDevices : canvas.node[d].name = inventory.device[d]
      /\ canvas.edges = linkIds /\ undoStack = <<>> /\ redoStack = <<>> /\ pending = NoEntryCall
  BY DEF StackInit
<1>2. inventory \in [device : Rows, link : LinkOrNone] /\ canvas \in [node : NodeRecords, edges : SUBSET Links]
  BY <1>0, CanvasIs DEF StacksTyped
<1>3. PICK r \in Rows : r = inventory.device
  BY <1>2
<1>4. PICK n \in NodeRecords : n = canvas.node
  BY <1>2
<1>5. PICK l \in LinkOrNone : l = inventory.link
  BY <1>2
<1>6. inventory = [device |-> r, link |-> l] /\ NamesAgree(r, n)
  BY <1>1, <1>2, <1>3, <1>4, <1>5 DEF NamesAgree
<1>7. canvas = [node |-> n, edges |-> Drawn(n, l)]
  <2>1. Drawn(n, l) = linkIds
    BY <1>1, <1>4, <1>5 DEF Drawn, Hung
  <2> QED BY <1>1, <1>2, <1>4, <2>1
<1>8. PICK c : c = ContentOf([device |-> r, link |-> l], [node |-> n, edges |-> Drawn(n, l)])
  OBVIOUS
<1>9. Shows(c, l) /\ c.device = r /\ c.node = n
  BY <1>6, <1>8, ContentShows
<1>10. Base = c /\ ~waiting
  BY <1>1, <1>6, <1>7, <1>8 DEF Base, Content, waiting, NoEntryCall
<1>11. World(c, l)
  <2>1. pending.at # "done" /\ AskedRightly(c, l)
    BY <1>1 DEF NoEntryCall, AskedRightly
  <2> QED BY <1>6, <1>7, <1>9, <2>1 DEF World
<1>12. LeadsFrom("undo", undoStack, c, l) /\ LeadsFrom("redo", redoStack, c, l)
  BY <1>1, LeadsEmpty
<1> QED BY <1>10, <1>11, <1>12 DEF StacksLead

\* Who is undisturbed after a step was so before it, and waited for the answer.
LEMMA CalmSoFar ==
  ASSUME StacksTyped, StackNext, Undisturbed', pending'.at # "lost"
  PROVE  /\ Undisturbed /\ pending.at # "lost" /\ ~OthersWrite
         /\ CommitMoveGesture \/ CommitLocalRemoveFromView \/ PushFieldEntry => ~waiting
         /\ (\E way \in {"undo", "redo"} : ReplayLocally(way)) => ~waiting
<1>0. RequestSound /\ pending \in EntryCalls /\ writes \in Nat
  BY DEF StacksTyped, RequestSound
<1>1. /\ overlap \in BOOLEAN /\ renamed \in BOOLEAN /\ waiting \in BOOLEAN
      /\ writes' = 0 /\ ~overlap' /\ ~renamed'
  BY DEF StacksTyped, Undisturbed, waiting
<1>2. ~OthersWrite
  <2>1. OthersWrite => writes' = writes + 1
    BY DEF OthersWrite
  <2> QED BY <1>0, <1>1, <2>1
<1>3. pending.at = "lost" => waiting
  BY <1>0 DEF RequestSound, waiting, NoEntryCall
<1>4. ASSUME UNCHANGED <<pending, writes, renamed>>, Overlapping
      PROVE  Undisturbed /\ pending.at # "lost" /\ ~waiting
  BY <1>1, <1>4 DEF Overlapping, Undisturbed
<1>5. ASSUME pending.at # "lost", UNCHANGED <<writes, renamed, overlap>>
      PROVE  Undisturbed /\ pending.at # "lost"
  BY <1>1, <1>5 DEF Undisturbed
<1>6. CASE CommitMoveGesture \/ CommitLocalRemoveFromView \/ PushFieldEntry
  <2>1. UNCHANGED <<pending, writes, renamed>> /\ Overlapping
    BY <1>6 DEF CommitMoveGesture, CommitLocalRemoveFromView, PushFieldEntry, Commit
  <2> QED BY <1>2, <1>4, <2>1
<1>7. CASE \E way \in {"undo", "redo"} : ReplayLocally(way)
  <2>1. UNCHANGED <<pending, writes, renamed>> /\ Overlapping
    BY <1>7 DEF ReplayLocally
  <2> QED BY <1>2, <1>4, <2>1
<1>8. ASSUME ~(CommitMoveGesture \/ CommitLocalRemoveFromView \/ PushFieldEntry),
             ~\E way \in {"undo", "redo"} : ReplayLocally(way)
      PROVE  Undisturbed /\ pending.at # "lost"
  <2>1. CASE RequestCreateEdge \/ RequestDeleteEdge \/ RequestDeleteNode
    <3>1. ~waiting /\ UNCHANGED <<writes, renamed, overlap>>
      BY <2>1 DEF RequestCreateEdge, RequestDeleteEdge, RequestDeleteNode, RequestCanvasAction, Ask
    <3> QED BY <1>3, <1>5, <3>1
  <2>2. CASE \E way \in {"undo", "redo"} : ReplayByServer(way)
    <3>1. ~waiting /\ UNCHANGED <<writes, renamed, overlap>>
      BY <2>2 DEF ReplayByServer, Ask
    <3> QED BY <1>3, <1>5, <3>1
  <2>3. CASE Serve
    <3>1. pending.at \in {"asked", "done"} /\ UNCHANGED <<writes, renamed, overlap>>
      BY <2>3 DEF Serve, CreateEdge, DeleteEdge, DeletePublishedDevice, RestorePublishedDevice,
         ApplyUndoableFieldPatch, RefuseEntry, EntryCallRaises, Asked, Settled
    <3> QED BY <1>5, <3>1
  <2>4. CASE EntrySucceeds
    <3>1. pending.at = "done" /\ UNCHANGED <<writes, overlap>> /\ (renamed => renamed')
      BY <1>1, <2>4 DEF EntrySucceeds
    <3> QED BY <1>1, <3>1 DEF Undisturbed
  <2>5. CASE EntryFails
    <3>1. pending.at = "refused" /\ UNCHANGED <<writes, renamed, overlap>>
      BY <2>5 DEF EntryFails
    <3> QED BY <1>5, <3>1
  <2> QED BY <1>2, <1>8, <2>1, <2>2, <2>3, <2>4, <2>5 DEF StackNext
<1>9. CASE ~(CommitMoveGesture \/ CommitLocalRemoveFromView \/ PushFieldEntry)
           /\ ~\E way \in {"undo", "redo"} : ReplayLocally(way)
  BY <1>2, <1>8, <1>9
<1> QED BY <1>6, <1>7, <1>9

\* Where nothing changes the stacks lead on as they did.
LEMMA StacksLeadStay ==
  ASSUME StacksLead, UNCHANGED stackVars
  PROVE  StacksLead'
<1>1. UNCHANGED <<inventory, canvas, undoStack, redoStack, pending>>
  BY DEF stackVars
<1>2. waiting' = waiting /\ Op' = Op /\ Content' = Content
  BY <1>1 DEF waiting, Op, Content
<1>3. Base' = Base
  BY <1>1, <1>2 DEF Base
<1>4. PICK c : c = Base
  OBVIOUS
<1>5. PICK l \in LinkOrNone :
        /\ LeadsFrom("undo", undoStack, c, l) /\ LeadsFrom("redo", redoStack, c, l)
        /\ World(c, l)
  BY <1>4 DEF StacksLead
<1>6. AskedRightly(c, l)' /\ (ReplayAnswered(c, l) => ReplayAnswered(c, l)')
  <2>1. AskedRightly(c, l)
    BY <1>5 DEF World
  <2>2. AskedRightly(c, l)'
    BY <1>1, <2>1 DEF AskedRightly, Source
  <2>3. ReplayAnswered(c, l) => ReplayAnswered(c, l)'
    BY <1>1, <1>2 DEF ReplayAnswered, AnsweredConnect, AnsweredDisconnect, AnsweredDelete, AnsweredRestore, AnsweredField
  <2> QED BY <2>2, <2>3
<1>7. World(c, l)'
  BY <1>1, <1>5, <1>6 DEF World
<1>8. LeadsFrom("undo", undoStack', c, l) /\ LeadsFrom("redo", redoStack', c, l) /\ Base' = c
  BY <1>1, <1>3, <1>4, <1>5
<1> QED BY <1>7, <1>8 DEF StacksLead

\* Every action keeps the invariant.
LEMMA StackInvNext ==
  ASSUME StackInv, [StackNext]_stackVars
  PROVE  StackInv'
<1>1. StacksTyped /\ StacksTyped'
  BY StacksTypedNext DEF StackInv
<1>2. ASSUME Undisturbed', pending'.at # "lost"
      PROVE  StacksLead'
  <2>1. CASE UNCHANGED stackVars
    <3>1. Undisturbed /\ pending.at # "lost"
      BY <1>2, <2>1 DEF Undisturbed, stackVars
    <3>2. StacksLead
      BY <3>1 DEF StackInv
    <3> QED BY <2>1, <3>2, StacksLeadStay
  <2>2. CASE StackNext
    <3>1. /\ Undisturbed /\ pending.at # "lost" /\ ~OthersWrite
          /\ CommitMoveGesture \/ CommitLocalRemoveFromView \/ PushFieldEntry => ~waiting
          /\ (\E way \in {"undo", "redo"} : ReplayLocally(way)) => ~waiting
      BY <1>1, <1>2, <2>2, CalmSoFar
    <3>2. StacksLead
      BY <3>1 DEF StackInv
    <3>3. CASE CommitMoveGesture \/ CommitLocalRemoveFromView \/ PushFieldEntry
      BY <1>1, <3>1, <3>2, <3>3, MovesLead
    <3>4. CASE RequestCreateEdge \/ RequestDeleteEdge \/ RequestDeleteNode
      BY <1>1, <3>2, <3>4, RequestsLead
    <3>5. CASE \E way \in {"undo", "redo"} : ReplayLocally(way) \/ ReplayByServer(way)
      <4>1. PICK way \in {"undo", "redo"} : ReplayLocally(way) \/ ReplayByServer(way)
        BY <3>5
      <4>2. ReplayByServer(way) => ~waiting
        BY DEF ReplayByServer
      <4> QED BY <1>1, <3>1, <3>2, <4>1, <4>2, ReplaysLead
    <3>6. CASE Serve
      BY <1>1, <1>2, <3>1, <3>2, <3>6, ServeLeads
    <3>7. CASE EntrySucceeds
      <4>1. pending.way = "forward" \/ pending.way \in {"undo", "redo"}
        <5>1. pending.at = "done" /\ pending \in EntryCalls /\ RequestSound
          BY <1>1, <3>7 DEF EntrySucceeds, StacksTyped, RequestSound
        <5> QED BY <5>1 DEF EntryCalls, RequestSound, NoEntryCall
      <4>2. ~renamed'
        BY <1>2 DEF Undisturbed
      <4> QED BY <1>1, <3>2, <3>7, <4>1, <4>2, ForwardLeads, BackLeads
    <3>8. CASE EntryFails
      BY <1>1, <3>2, <3>8, FailsLeads
    <3> QED BY <2>2, <3>1, <3>3, <3>4, <3>5, <3>6, <3>7, <3>8 DEF StackNext
  <2> QED BY <2>1, <2>2
<1> QED BY <1>1, <1>2 DEF StackInv

\* The invariant of the undo stack: as long as the user is alone and waits for answers, each
\* stack leads, entry by entry, from what there is to what there was (canvas_js_undo*.py,
\* canvas_undo_service.py).
THEOREM StackInductive == StackSpec => []StackInv
<1>1. StackInit => StackInv
  BY StacksTypedInit, StacksLeadInit DEF StackInv
<1>2. StackInv /\ [StackNext]_stackVars => StackInv'
  BY StackInvNext
<1> QED BY <1>1, <1>2, PTL DEF StackSpec

\* A sound stack has one entry at most of each action, and entries of their types.
LEMMA SoundHolds ==
  ASSUME NEW s, NEW n, Sound(s, n)
  PROVE  /\ DOMAIN s = 1..Len(s)
         /\ \A i \in DOMAIN s : s[i].kind \in Kinds /\ s[i].id \in 1..MaxActions /\ s[i].sight \in Canvas
         /\ \A i, j \in DOMAIN s : s[i].id = s[j].id => i = j
<1>1. DOMAIN s = 1..Len(s)
  BY DEF Sound
<1>2. ASSUME NEW i \in DOMAIN s
      PROVE  s[i].kind \in Kinds /\ s[i].id \in 1..MaxActions /\ s[i].sight \in Canvas
  <2>1. s[i] \in EntryRecords /\ s[i].id # 0
    BY <1>1 DEF Sound, Stacked, EntryFits
  <2>2. s[i].id \in 0..MaxActions /\ s[i].kind \in Kinds /\ s[i].sight \in Canvas
    BY <2>1 DEF EntryRecords
  <2>3. s[i].id \in 1..MaxActions
    BY <2>1, <2>2, StackAssumption
  <2> QED BY <2>2, <2>3
<1>3. \A i, j \in DOMAIN s : s[i].id = s[j].id => i = j
  BY <1>1 DEF Sound
<1> QED BY <1>1, <1>2, <1>3

\* What the invariant says of the next entry to undo and of the next to redo.
LEMMA StackInvGivesBack ==
  ASSUME StackInv
  PROVE  GivesBackUndisturbed
<1>1. SUFFICES ASSUME Undisturbed, pending = NoEntryCall
               PROVE  /\ undoStack # <<>> => TopEntry(undoStack).now = Content
                      /\ redoStack # <<>> => TopEntry(redoStack).was = Content
  BY DEF GivesBackUndisturbed, GivesBack, Undisturbed
<1>2. ~waiting /\ pending.at # "lost"
  BY <1>1 DEF waiting, NoEntryCall
<1>3. StacksTyped /\ StacksLead
  BY <1>1, <1>2 DEF StackInv
<1>4. PICK c : c = Content
  OBVIOUS
<1>5. PICK l \in LinkOrNone : LeadsFrom("undo", undoStack, c, l) /\ LeadsFrom("redo", redoStack, c, l)
  BY <1>2, <1>3, <1>4, AtRest
<1>6. undoStack \in Seq(EntryRecords) /\ redoStack \in Seq(EntryRecords)
  BY <1>3, StacksAreSeqs
<1>7. undoStack # <<>> => Near("undo", TopEntry(undoStack)) = c
  BY <1>5, <1>6, LeadsPop
<1>8. redoStack # <<>> => Near("redo", TopEntry(redoStack)) = c
  BY <1>5, <1>6, LeadsPop
<1> QED BY <1>4, <1>7, <1>8 DEF Near

\* Undo and redo give back what the entry found or left, as long as the user is alone, waits
\* for answers and no id is renewed that an entry knows; and at all times an action has one
\* entry at most and the stacks keep to their limit.
THEOREM StacksCorrect == StackSpec => []StacksHold
<1>1. StackInv => StacksHold
  <2>1. SUFFICES ASSUME StackInv PROVE StacksHold
    OBVIOUS
  <2>2. StacksTyped /\ StacksSound /\ pending \in EntryCalls
    BY <2>1 DEF StackInv, StacksTyped, RequestSound
  <2>3. PICK s : s = undoStack
    OBVIOUS
  <2>4. PICK t : t = redoStack
    OBVIOUS
  <2>5. /\ Sound(s, actions) /\ Sound(t, actions) /\ Apart(s, t)
        /\ Len(undoStack) + Len(redoStack) <= MaxEntries
    BY <2>2, <2>3, <2>4 DEF StacksSound
  <2>6. \A a \in {s, t} :
          /\ DOMAIN a = 1..Len(a)
          /\ \A i \in DOMAIN a : a[i].kind \in Kinds /\ a[i].id \in 1..MaxActions /\ a[i].sight \in Canvas
          /\ \A i, j \in DOMAIN a : a[i].id = a[j].id => i = j
    BY <2>5, SoundHolds
  <2>7. actions + writes \in 0..MaxActions
    BY <2>2, StackAssumption DEF StacksTyped
  <2>8. StackTypeOK
    <3>1. \A a \in {undoStack, redoStack} : \A i \in DOMAIN a :
             a[i].kind \in Kinds /\ a[i].id \in 1..MaxActions /\ a[i].sight \in Canvas
      BY <2>3, <2>4, <2>6
    <3>2. /\ inventory \in Server /\ canvas \in Canvas /\ linkIds \subseteq Links
          /\ overlap \in BOOLEAN /\ renamed \in BOOLEAN
      BY <2>2 DEF StacksTyped
    <3>3. /\ pending.way \in {"none", "forward", "undo", "redo"}
          /\ pending.at \in {"none", "asked", "done", "refused", "lost"}
      BY <2>2 DEF EntryCalls
    <3> QED BY <2>7, <3>1, <3>2, <3>3 DEF StackTypeOK
  <2>9. OneEntryEach
    <3>1. \A a \in {undoStack, redoStack} : \A i, j \in DOMAIN a : a[i].id = a[j].id => i = j
      BY <2>3, <2>4, <2>6
    <3>2. \A i \in DOMAIN s, j \in DOMAIN t : s[i].id # t[j].id
      BY <2>5, <2>6 DEF Apart
    <3> QED BY <2>3, <2>4, <2>5, <3>1, <3>2 DEF OneEntryEach
  <2> QED BY <2>1, <2>8, <2>9, StackInvGivesBack DEF StacksHold
<1> QED BY <1>1, StackInductive, PTL

=============================================================================
