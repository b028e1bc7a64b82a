------------------------------ MODULE CanvasUndo ------------------------------
(***************************************************************************)
(* Deleting a device from the canvas and taking that back: the rows of one *)
(* device, its attachments on the disk, a connection to a peer, and its    *)
(* node in the layouts.  The database commits or rolls back; the file      *)
(* system does neither, so the files are moved by hand around the commit.  *)
(***************************************************************************)
EXTENDS Naturals, FiniteSets

CONSTANTS Files,           \* attachments, each with its file
          Tokens,          \* restore tokens, each with its stash directory
          Layouts, Immutable, \* layouts, and those that history keeps
          Senders,         \* requests that may be under way at a time
          Absent,          \* no directory
          MaxAttachments,  \* MAX_ATTACHMENTS_PER_DEVICE
          MaxVersion       \* bound on the version of a layout; kept ones have it

ASSUME CanvasUndoAssumption ==
  /\ MaxVersion \in Nat \ {0} /\ IsFiniteSet(Files)
  /\ Absent \notin Tokens /\ \A S \in SUBSET Files : S # Absent

VARIABLES live,     \* the device has its row
          child,    \* another device has it as its parent
          peer,     \* the device at the other end of the connection exists
          linked,   \* the connection has its row
          rows,     \* attachments that have a row
          uploaded, \* attachments that were ever uploaded
          dir,      \* the directory of the device: its files, or Absent
          stash,    \* the staging directory of every token
          layout,   \* version and document of every layout
          snapshot, \* what a delete has captured, for every token
          request,  \* the request of every client
          harm,     \* for the properties: what befell a delete or a restore
          last      \* for the properties: the token of the last delete

undoVars == <<live, child, peer, linked, rows, uploaded, dir, stash, layout,
              snapshot, request, harm, last>>
db   == <<live, child, peer, linked, rows, layout>>
disk == <<dir, stash>>

\* What a document says of the device: its node, an edge at it, and that it is
\* collapsed.
Document == SUBSET {"node", "edge", "folded"}
Layout   == [stored : BOOLEAN, version : 1..MaxVersion, doc : Document]
Folder   == {Absent} \cup SUBSET Files
Snapshot == [state : {"unused", "captured", "issued"}, linked : BOOLEAN,
             rows : SUBSET Files, placed : [Layouts -> Document]]
NoSnapshot == [state |-> "unused", linked |-> FALSE, rows |-> {},
               placed |-> [l \in Layouts |-> {}]]
Request == [op : {"none", "upload", "detach", "delete", "canvas_delete", "restore"},
            pc : {"idle", "begin", "files", "commit", "clean"},
            file : Files \cup {Absent}, token : Tokens \cup {Absent},
            versions : [Layouts -> 1..MaxVersion], count : 0..Cardinality(Files)]
NoRequest == [op |-> "none", pc |-> "idle", file |-> Absent, token |-> Absent,
              versions |-> [l \in Layouts |-> 1], count |-> 0]

UndoTypeOK ==
  /\ {live, child, peer, linked} \subseteq BOOLEAN
  /\ rows \subseteq uploaded /\ uploaded \subseteq Files
  /\ dir \in Folder /\ stash \in [Tokens -> Folder]
  /\ layout \in [Layouts -> Layout]
  /\ snapshot \in [Tokens -> Snapshot]
  /\ request \in [Senders -> Request]
  /\ harm \in BOOLEAN /\ last \in Tokens \cup {Absent}

UndoInit ==
  /\ live = TRUE /\ child = FALSE /\ peer = TRUE /\ linked = TRUE
  /\ rows = {} /\ uploaded = {} /\ dir = Absent
  /\ stash = [t \in Tokens |-> Absent]
  /\ layout = [l \in Layouts |-> [stored |-> TRUE, doc |-> {"node", "edge", "folded"},
                                  version |-> IF l \in Immutable THEN MaxVersion ELSE 1]]
  /\ snapshot = [t \in Tokens |-> NoSnapshot]
  /\ request = [c \in Senders |-> NoRequest]
  /\ harm = FALSE /\ last = Absent

-----------------------------------------------------------------------------
(* Files and documents.                                                     *)

FilesIn(d)      == IF d = Absent THEN {} ELSE d
WriteFile(f)   == FilesIn(dir) \cup {f}
DeletePath(f)  == IF dir = Absent THEN Absent ELSE dir \ {f}
RemoveDirIfEmpty(d) == IF d = {} THEN Absent ELSE d

\* A directory is moved as a whole, onto a path that does not exist yet.
MoveTreeOnto(from, to) == from # Absent
MoveTree(from, to) == from # Absent /\ to = Absent

FilterDevice(doc) == doc \ {"node", "edge", "folded"}

\* Variant: a node that is collapsed on the layout counts as still shown.
RestoreDeviceUnfolded(doc, node) ==
  IF doc \cap node # {} \/ "folded" \in node THEN doc ELSE doc \cup (node \ {"edge"})

\* The node comes back, and its collapsed mark; its edges do not.
RestoreDevice(doc, node) ==
  IF "node" \in doc THEN doc ELSE doc \cup (node \ {"edge"})

\* Only layouts that show the device count as placements.
Placements ==
  [l \in Layouts |-> IF layout[l].stored /\ "node" \in layout[l].doc
                     THEN layout[l].doc ELSE {}]

-----------------------------------------------------------------------------
(* Requests.                                                                *)

Begin(c, r) ==
  /\ request[c] = NoRequest
  /\ request' = [request EXCEPT ![c] = r]

Go(c, pc) == request' = [request EXCEPT ![c].pc = pc]
End(c)    == request' = [request EXCEPT ![c] = NoRequest]

\* A request that takes rows or moves files starts; harm, if there is one.
Moving == \E x \in Senders : request[x].op \notin {"none", "upload"}
StartMove(c, r) == Begin(c, r) /\ harm' = (harm \/ Moving)

\* A restore that has written its rows but not committed holds the id of the
\* device and the rows of the layouts and of the peer.
Locked(c) == \E x \in Senders \ {c} : request[x].op = "restore"
                                            /\ request[x].pc = "commit"

\* POST /devices/{id}/attachments: the device exists, and there is room.
RoomLeft == Cardinality(rows) < MaxAttachments

Upload(c) ==
  \E f \in Files \ uploaded :
    /\ live /\ RoomLeft
    /\ Begin(c, [NoRequest EXCEPT !.op = "upload", !.pc = "files", !.file = f])
    /\ uploaded' = uploaded \cup {f}
    /\ UNCHANGED <<db, disk, snapshot, harm, last>>

\* The file is written first; a full disk leaves the directory behind.
UploadWrite(c) ==
  /\ request[c].op = "upload" /\ request[c].pc = "files"
  /\ \/ dir' = WriteFile(request[c].file) /\ Go(c, "commit")
     \/ dir' = FilesIn(dir) /\ End(c)
  /\ UNCHANGED <<db, uploaded, stash, snapshot, harm, last>>

CommitUpload(c) ==
  LET f == request[c].file
  IN /\ request[c].op = "upload" /\ request[c].pc = "commit" /\ ~Locked(c)
     /\ IF live
        THEN /\ rows' = rows \cup {f}
             /\ End(c)
             /\ UNCHANGED dir
        ELSE /\ dir' = DeletePath(f)
             /\ End(c)
             /\ UNCHANGED rows
     /\ UNCHANGED <<live, child, peer, linked, layout, uploaded, stash, snapshot, harm,
                    last>>

\* DELETE /devices/{id}/attachments/{attachment_id}
Detach(c) ==
  \E f \in rows :
    /\ StartMove(c, [NoRequest EXCEPT !.op = "detach", !.pc = "commit", !.file = f])
    /\ UNCHANGED <<db, disk, uploaded, snapshot, last>>

CommitDetach(c) ==
  /\ request[c].op = "detach" /\ request[c].pc = "commit"
  /\ rows' = rows \ {request[c].file}
  /\ Go(c, "clean")
  /\ UNCHANGED <<live, child, peer, linked, layout, uploaded, disk, snapshot, harm,
                 last>>

DetachFiles(c) ==
  /\ request[c].op = "detach" /\ request[c].pc = "clean"
  /\ dir' = RemoveDirIfEmpty(DeletePath(request[c].file))
  /\ End(c)
  /\ UNCHANGED <<db, uploaded, stash, snapshot, harm, last>>

\* The device goes, and by the foreign keys everything that hangs on it; a
\* child that appeared since the count refuses it (ON DELETE RESTRICT).
DropDevice(clean) ==
  /\ live' = FALSE /\ linked' = FALSE /\ rows' = {}
  /\ layout' = clean
  /\ UNCHANGED <<child, peer>>

\* DELETE /devices/{id}: the directory goes after the commit, if there were
\* attachments; the working layouts lose the device without a new version.
PlainDelete(c) ==
  /\ live /\ ~child
  /\ StartMove(c, [NoRequest EXCEPT !.op = "delete", !.pc = "commit",
                                    !.count = Cardinality(rows)])
  /\ UNCHANGED <<db, disk, uploaded, snapshot, last>>

CommitPlainDelete(c) ==
  /\ request[c].op = "delete" /\ request[c].pc = "commit" /\ ~Locked(c)
  /\ IF child
     THEN End(c) /\ UNCHANGED <<db, last>>
     ELSE /\ DropDevice([l \in Layouts |->
                IF l \in Immutable THEN layout[l]
                ELSE [layout[l] EXCEPT !.doc = FilterDevice(layout[l].doc)]])
          /\ last' = Absent
          /\ IF request[c].count > 0 THEN Go(c, "clean") ELSE End(c)
  /\ UNCHANGED <<disk, uploaded, snapshot, harm>>

CleanupStorage(c) ==
  /\ request[c].op = "delete" /\ request[c].pc = "clean"
  /\ dir' = Absent
  /\ End(c)
  /\ UNCHANGED <<db, uploaded, stash, snapshot, harm, last>>

\* The canvas deletes: everything is captured into the snapshot of a new token.
CanvasDelete(c) ==
  \E t \in Tokens :
    /\ live /\ ~child /\ snapshot[t].state = "unused"
    /\ StartMove(c, [NoRequest EXCEPT !.op = "canvas_delete", !.pc = "files", !.token = t,
                                      !.versions = [l \in Layouts |-> layout[l].version]])
    /\ snapshot' = [snapshot EXCEPT ![t] =
                      [state |-> "captured", linked |-> linked, rows |-> rows,
                       placed |-> Placements]]
    /\ UNCHANGED <<db, disk, uploaded, last>>

\* stage_snapshot_attachments: 409 when there is no directory to move.
StageAttachments(c) ==
  LET t == request[c].token
  IN /\ request[c].op = "canvas_delete" /\ request[c].pc = "files"
     /\ IF snapshot[t].rows = {} THEN Go(c, "commit") /\ UNCHANGED disk
        ELSE IF MoveTree(dir, stash[t])
        THEN /\ stash' = [stash EXCEPT ![t] = dir]
             /\ dir' = Absent
             /\ Go(c, "commit")
        ELSE End(c) /\ UNCHANGED disk
     /\ UNCHANGED <<db, uploaded, snapshot, harm, last>>

\* rollback_staged_attachments; a directory that is in the way stays.
Unstaged(t) == IF MoveTree(stash[t], dir)
               THEN [dir |-> stash[t], stash |-> [stash EXCEPT ![t] = Absent]]
               ELSE [dir |-> dir, stash |-> stash]
UnstagedNot(t) == [dir |-> dir, stash |-> stash]
RollbackStaged(t) == Unstaged(t)

\* The versions written are those that were read, plus one.
CommitCanvasDelete(c) ==
  LET r == request[c]
      t == r.token
      showing == {l \in Layouts \ Immutable : snapshot[t].placed[l] # {} /\ layout[l].stored}
  IN /\ r.op = "canvas_delete" /\ r.pc = "commit" /\ ~Locked(c)
     /\ IF child
        THEN /\ dir' = RollbackStaged(t).dir
             /\ stash' = RollbackStaged(t).stash
             /\ harm' = (harm \/ (FilesIn(stash[t]) # {} /\ dir # Absent))
             /\ End(c)
             /\ UNCHANGED <<db, snapshot, last>>
        ELSE /\ \A l \in showing : r.versions[l] < MaxVersion
             /\ DropDevice([l \in Layouts |->
                   IF l \in showing
                   THEN [layout[l] EXCEPT !.doc = FilterDevice(snapshot[t].placed[l]),
                                          !.version = r.versions[l] + 1]
                   ELSE layout[l]])
             /\ snapshot' = [snapshot EXCEPT ![t].state = "issued"]
             /\ last' = t
             /\ End(c)
             /\ UNCHANGED <<disk, harm>>
     /\ UNCHANGED uploaded

\* POST /canvas/undo/restore: a valid token, and no device of that id.
Restore(c) ==
  \E t \in Tokens :
    /\ snapshot[t].state = "issued" /\ ~live
    /\ Begin(c, [NoRequest EXCEPT !.op = "restore", !.pc = "begin", !.token = t])
    /\ harm' = (harm \/ Moving \/ t # last)
    /\ UNCHANGED <<db, disk, uploaded, snapshot, last>>

\* Rows, layouts and then the files; any refusal rolls the rows back.
Restorable(t) ==
  /\ ~live
  /\ snapshot[t].linked => peer
  /\ \A l \in Layouts \ Immutable : snapshot[t].placed[l] # {} => layout[l].stored
  /\ snapshot[t].rows # {} => MoveTree(stash[t], dir)

ApplyRestore(c) ==
  LET t == request[c].token
  IN /\ request[c].op = "restore" /\ request[c].pc = "begin" /\ ~Locked(c)
     /\ IF Restorable(t)
        THEN /\ Go(c, "commit")
             /\ IF snapshot[t].rows # {}
                THEN dir' = stash[t] /\ stash' = [stash EXCEPT ![t] = Absent]
                ELSE UNCHANGED disk
        ELSE End(c) /\ UNCHANGED disk
     /\ UNCHANGED <<db, uploaded, snapshot, harm, last>>

\* RestorePlacement: the layout counts a version if its document changes.
RestorePlacement(l, node) ==
  LET doc == RestoreDevice(layout[l].doc, node)
  IN IF doc = layout[l].doc THEN layout[l]
     ELSE [layout[l] EXCEPT !.doc = doc, !.version = @ + 1]

CommitRestore(c) ==
  LET s == snapshot[request[c].token]
      showing == {l \in Layouts \ Immutable : s.placed[l] # {}}
  IN /\ request[c].op = "restore" /\ request[c].pc = "commit"
     /\ \A l \in showing : layout[l].version < MaxVersion
     /\ live' = TRUE /\ linked' = s.linked /\ rows' = s.rows
     /\ layout' = [l \in Layouts |-> IF l \in showing THEN RestorePlacement(l, s.placed[l])
                                     ELSE layout[l]]
     /\ End(c)
     /\ UNCHANGED <<child, peer, uploaded, disk, snapshot, harm, last>>

-----------------------------------------------------------------------------
\* An error that is no IntegrityError, or the end of the process: the database
\* rolls back, the files stay where they are.
Abort(c) ==
  /\ request[c].op \in {"upload", "delete", "canvas_delete", "restore"}
  /\ request[c].pc = "commit"
  /\ harm' = (harm \/ request[c].op \in {"canvas_delete", "restore"})
  /\ End(c)
  /\ UNCHANGED <<db, disk, uploaded, snapshot, last>>

\* What others do to the rows around the device.
Adopt ==
  /\ live /\ ~child /\ \A c \in Senders : ~Locked(c)
  /\ child' = TRUE
  /\ UNCHANGED <<live, peer, linked, rows, layout, disk, uploaded, snapshot, request, harm, last>>

DeletePeer ==
  /\ peer /\ \A c \in Senders : ~Locked(c)
  /\ peer' = FALSE /\ linked' = FALSE
  /\ UNCHANGED <<live, child, rows, layout, disk, uploaded, snapshot, request, harm, last>>

DeleteLayout(l) ==
  /\ layout[l].stored /\ \A c \in Senders : ~Locked(c)
  /\ layout' = [layout EXCEPT ![l].stored = FALSE]
  /\ UNCHANGED <<live, child, peer, linked, rows, disk, uploaded, snapshot, request, harm, last>>

\* A tab saves the layout as it shows it, with the device or without.
SaveLayout(l) ==
  \E doc \in {{}, {"node"}} :
    /\ layout[l].stored /\ layout[l].doc # doc /\ layout[l].version < MaxVersion
    /\ \A c \in Senders : ~Locked(c)
    /\ layout' = [layout EXCEPT ![l].doc = doc, ![l].version = @ + 1]
    /\ UNCHANGED <<live, child, peer, linked, rows, disk, uploaded, snapshot, request, harm, last>>

RequestStep(c) ==
  \/ Upload(c) \/ UploadWrite(c) \/ CommitUpload(c)
  \/ Detach(c) \/ CommitDetach(c) \/ DetachFiles(c)
  \/ PlainDelete(c) \/ CommitPlainDelete(c) \/ CleanupStorage(c)
  \/ CanvasDelete(c) \/ StageAttachments(c) \/ CommitCanvasDelete(c)
  \/ Restore(c) \/ ApplyRestore(c) \/ CommitRestore(c)
  \/ Abort(c)

Others == Adopt \/ DeletePeer \/ \E l \in Layouts : DeleteLayout(l) \/ SaveLayout(l)

UndoNext == Others \/ \E c \in Senders : RequestStep(c)

UndoSpec == UndoInit /\ [][UndoNext]_undoVars

-----------------------------------------------------------------------------
Quiet == \A c \in Senders : request[c] = NoRequest

\* harm: two requests that remove or restore something of the device were under
\* way together; or one was cut off after it moved the files; or a delete was
\* refused after an upload had made the directory again that its files were to
\* return to; or the token of an earlier delete was used again.  Without such harm
\* every attachment of the device has its file between requests, at whatever other
\* point of them uploads come.
FilesFollowRows == Quiet /\ ~harm => rows \subseteq FilesIn(dir)

\* Without such harm, undo gives back what the delete captured: the connection,
\* every attachment that was there then, with its file, and the node on every
\* working layout.  An attachment committed after that, before the delete commits,
\* goes with the device and no undo knows of it.
UndoGivesBackStep ==
  \A c \in Senders :
    live' /\ ~live /\ request[c].op = "restore" /\ request'[c] = NoRequest /\ ~harm
    => LET s == snapshot[request[c].token]
       IN /\ rows' = s.rows /\ rows' \subseteq FilesIn(dir')
          /\ linked' = s.linked
          /\ \A l \in Layouts \ Immutable :
               s.placed[l] # {} => "node" \in layout'[l].doc
UndoGivesBack == [][UndoGivesBackStep]_undoVars

\* Attachments of a device that is deleted and restored have their files
\* (canvas_undo_service.py, attachment_service.py).
AttachmentsHold == UndoTypeOK /\ FilesFollowRows

-----------------------------------------------------------------------------
(* The inductive invariant: where the files are while a request is under way. *)

Mover(x)    == request[x].op \notin {"none", "upload"}
Takes(x)    == request[x].op = "canvas_delete"
Staged(x)   == Takes(x) /\ request[x].pc = "commit"
Returned(x) == request[x].op = "restore" /\ request[x].pc = "commit"
Uploads(x)  == request[x].op = "upload"

\* Files that are written for rows that do not exist yet.
Arriving == {request[x].file : x \in {u \in Senders : Uploads(u) /\ request[u].pc = "commit"}}

RequestFits(r) ==
  \/ r = NoRequest
  \/ r.op = "upload" /\ r.pc \in {"files", "commit"} /\ r.file \in uploaded
  \/ r.op = "detach" /\ r.pc \in {"commit", "clean"} /\ r.file \in uploaded
  \/ r.op = "delete" /\ r.pc \in {"commit", "clean"}
  \/ r.op = "canvas_delete" /\ r.pc \in {"files", "commit"} /\ r.token \in Tokens
  \/ r.op = "restore" /\ r.pc \in {"begin", "commit"} /\ r.token \in Tokens

\* A file under upload is nobody else's, and no snapshot's.
RequestsInv ==
  /\ \A x \in Senders : RequestFits(request[x])
  /\ \A x, y \in Senders :
       Uploads(x) /\ request[y].op \in {"upload", "detach"}
         /\ request[y].file = request[x].file => x = y
  /\ \A x \in Senders : Uploads(x) =>
       request[x].file \notin rows /\ \A t \in Tokens : request[x].file \notin snapshot[t].rows

SnapshotsInv ==
  \A t \in Tokens :
    /\ snapshot[t].rows \subseteq uploaded
    /\ \A l \in Layouts : snapshot[t].placed[l] # {} => "node" \in snapshot[t].placed[l]
    /\ snapshot[t].state = "unused" =>
         stash[t] = Absent /\ \A x \in Senders : request[x].token # t

\* Who moves is alone, and the device is there or not as its request expects.
MoversInv ==
  /\ \A x, y \in Senders : Mover(x) /\ Mover(y) => x = y
  /\ \A x \in Senders :
       /\ request[x].op \in {"detach", "canvas_delete"} => live
       /\ request[x].op = "delete" /\ request[x].pc = "commit" => live
       /\ request[x].op = "delete" /\ request[x].pc = "clean" => ~live /\ last = Absent
       /\ request[x].op = "restore" => ~live /\ request[x].token = last
       /\ request[x].op = "detach" /\ request[x].pc = "clean" => request[x].file \notin rows

\* The staging directory holds what the snapshot of the token has captured.
StashHolds(t) == /\ snapshot[t].rows \subseteq FilesIn(stash[t])
                 /\ snapshot[t].rows = {} => stash[t] = Absent

\* The files are in the directory of the device while that exists, but for the
\* time between staging and commit; then in the staging directory of the last
\* delete, until a restore moves them back.
PlacesInv ==
  /\ live /\ (\A x \in Senders : ~Staged(x)) => rows \cup Arriving \subseteq FilesIn(dir)
  /\ \A x \in Senders :
       LET t == request[x].token
       IN /\ Takes(x) /\ ~Staged(x) => stash[t] = Absent /\ snapshot[t].rows \subseteq rows
          /\ Staged(x) =>
               StashHolds(t) /\ rows \cup Arriving \subseteq FilesIn(dir) \cup FilesIn(stash[t])
  /\ ~live /\ last # Absent =>
       IF \E x \in Senders : Returned(x)
       THEN snapshot[last].rows \cup Arriving \subseteq FilesIn(dir)
       ELSE StashHolds(last) /\ Arriving \subseteq FilesIn(dir) \cup FilesIn(stash[last])

FilesInv ==
  /\ UndoTypeOK /\ RequestsInv /\ SnapshotsInv
  /\ ~live => rows = {}
  /\ ~harm => MoversInv /\ PlacesInv
=============================================================================
