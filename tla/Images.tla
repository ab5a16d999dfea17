--------------------------------- MODULE Images --------------------------------
(***************************************************************************)
(* Image files and their owner rows (api.py, ImageController; image_store) *)
(* with the two handlers that delete files on the way: the removal of an   *)
(* image fragment and the change of the legacy setting profile_image_id.   *)
(* Files are written and unlinked before or after the transaction of the   *)
(* rows, never in it, and written in place: opening empties the file.  An  *)
(* id is always uploaded with one file type, that passes the checks of     *)
(* save; a profile image may be any image, whoever owns it.                *)
(***************************************************************************)
EXTENDS Naturals, FiniteSets

CONSTANTS Workers, Users, Images,
    None,         \* no row, no setting
    NoRequest,    \* what an idle worker handles
    MaxRequests   \* bound on the requests sent in one behaviour

ASSUME BoundAssumption == MaxRequests \in Nat
ASSUME NoneAssumption ==
    /\ None \notin Users \cup Images \cup {"gone", "open", "torn", "whole"}
    /\ "gone" \notin Users

VARIABLES
    files,       \* storage directory: image -> state of its file, or None
    linked,      \* workers writing to a file that is still in the directory
    owner,       \* image_owners: image -> user, or None
    fragments,   \* image fragments: who has one, and of which image
    avatar,      \* user_settings, profile_image_id: user -> image, or None
    req,         \* worker -> the request it is handling, or NoRequest
    sent,        \* requests sent so far
    promise,     \* image -> the user told that it is stored, "gone", or None
    alone        \* workers whose request no other on the same image overlapped

disk == <<files, linked>>
vars == <<files, linked, owner, fragments, avatar, req, sent, promise, alone>>

\* Opened and still empty; the bytes of no upload, cut off when their writer died
\* or mixed by two writers; the bytes of one upload.
FileStates == {"open", "torn", "whole"}

Ops == {"upload", "delete", "drop", "avatar", "unset"}
Phases == {"load", "check", "file", "write", "merge", "commit", "hook"}

\* row is the owner or the setting that the handler read.
Request ==
    [op : Ops, user : Users, image : Images, pc : Phases,
     row : Users \cup Images \cup {None}]

ASSUME NoRequestAssumption == NoRequest \notin Request

At(w, op, pc) == req[w] # NoRequest /\ req[w].op = op /\ req[w].pc = pc
GoTo(w, pc) == req' = [req EXCEPT ![w].pc = pc] /\ UNCHANGED <<promise, alone>>
Read(w, row, pc) == req' = [req EXCEPT ![w].row = row, ![w].pc = pc]

-----------------------------------------------------------------------------
(* What a client was told, and when it may count on it *)

Handles(r, i) ==
    /\ r # NoRequest
    /\ IF r.op \in {"upload", "delete", "drop"} THEN r.image = i
                                               ELSE r.op = "avatar" /\ r.row = i

\* A request on image i begins: it voids what was promised of i, and overlaps
\* the requests on i that are running.
Touch(w, i) ==
    LET others == {v \in Workers \ {w} : Handles(req[v], i)}
    IN  /\ promise' = [promise EXCEPT ![i] = None]
        /\ alone' = IF others = {} THEN alone \cup {w} ELSE alone \ (others \cup {w})

Ends(w) == req' = [req EXCEPT ![w] = NoRequest] /\ alone' = alone \ {w}
Answer(w) == Ends(w) /\ UNCHANGED promise
Promise(w, what) ==
    /\ Ends(w)
    /\ promise' = IF w \in alone THEN [promise EXCEPT ![req[w].image] = what] ELSE promise

-----------------------------------------------------------------------------
Send(w) ==
    /\ req[w] = NoRequest /\ sent < MaxRequests /\ sent' = sent + 1
    /\ \E op \in Ops, u \in Users, i \in Images :
          /\ op = "drop" => <<u, i>> \in fragments
          /\ req' = [req EXCEPT ![w] =
               [op |-> op, user |-> u, image |-> i, row |-> None,
                pc |-> IF op \in {"upload", "delete"} THEN "check" ELSE "load"]]
          /\ IF op \in {"upload", "delete", "drop"} THEN Touch(w, i)
                                                     ELSE UNCHANGED <<promise, alone>>
    /\ UNCHANGED <<disk, owner, fragments, avatar>>

\* create_fragment; data.image_id is what the client says.
AddFragment ==
    /\ \E u \in Users, i \in Images : fragments' = fragments \cup {<<u, i>>}
    /\ UNCHANGED <<disk, owner, avatar, req, sent, promise, alone>>

\* delete_entry takes the fragments of an entry along and leaves their images.
RemoveEntry ==
    /\ \E u \in Users : \E gone \in SUBSET (fragments \cap ({u} \X Images)) \ {{}} :
          fragments' = fragments \ gone
    /\ UNCHANGED <<disk, owner, avatar, req, sent, promise, alone>>

\* upload_image: 409 for an id that is another user's.
\* Fault: anyone may use any id.
MayUseAny(r) == TRUE
MayUse(r) == owner[r.image] \in {None, r.user}

CheckUpload(w) ==
    LET r == req[w]
    IN  /\ At(w, "upload", "check")
        /\ IF MayUse(r)
             THEN Read(w, owner[r.image], "file") /\ UNCHANGED <<promise, alone>>
             ELSE Answer(w)
        /\ UNCHANGED <<disk, owner, fragments, avatar, sent>>

\* A retry has nothing to do when row and file are there.
\* Fault: the row is enough.
RowIsEnough(r) == r.row = r.user
AlreadyStored(r) == r.row = r.user /\ files[r.image] # None

\* write_bytes opens the file for writing ...
SaveUpload(w) ==
    LET r == req[w]
    IN  /\ At(w, "upload", "file")
        /\ IF AlreadyStored(r)
             THEN Promise(w, r.user) /\ UNCHANGED disk
             ELSE /\ files' = [files EXCEPT ![r.image] = "open"]
                  /\ linked' = linked \cup {w}
                  /\ GoTo(w, "write")
        /\ UNCHANGED <<owner, fragments, avatar, sent>>

\* ... and writes.  Over what another worker wrote since, the shorter leaves the
\* end of the longer; into a file unlinked since, nothing is seen of it.
WriteFile(w) ==
    LET i == req[w].image
    IN  /\ At(w, "upload", "write")
        /\ IF w \in linked
             THEN \E bytes \in IF files[i] = "open" THEN {"whole"} ELSE {"whole", "torn"} :
                    files' = [files EXCEPT ![i] = bytes]
             ELSE UNCHANGED files
        /\ linked' = linked \ {w}
        /\ GoTo(w, "merge")
        /\ UNCHANGED <<owner, fragments, avatar, sent>>

\* session.merge reads the row; at commit it is inserted, or its user updated if
\* that differs from what was read.
\* Fault: session.add, without reading.
AddRow(w) == Read(w, None, "commit")
MergeRow(w) == Read(w, owner[req[w].image], "commit")

MergeUpload(w) ==
    /\ At(w, "upload", "merge")
    /\ MergeRow(w)
    /\ UNCHANGED <<disk, owner, fragments, avatar, sent, promise, alone>>

Refused(r) ==
    \/ r.row = None /\ owner[r.image] # None
    \/ r.row \notin {None, r.user} /\ owner[r.image] = None

CommitUpload(w) ==
    LET r == req[w]
    IN  /\ At(w, "upload", "commit")
        /\ IF Refused(r) THEN Answer(w) /\ UNCHANGED owner
           ELSE /\ owner' = IF r.row = r.user THEN owner
                            ELSE [owner EXCEPT ![r.image] = r.user]
                /\ Promise(w, r.user)
        /\ UNCHANGED <<disk, fragments, avatar, sent>>

-----------------------------------------------------------------------------
(* delete_image, and delete_fragment of an image fragment *)

LoadFragment(w) ==
    /\ At(w, "drop", "load")
    /\ IF <<req[w].user, req[w].image>> \in fragments THEN GoTo(w, "check") ELSE Answer(w)
    /\ UNCHANGED <<disk, owner, fragments, avatar, sent>>

\* 404 for an image that is not the caller's; a fragment goes without its image.
CheckDelete(w) ==
    LET r == req[w]
    IN  /\ At(w, r.op, "check") /\ r.op \in {"delete", "drop"}
        /\ IF owner[r.image] = r.user
             THEN Read(w, r.user, "file") /\ UNCHANGED <<promise, alone>>
             ELSE IF r.op = "delete" THEN Answer(w) ELSE GoTo(w, "commit")
        /\ UNCHANGED <<disk, owner, fragments, avatar, sent>>

\* ImageStore.delete; who is writing the file goes on, unseen.
Removed(i) ==
    /\ files' = [files EXCEPT ![i] = None]
    /\ linked' = {v \in linked : req[v].image # i}

Unlink(w) ==
    /\ req[w] # NoRequest /\ req[w].op \in {"delete", "drop"} /\ req[w].pc = "file"
    /\ Removed(req[w].image)
    /\ GoTo(w, "commit")
    /\ UNCHANGED <<owner, fragments, avatar, sent>>

\* DELETE by image id alone.  Rows that are gone are not missed.
\* Fault: the row is left for a later upload.
RowsKept(r) == owner
RowsLeft(r) == IF r.row = r.user THEN [owner EXCEPT ![r.image] = None] ELSE owner

CommitDelete(w) ==
    LET r == req[w]
    IN  /\ req[w] # NoRequest /\ r.op \in {"delete", "drop"} /\ r.pc = "commit"
        /\ owner' = RowsLeft(r)
        /\ fragments' = IF r.op = "drop" THEN fragments \ {<<r.user, r.image>>} ELSE fragments
        /\ IF r.row = r.user THEN Promise(w, "gone") ELSE Answer(w)
        /\ UNCHANGED <<disk, avatar, sent>>

-----------------------------------------------------------------------------
(* SettingsController: PUT and DELETE of profile_image_id *)

LoadAvatar(w) ==
    LET r == req[w]
        old == avatar[r.user]
    IN  /\ At(w, r.op, "load") /\ r.op \in {"avatar", "unset"}
        /\ IF r.op = "unset" /\ old = None THEN Answer(w)
           ELSE /\ Read(w, old, "commit")
                /\ IF r.op = "avatar" /\ old # None THEN Touch(w, old)
                                                    ELSE UNCHANGED <<promise, alone>>
        /\ UNCHANGED <<disk, owner, fragments, avatar, sent>>

\* INSERT of a row that is there, or UPDATE of one that is gone, rolls back; the
\* same value is no UPDATE.
CommitAvatar(w) ==
    LET r == req[w]
    IN  /\ At(w, "avatar", "commit")
        /\ IF r.row # r.image /\ (r.row = None) = (avatar[r.user] = None)
             THEN avatar' = [avatar EXCEPT ![r.user] = r.image] /\ GoTo(w, "hook")
             ELSE Answer(w) /\ UNCHANGED avatar
        /\ UNCHANGED <<disk, owner, fragments, sent>>

\* _profile_image_id_post_write: the file of the previous image, not its row, and
\* whoever owns it.
RunHook(w) ==
    /\ At(w, "avatar", "hook")
    /\ IF req[w].row = None THEN UNCHANGED disk ELSE Removed(req[w].row)
    /\ Answer(w)
    /\ UNCHANGED <<owner, fragments, avatar, sent>>

CommitUnset(w) ==
    /\ At(w, "unset", "commit")
    /\ avatar' = [avatar EXCEPT ![req[w].user] = None]
    /\ Answer(w)
    /\ UNCHANGED <<disk, owner, fragments, sent>>

-----------------------------------------------------------------------------
\* A worker dies, or a file cannot be opened or written: what is on the disk stays
\* as it is, the bytes written so far included.
Crash(w) ==
    LET i == req[w].image
    IN  /\ req[w] # NoRequest
        /\ IF w \in linked
             THEN \E bytes \in {"torn", files[i]} \ {"open"} :
                    files' = [files EXCEPT ![i] = bytes]
             ELSE UNCHANGED files
        /\ linked' = linked \ {w}
        /\ Answer(w)
        /\ UNCHANGED <<owner, fragments, avatar, sent>>

Init ==
    /\ files = [i \in Images |-> None] /\ linked = {} /\ fragments = {}
    /\ owner = [i \in Images |-> None] /\ avatar = [u \in Users |-> None]
    /\ req = [w \in Workers |-> NoRequest] /\ sent = 0
    /\ promise = [i \in Images |-> None] /\ alone = {}

Handle(w) ==
    \/ CheckUpload(w) \/ SaveUpload(w) \/ WriteFile(w) \/ MergeUpload(w) \/ CommitUpload(w)
    \/ LoadFragment(w) \/ CheckDelete(w) \/ Unlink(w) \/ CommitDelete(w)
    \/ LoadAvatar(w) \/ CommitAvatar(w) \/ RunHook(w) \/ CommitUnset(w)

Next == AddFragment \/ RemoveEntry \/ \E w \in Workers : Send(w) \/ Handle(w) \/ Crash(w)

Spec == Init /\ [][Next]_vars

-----------------------------------------------------------------------------
(* Properties *)

\* The row a handler read entitles it to the step it is at.
Entitled(r) ==
    /\ r.op = "upload" => r.row \in Users \cup {None}
    /\ r.op = "upload" /\ r.pc \in {"file", "write"} => r.row \in {None, r.user}
    /\ r.op \in {"delete", "drop"} => r.row \in {None, r.user}
    /\ r.op \in {"delete", "drop"} /\ r.pc = "file" => r.row = r.user
    /\ r.op \in {"avatar", "unset"} => r.row \in Images \cup {None}

\* Every variable keeps its shape, and no upload or delete writes or unlinks a file
\* that the owner row it read does not entitle it to.  (The hook of the profile
\* image reads no owner row.)
TypeOK ==
    /\ files \in [Images -> FileStates \cup {None}]
    /\ linked \subseteq {w \in Workers : At(w, "upload", "write")}
    /\ owner \in [Images -> Users \cup {None}]
    /\ fragments \subseteq Users \X Images
    /\ avatar \in [Users -> Images \cup {None}]
    /\ req \in [Workers -> Request \cup {NoRequest}]
    /\ \A w \in Workers : req[w] # NoRequest => Entitled(req[w])
    /\ sent \in Nat
    /\ promise \in [Images -> Users \cup {None, "gone"}]
    /\ alone \subseteq Workers

\* What an answer said holds until the next request on that image begins, whatever
\* crashed halfway before and whatever runs on other images: a deleted image has
\* neither file nor owner row; an upload answered 201 has both.  Its file is that
\* of one upload when it was written for this answer, nothing overlapping; a retry
\* that finds row and file looks no further, so the file may be the torn one of a
\* writer that died, or of two that wrote at once.
PromiseKept ==
    /\ \A i \in Images :
          /\ promise[i] \in Users => files[i] \in {"torn", "whole"} /\ owner[i] = promise[i]
          /\ promise[i] = "gone" => files[i] = None /\ owner[i] = None
    /\ \A w \in alone : At(w, "upload", "commit") => files[req[w].image] = "whole"

\* An upload that nothing overlaps is never refused at its commit: a retry after
\* a crash or a lost file finds its own row and repairs the rest.
RetryNeverRefused ==
    \A w \in alone : At(w, "upload", "commit") => ~Refused(req[w])

\* An image passes from one user to another only by an upload that another
\* request on the image overlapped: both found the id free, and the merge of the
\* second writes its user over the first one's.
NoTakeover ==
    [][\A i \in Images :
         owner[i] # None /\ owner'[i] \notin {owner[i], None} =>
           \E w \in Workers \ alone : At(w, "upload", "commit") /\ req[w].image = i]_vars
=============================================================================
