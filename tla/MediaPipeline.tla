---------------------------- MODULE MediaPipeline ----------------------------
(***************************************************************************)
(* The upload pipeline of the wedding platform, as deployed: the FastAPI   *)
(* handlers under /media/upload, /media/{id} and /admin/media, the media   *)
(* table in PostgreSQL (READ COMMITTED), the object store, the Celery      *)
(* queue and its workers, and the repair script an operator runs by hand.  *)
(*                                                                         *)
(* A request is a coroutine: whatever it read before an await may be       *)
(* stale when it acts on it, so each handler is split where another actor  *)
(* can get in between, and only there.  `media` is the committed content   *)
(* of the table.  A row is written the way SQLAlchemy writes it: only the  *)
(* columns the session changed, and an UPDATE that finds no row raises.    *)
(***************************************************************************)
EXTENDS Naturals, FiniteSets

CONSTANTS
    Users,        \* guest accounts; the admins' identity does not matter here
    NoUser,       \* uploader_id IS NULL
    Hashes,       \* contents: the SHA-256 the client declares
    NoHash,       \* the hash of an id no row has
    Videos,       \* the contents declared with a video MIME type
    MediaIds,     \* the primary keys the sequence will hand out
    Requests,     \* HTTP requests, each handled once
    Workers,      \* Celery worker processes
    Scripts,      \* runs of scripts/repair_stuck.py
    MaxConfirms,  \* bound: confirm requests per media row
    MaxCrashes,   \* bound: process crashes
    Faults        \* whether a call to the object store or Redis may fail

ASSUME ConstantsAssumption ==
    /\ NoUser \notin Users
    /\ NoHash \notin Hashes
    /\ Videos \subseteq Hashes
    /\ Workers \cap Scripts = {}
    /\ MaxConfirms \in Nat
    /\ MaxCrashes \in Nat
    /\ Faults \in BOOLEAN

VARIABLES
    users,      \* the accounts that exist
    media,      \* the media table
    objects,    \* the keys the object store holds
    urls,       \* the contents a client holds a presigned PUT URL for
    queue,      \* process_media messages waiting in Redis, per id
    req,        \* the HTTP requests
    job,        \* what each worker and script is doing
    todo,       \* the rows a script still has to look at
    announced,  \* new_upload announcements published, per id
    crashes     \* crashes so far

vars == <<users, media, objects, urls, queue, req, job, todo, announced, crashes>>

-----------------------------------------------------------------------------
(* Rows, keys, requests and jobs.                                          *)

LiveStatus == {"pending", "processing", "ready", "failed"}

\* A row's columns; `thumb` and `optimized` say whether thumbnail_path and
\* optimized_path are set: their value is always the key derived from the hash.
\* An id has status "unused" before its row is inserted and "deleted" after it
\* is gone: the sequence never hands an id out twice.
Status == LiveStatus \cup {"unused", "deleted"}

Row == [status: Status,
        hash: Hashes \cup {NoHash},
        uploader: Users \cup {NoUser},
        visible: BOOLEAN, thumb: BOOLEAN, optimized: BOOLEAN]

Absent(s) == [status |-> s, hash |-> NoHash, uploader |-> NoUser,
              visible |-> FALSE, thumb |-> FALSE, optimized |-> FALSE]

Live(id) == media[id].status \in LiveStatus

\* Object keys are derived from the content hash, so a later row with the same content
\* uses the same keys.  The original's key also holds the file name: here a content
\* keeps its name, which is when a retry meets what an earlier upload left behind.
Keys == {"original", "thumb", "optimized"} \X Hashes

StoredKeys(row) ==
    {<<"original", row.hash>>}
      \cup (IF row.thumb THEN {<<"thumb", row.hash>>} ELSE {})
      \cup (IF row.optimized THEN {<<"optimized", row.hash>>} ELSE {})

Request == [op: {"none", "init", "confirm", "delete"},
            pc: {"new", "read", "sent", "erased", "done"},
            user: Users \cup {NoUser},     \* NoUser: an admin
            hash: Hashes \cup {NoHash},    \* init: the declared content
            ids: SUBSET MediaIds,          \* the rows it works on
            was: Status,                   \* confirm: the status it read
            keys: SUBSET Keys,             \* delete: the objects to erase
            reply: {"none", "ok", "duplicate", "missing", "error"}]

NewRequest == [op |-> "none", pc |-> "new", user |-> NoUser, hash |-> NoHash,
               ids |-> {}, was |-> "unused", keys |-> {}, reply |-> "none"]

\* A request past its first SELECT: it goes on, or ends at once with a refusal.
Opened(op, u, h, ids, was, keys, refusal) ==
    [op |-> op, pc |-> IF refusal = "none" THEN "read" ELSE "done", user |-> u, hash |-> h,
     ids |-> ids, was |-> was, keys |-> keys, reply |-> refusal]

Executors == Workers \cup Scripts

Job == [pc: {"unstarted", "idle", "fetch", "thumb", "optimized", "commit",
             "markFailed", "announce"},
        id: MediaIds \cup {0},
        row: Row,                      \* the row as the session loaded it
        status: Status,                \* what the session has set since
        thumb: BOOLEAN, optimized: BOOLEAN]

NoJob == [pc |-> "idle", id |-> 0, row |-> Absent("unused"),
          status |-> "unused", thumb |-> FALSE, optimized |-> FALSE]

\* The unit of work that processes `id`, on the row a SELECT just returned.
Load(id, pc) == [pc |-> pc, id |-> id, row |-> media[id], status |-> "processing",
                 thumb |-> media[id].thumb, optimized |-> media[id].optimized]

\* An UPDATE flushed by a confirm holds the row until the request commits.
HoldsLock(r, id) ==
    req[r].op = "confirm" /\ req[r].pc = "sent" /\ req[r].was # "processing"
      /\ id \in req[r].ids

Locked(id) == \E r \in Requests : HoldsLock(r, id)

Ended(q, reply) == [q EXCEPT !.pc = "done", !.reply = reply]

Finish(r, reply) == req' = [req EXCEPT ![r] = Ended(req[r], reply)]

Init ==
    /\ users = Users
    /\ media = [id \in MediaIds |-> Absent("unused")]
    /\ objects = {}
    /\ urls = {}
    /\ queue = [id \in MediaIds |-> 0]
    /\ req = [r \in Requests |-> NewRequest]
    /\ job = [e \in Executors |->
                IF e \in Scripts THEN [NoJob EXCEPT !.pc = "unstarted"] ELSE NoJob]
    /\ todo = [e \in Scripts |-> {}]
    /\ announced = [id \in MediaIds |-> 0]
    /\ crashes = 0

-----------------------------------------------------------------------------
(* Upload: init, the client's PUT, confirm.                                *)

\* init_upload up to find_by_hash.  The refusals before it (uploads paused, type,
\* size) leave the database as it was.
InitRead(r, u, h) ==
    /\ req[r].pc = "new"
    /\ u \in users
    /\ LET duplicate == \E id \in MediaIds : Live(id) /\ media[id].hash = h
       IN  req' = [req EXCEPT ![r] = Opened("init", u, h, {}, "unused", {},
                                            IF duplicate THEN "duplicate" ELSE "none")]
    /\ UNCHANGED <<users, media, objects, urls, queue, job, todo, announced, crashes>>

\* Mutant: the file_hash column without its UNIQUE constraint.
InitInsertNotUnique(r) ==
    /\ req[r].op = "init" /\ req[r].pc = "read"
    /\ \E id \in MediaIds :
          /\ media[id].status = "unused"
          /\ media' = [media EXCEPT ![id] =
                          [Absent("pending") EXCEPT !.hash = req[r].hash, !.visible = TRUE,
                                                    !.uploader = req[r].user]]
    /\ urls' = urls \cup {req[r].hash}
    /\ Finish(r, "ok")
    /\ UNCHANGED <<users, objects, queue, job, todo, announced, crashes>>

\* INSERT and commit.  Any IntegrityError is answered as a duplicate: a second
\* row with the hash, or an uploader whose account is gone by now.
InitInsert(r) ==
    /\ req[r].op = "init" /\ req[r].pc = "read"
    /\ LET h == req[r].hash
           violates == \/ \E id \in MediaIds : Live(id) /\ media[id].hash = h
                       \/ req[r].user \notin users
       IN  \/ /\ violates
              /\ Finish(r, "duplicate")
              /\ UNCHANGED <<media, urls>>
           \/ /\ ~violates
              /\ \E id \in MediaIds :
                    /\ media[id].status = "unused"
                    /\ media' = [media EXCEPT ![id] =
                                    [Absent("pending") EXCEPT !.hash = h, !.visible = TRUE,
                                                              !.uploader = req[r].user]]
              /\ urls' = urls \cup {h}
              /\ Finish(r, "ok")
    /\ UNCHANGED <<users, objects, queue, job, todo, announced, crashes>>

\* The client PUTs the file straight to the object store, at any time while its
\* URL is valid: before or after anything else happened to the row.
ClientPut(h) ==
    /\ h \in urls
    /\ objects' = objects \cup {<<"original", h>>}
    /\ UNCHANGED <<users, media, urls, queue, req, job, todo, announced, crashes>>

\* confirm_upload loads the row.  get_owned_pending looks at the owner only.
ConfirmRead(r, u, id) ==
    /\ req[r].pc = "new"
    /\ u \in users
    /\ Cardinality({q \in Requests : req[q].op = "confirm" /\ id \in req[q].ids}) < MaxConfirms
    /\ LET owned == Live(id) /\ media[id].uploader = u
       IN  req' = [req EXCEPT ![r] =
                    IF owned THEN Opened("confirm", u, NoHash, {id}, media[id].status, {}, "none")
                             ELSE Opened("confirm", u, NoHash, {}, "unused", {}, "missing")]
    /\ UNCHANGED <<users, media, objects, urls, queue, job, todo, announced, crashes>>

\* status = processing, flush, send_task: the message is in Redis before the
\* status is committed.  Setting the status the row was loaded with writes nothing.
ConfirmSend(r) ==
    /\ req[r].op = "confirm" /\ req[r].pc = "read"
    /\ \E id \in req[r].ids :
          \/ /\ req[r].was = "processing" \/ (Live(id) /\ ~Locked(id))
             /\ queue' = [queue EXCEPT ![id] = @ + 1]
             /\ req' = [req EXCEPT ![r].pc = "sent"]
          \/ /\ Faults \/ (req[r].was # "processing" /\ ~Live(id))
             /\ Finish(r, "error")
             /\ UNCHANGED queue
    /\ UNCHANGED <<users, media, objects, urls, job, todo, announced, crashes>>

ConfirmCommit(r) ==
    /\ req[r].op = "confirm" /\ req[r].pc = "sent"
    /\ media' = [id \in MediaIds |->
                    IF HoldsLock(r, id) THEN [media[id] EXCEPT !.status = "processing"]
                                        ELSE media[id]]
    /\ Finish(r, "ok")
    /\ UNCHANGED <<users, objects, urls, queue, job, todo, announced, crashes>>

-----------------------------------------------------------------------------
(* Deletion and moderation.                                                *)

\* Mutant: the bulk endpoint without its owner check.
DeleteReadAnyone(r, u, ids) ==
    /\ req[r].pc = "new"
    /\ u \in users \/ (u = NoUser /\ Cardinality(ids) = 1)
    /\ LET found == {id \in ids : Live(id)}
           stored == UNION {StoredKeys(media[id]) : id \in found}
       IN  req' = [req EXCEPT ![r] = Opened("delete", u, NoHash, found, "unused", stored,
                                            IF found = {} THEN "missing" ELSE "none")]
    /\ UNCHANGED <<users, media, objects, urls, queue, job, todo, announced, crashes>>

\* delete_own_media, bulk_delete_own_media (by a guest, of their own rows only)
\* and the admin's delete_media (u = NoUser, any one row): the SELECT.
DeleteRead(r, u, ids) ==
    /\ req[r].pc = "new"
    /\ u \in users \/ (u = NoUser /\ Cardinality(ids) = 1)
    /\ LET found == {id \in ids : Live(id) /\ (u = NoUser \/ media[id].uploader = u)}
           stored == UNION {StoredKeys(media[id]) : id \in found}
       IN  req' = [req EXCEPT ![r] = Opened("delete", u, NoHash, found, "unused", stored,
                                            IF found = {} THEN "missing" ELSE "none")]
    /\ UNCHANGED <<users, media, objects, urls, queue, job, todo, announced, crashes>>

\* _delete_stored_objects, with the paths the SELECT returned; failures are logged
\* and skipped.
DeleteObjects(r) ==
    /\ req[r].op = "delete" /\ req[r].pc = "read"
    /\ \E kept \in (IF Faults THEN SUBSET req[r].keys ELSE {{}}) :
          objects' = objects \ (req[r].keys \ kept)
    /\ req' = [req EXCEPT ![r].pc = "erased"]
    /\ UNCHANGED <<users, media, urls, queue, job, todo, announced, crashes>>

\* DELETE and commit.  A row that is gone already only logs a warning.
DeleteCommit(r) ==
    /\ req[r].op = "delete" /\ req[r].pc = "erased"
    /\ \A id \in req[r].ids : ~Locked(id)
    /\ media' = [id \in MediaIds |->
                    IF id \in req[r].ids THEN Absent("deleted") ELSE media[id]]
    /\ Finish(r, "ok")
    /\ UNCHANGED <<users, objects, urls, queue, job, todo, announced, crashes>>

\* set_visibility writes one column with the value asked for, whatever it read.
SetVisibility(id, visible) ==
    /\ Live(id) /\ ~Locked(id)
    /\ media' = [media EXCEPT ![id].visible = visible]
    /\ UNCHANGED <<users, objects, urls, queue, req, job, todo, announced, crashes>>

\* An admin deletes an account: uploader_id is ON DELETE SET NULL.
DeleteUser(u) ==
    /\ u \in users
    /\ \A id \in MediaIds : media[id].uploader = u => ~Locked(id)
    /\ users' = users \ {u}
    /\ media' = [id \in MediaIds |->
                    IF media[id].uploader = u THEN [media[id] EXCEPT !.uploader = NoUser]
                                              ELSE media[id]]
    /\ UNCHANGED <<objects, urls, queue, req, job, todo, announced, crashes>>

-----------------------------------------------------------------------------
(* Processing: the Celery worker and the repair script share process_media. *)

\* Mutants: a message taken twice over; any row processed, whatever its status.
WorkerTakeUncounted(w, id) ==
    /\ job[w].pc = "idle"
    /\ media[id].status = "processing"
    /\ queue' = [queue EXCEPT ![id] = @ - 1]
    /\ job' = [job EXCEPT ![w] = Load(id, "fetch")]
    /\ UNCHANGED <<users, media, objects, urls, req, todo, announced, crashes>>

WorkerTakeAnyStatus(w, id) ==
    /\ job[w].pc = "idle"
    /\ queue[id] > 0
    /\ queue' = [queue EXCEPT ![id] = @ - 1]
    /\ job' = IF Live(id) THEN [job EXCEPT ![w] = Load(id, "fetch")] ELSE job
    /\ UNCHANGED <<users, media, objects, urls, req, todo, announced, crashes>>

\* A worker takes a message, which is acknowledged at once, and loads the row.
\* process_and_announce drops anything that is not PROCESSING.
WorkerTake(w, id) ==
    /\ job[w].pc = "idle"
    /\ queue[id] > 0
    /\ queue' = [queue EXCEPT ![id] = @ - 1]
    /\ job' = IF media[id].status = "processing"
                 THEN [job EXCEPT ![w] = Load(id, "fetch")] ELSE job
    /\ UNCHANGED <<users, media, objects, urls, req, todo, announced, crashes>>

\* Mutant: a storage that answers empty bytes for a missing object.
FetchOriginalUnchecked(e) ==
    /\ job[e].pc = "fetch"
    /\ job' = [job EXCEPT ![e].pc = "thumb"]
    /\ UNCHANGED <<users, media, objects, urls, queue, req, todo, announced, crashes>>

\* storage.get: a missing or unreadable original fails the item.
FetchOriginal(e) ==
    /\ job[e].pc = "fetch"
    /\ \/ /\ <<"original", job[e].row.hash>> \in objects
          /\ job' = [job EXCEPT ![e].pc = "thumb"]
       \/ /\ Faults \/ <<"original", job[e].row.hash>> \notin objects
          /\ job' = [job EXCEPT ![e].pc = "commit", ![e].status = "failed"]
    /\ UNCHANGED <<users, media, objects, urls, queue, req, todo, announced, crashes>>

\* Mutant: no except around the processing, so that a bad file kills the task.
StoreThumbnailUncaught(e) ==
    /\ job[e].pc = "thumb"
    /\ \/ /\ job' = [job EXCEPT ![e] = NoJob]
          /\ UNCHANGED objects
       \/ /\ objects' = objects \cup {<<"thumb", job[e].row.hash>>}
          /\ job' = [job EXCEPT ![e].pc = "optimized"]
    /\ UNCHANGED <<users, media, urls, queue, req, todo, announced, crashes>>

\* Decoding may fail on any file.  An image's paths are set together, after both
\* uploads; a video's one by one, and a video may have neither derivative.
StoreThumbnail(e) ==
    LET h == job[e].row.hash
        next == [job EXCEPT ![e].pc = "optimized"]
    IN  /\ job[e].pc = "thumb"
        /\ \/ /\ job' = [job EXCEPT ![e].pc = "commit", ![e].status = "failed"]
              /\ UNCHANGED objects
           \/ /\ objects' = objects \cup {<<"thumb", h>>}
              /\ job' = IF h \in Videos THEN [next EXCEPT ![e].thumb = TRUE] ELSE next
           \/ /\ h \in Videos
              /\ job' = next
              /\ UNCHANGED objects
        /\ UNCHANGED <<users, media, urls, queue, req, todo, announced, crashes>>

\* Mutant: READY is set before the paths are, and kept when the second upload fails.
StoreOptimizedReadyFirst(e) ==
    /\ job[e].pc = "optimized"
    /\ \E stored \in BOOLEAN :
          /\ objects' = IF stored THEN objects \cup {<<"optimized", job[e].row.hash>>} ELSE objects
          /\ job' = [job EXCEPT ![e].pc = "commit", ![e].status = "ready",
                                ![e].thumb = stored, ![e].optimized = stored]
    /\ UNCHANGED <<users, media, urls, queue, req, todo, announced, crashes>>

StoreOptimized(e) ==
    LET h == job[e].row.hash
        ready == [job EXCEPT ![e].pc = "commit", ![e].status = "ready"]
    IN  /\ job[e].pc = "optimized"
        /\ \/ /\ Faults
              /\ job' = [job EXCEPT ![e].pc = "commit", ![e].status = "failed"]
              /\ UNCHANGED objects
           \/ /\ objects' = objects \cup {<<"optimized", h>>}
              /\ job' = IF h \in Videos
                          THEN [ready EXCEPT ![e].optimized = TRUE]
                          ELSE [ready EXCEPT ![e].optimized = TRUE, ![e].thumb = TRUE]
           \/ /\ h \in Videos
              /\ job' = ready
              /\ UNCHANGED objects
        /\ UNCHANGED <<users, media, urls, queue, req, todo, announced, crashes>>

\* Mutant: a session that writes the whole row back.
UpdatedWhole(row, j) ==
    [j.row EXCEPT !.status = j.status, !.thumb = j.thumb, !.optimized = j.optimized]

\* What the UPDATE of a unit of work leaves in the row: the columns it changed, and
\* every other column as the table has it now.
Updated(row, j) ==
    [row EXCEPT !.status = IF j.status # j.row.status THEN j.status ELSE @,
                !.thumb = IF j.thumb # j.row.thumb THEN j.thumb ELSE @,
                !.optimized = IF j.optimized # j.row.optimized THEN j.optimized ELSE @]

\* Mutants: the row is merged back if it is gone; a failed item is announced too.
CommitJobUpsert(e) ==
    /\ job[e].pc = "commit" /\ ~Locked(job[e].id)
    /\ media' = [media EXCEPT ![job[e].id] = Updated(IF Live(job[e].id) THEN @ ELSE job[e].row, job[e])]
    /\ job' = [job EXCEPT ![e] = NoJob]
    /\ UNCHANGED <<users, objects, urls, queue, req, todo, announced, crashes>>

CommitJobAnnounceAll(e) ==
    /\ job[e].pc = "commit" /\ ~Locked(job[e].id)
    /\ media' = IF Live(job[e].id) THEN [media EXCEPT ![job[e].id] = Updated(@, job[e])] ELSE media
    /\ job' = [job EXCEPT ![e] = IF e \in Workers THEN [job[e] EXCEPT !.pc = "announce"] ELSE NoJob]
    /\ UNCHANGED <<users, objects, urls, queue, req, todo, announced, crashes>>

\* Flush and commit.  If the row is gone the UPDATE matches nothing and raises
\* StaleDataError: the task dies, the script rolls back and goes on.
CommitJob(e) ==
    /\ job[e].pc = "commit"
    /\ LET id == job[e].id
       IN  /\ ~Locked(id)
           /\ media' = IF Live(id) THEN [media EXCEPT ![id] = Updated(@, job[e])] ELSE media
           /\ job' = [job EXCEPT ![e] =
                        IF /\ e \in Workers /\ Live(id)
                           /\ job[e].status = "ready" /\ job[e].row.uploader # NoUser
                          THEN [job[e] EXCEPT !.pc = "announce"] ELSE NoJob]
    /\ UNCHANGED <<users, objects, urls, queue, req, todo, announced, crashes>>

\* activity.record: the event row references the account and the media row, so
\* either being gone makes the insert fail, which is logged and forgotten.
Announce(w) ==
    /\ job[w].pc = "announce"
    /\ LET id == job[w].id
       IN  \/ /\ job[w].row.uploader \in users /\ Live(id)
              /\ announced' = [announced EXCEPT ![id] = @ + 1]
           \/ /\ Faults \/ job[w].row.uploader \notin users \/ ~Live(id)
              /\ UNCHANGED announced
    /\ job' = [job EXCEPT ![w] = NoJob]
    /\ UNCHANGED <<users, media, objects, urls, queue, req, todo, crashes>>

-----------------------------------------------------------------------------
(* The repair script: it lists the rows that look stuck once, then works      *)
(* through the list without asking again whether they still are.              *)

ScriptScan(s) ==
    /\ job[s].pc = "unstarted"
    /\ todo' = [todo EXCEPT ![s] =
                  {id \in MediaIds : media[id].status \in {"pending", "processing", "failed"}}]
    /\ job' = [job EXCEPT ![s] = NoJob]
    /\ UNCHANGED <<users, media, objects, urls, queue, req, announced, crashes>>

\* The next row, and whether its original is stored.  A row deleted meanwhile is an
\* AttributeError outside the try: the script ends there.
ScriptLoad(s, id) ==
    /\ job[s].pc = "idle"
    /\ id \in todo[s]
    /\ \/ /\ ~Live(id)
          /\ todo' = [todo EXCEPT ![s] = {}]
          /\ UNCHANGED job
       \/ /\ Live(id)
          /\ todo' = [todo EXCEPT ![s] = @ \ {id}]
          /\ \/ /\ <<"original", media[id].hash>> \in objects
                /\ job' = [job EXCEPT ![s] = Load(id, "fetch")]
             \/ /\ Faults \/ <<"original", media[id].hash>> \notin objects
                /\ job' = [job EXCEPT ![s] = [Load(id, "markFailed") EXCEPT !.status = "failed"]]
    /\ UNCHANGED <<users, media, objects, urls, queue, req, announced, crashes>>

\* This commit is outside the try as well.
ScriptMarkFailed(s) ==
    /\ job[s].pc = "markFailed"
    /\ LET id == job[s].id
       IN  /\ ~Locked(id)
           /\ media' = IF Live(id) THEN [media EXCEPT ![id] = Updated(@, job[s])] ELSE media
           /\ todo' = IF Live(id) \/ job[s].row.status = "failed"
                        THEN todo ELSE [todo EXCEPT ![s] = {}]
    /\ job' = [job EXCEPT ![s] = NoJob]
    /\ UNCHANGED <<users, objects, urls, queue, req, announced, crashes>>

-----------------------------------------------------------------------------
(* Crashes.  Open transactions roll back; messages already taken are lost.    *)

ServerCrash ==
    /\ crashes < MaxCrashes
    /\ crashes' = crashes + 1
    /\ req' = [r \in Requests |->
                 IF req[r].pc \in {"read", "sent", "erased"}
                   THEN Ended(req[r], "error") ELSE req[r]]
    /\ UNCHANGED <<users, media, objects, urls, queue, job, todo, announced>>

ExecutorCrash(e) ==
    /\ crashes < MaxCrashes
    /\ job[e].pc \notin {"unstarted", "idle"}
    /\ crashes' = crashes + 1
    /\ job' = [job EXCEPT ![e] = NoJob]
    /\ todo' = [s \in Scripts |-> IF s = e THEN {} ELSE todo[s]]
    /\ UNCHANGED <<users, media, objects, urls, queue, req, announced>>

-----------------------------------------------------------------------------

Upload ==
    \/ \E r \in Requests, u \in Users :
          (\E h \in Hashes : InitRead(r, u, h)) \/ (\E id \in MediaIds : ConfirmRead(r, u, id))
    \/ \E h \in Hashes : ClientPut(h)

Moderation ==
    \/ \E r \in Requests, u \in Users \cup {NoUser} :
          \E ids \in SUBSET MediaIds : DeleteRead(r, u, ids)
    \/ \E id \in MediaIds, visible \in BOOLEAN : SetVisibility(id, visible)
    \/ \E u \in Users : DeleteUser(u)

Continue(r) ==
    InitInsert(r) \/ ConfirmSend(r) \/ ConfirmCommit(r) \/ DeleteObjects(r) \/ DeleteCommit(r)

Work(e) == FetchOriginal(e) \/ StoreThumbnail(e) \/ StoreOptimized(e) \/ CommitJob(e)

Worker(w) == (\E id \in MediaIds : WorkerTake(w, id)) \/ Work(w) \/ Announce(w)

Script(s) ==
    \/ ScriptScan(s)
    \/ \E id \in MediaIds : ScriptLoad(s, id)
    \/ Work(s) \/ ScriptMarkFailed(s)

Crash == ServerCrash \/ \E e \in Executors : ExecutorCrash(e)

Next ==
    \/ Upload
    \/ Moderation
    \/ \E r \in Requests : Continue(r)
    \/ \E w \in Workers : Worker(w)
    \/ \E s \in Scripts : Script(s)
    \/ Crash

Spec == Init /\ [][Next]_vars

\* The event loop runs every coroutine that can run, and a worker process that is up
\* keeps taking messages.  Clients, admins and the operator owe nothing.
FairSpec ==
    /\ Spec
    /\ \A r \in Requests : WF_vars(Continue(r))
    /\ \A w \in Workers : WF_vars(Worker(w))

-----------------------------------------------------------------------------
(* Properties.                                                                *)

\* Every variable keeps its type.
TypeOK ==
    /\ users \subseteq Users
    /\ media \in [MediaIds -> Row]
    /\ objects \subseteq Keys
    /\ urls \subseteq Hashes
    /\ queue \in [MediaIds -> Nat]
    /\ req \in [Requests -> Request]
    /\ job \in [Executors -> Job]
    /\ todo \in [Scripts -> SUBSET MediaIds]
    /\ announced \in [MediaIds -> Nat]
    /\ crashes \in Nat

\* Deduplication (FR-007): however init requests interleave between find_by_hash and
\* the INSERT, no content ever has two rows.
OneRowPerHash ==
    \A i, j \in MediaIds :
        Live(i) /\ Live(j) /\ media[i].hash = media[j].hash => i = j

\* An image guests can see has both derivative paths recorded, whichever workers and
\* scripts processed it, on whatever stale copies of the row.
ReadyImageComplete ==
    \A id \in MediaIds :
        media[id].status = "ready" /\ media[id].hash \notin Videos
            => media[id].thumb /\ media[id].optimized

\* An image is announced to the guests only once its derivatives are in the row, so
\* the refresh the announcement triggers finds it whole.
AnnouncedComplete ==
    \A id \in MediaIds :
        announced[id] > 0 /\ Live(id) /\ media[id].hash \notin Videos
            => media[id].thumb /\ media[id].optimized

\* A row is READY only with its objects stored: nothing but a delete request that
\* listed the very key ever takes one away.
ReadyIsStored ==
    \A id \in MediaIds : media[id].status = "ready" =>
        \A k \in StoredKeys(media[id]) :
            \/ k \in objects
            \/ \E r \in Requests : req[r].pc \in {"erased", "done"} /\ k \in req[r].keys

\* The late commit of a worker, a script or a confirm never brings a deleted item back.
DeletedForever ==
    [][\A id \in MediaIds : media[id].status = "deleted" => media'[id] = media[id]]_vars

\* What an admin decides about a live item survives every other writer of the row:
\* its visibility only changes in a step that changes nothing else of it, and an
\* item detached from a deleted account is never attributed to anyone again.
DecisionsSurvive ==
    [][\A id \in MediaIds : Live(id) /\ Live(id)' =>
          /\ media'[id].visible # media[id].visible => media'[id].status = media[id].status
          /\ media[id].uploader = NoUser => media'[id].uploader = NoUser]_vars

\* A row disappears only in the request of its uploader or of an admin (FR-039);
\* the uploader's account may be gone by the time the request commits.
OnlyOwnerOrAdminDeletes ==
    [][\A id \in MediaIds : Live(id) /\ ~Live(id)' =>
          \E r \in Requests :
             /\ id \in req[r].ids /\ req[r].pc # "done" /\ req'[r].pc = "done"
             /\ req[r].user \in {NoUser, media[id].uploader} \/ media[id].uploader = NoUser]_vars

\* A message that finds its row PROCESSING is enough: while no process crashes, the
\* item is finished, one way or the other, whatever goes wrong with its content.
QueuedIsResolved ==
    \A id \in MediaIds :
        (media[id].status = "processing" /\ queue[id] > 0) ~> (media[id].status # "processing")

\* What the comment in workers/media_processing.py says of the worker ("must never
\* strand an upload"): no item stays PROCESSING.
NeverStranded ==
    \A id \in MediaIds :
        (media[id].status = "processing") ~> (media[id].status # "processing")

\* "In-progress files report failure and can be retried" (spec.md, edge cases): a guest
\* is not told "duplicate" about their own upload when nothing of it is stored.
LostUploadCanBeRetried ==
    [][\A r \in Requests :
          req'[r].reply = "duplicate" /\ req[r].reply # "duplicate" =>
            ~\E id \in MediaIds :
                /\ media[id].status \in {"pending", "failed"}
                /\ media[id].hash = req'[r].hash /\ media[id].uploader = req'[r].user
                /\ <<"original", media[id].hash>> \notin objects]_vars

\* The pipeline implements the life of an item that MediaLifecycle promises, for clients
\* that confirm an item once and while no repair script runs.
Lifecycle == INSTANCE MediaLifecycle
    WITH stage <- [id \in MediaIds |-> media[id].status],
         content <- [id \in MediaIds |-> media[id].hash]

ImplementsLifecycle == Lifecycle!Spec
=============================================================================
