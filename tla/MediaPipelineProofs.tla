------------------------ MODULE MediaPipelineProofs ------------------------
(* Theorems about MediaPipeline, for every value of its constants.          *)
EXTENDS MediaPipeline, FiniteSetTheorems, TLAPS

\* TypeOK strengthened so that it is inductive: whatever names an object key has a
\* hash to name it with.
MediaOK ==
    /\ media \in [MediaIds -> Row]
    /\ \A id \in MediaIds : Live(id) => media[id].hash \in Hashes

ReqOK ==
    /\ req \in [Requests -> Request]
    /\ \A r \in Requests : req[r].op = "init" /\ req[r].pc = "read"
            => req[r].hash \in Hashes /\ req[r].user \in Users
    /\ \A r \in Requests : req[r].op = "confirm"
            => \A i, j \in req[r].ids : i = j

Working(e) == job[e].pc \notin {"unstarted", "idle"}

JobOK ==
    /\ job \in [Executors -> Job]
    /\ \A e \in Executors : Working(e) =>
          job[e].id \in MediaIds /\ job[e].row.hash \in Hashes /\ job[e].status \in LiveStatus

\* An UPDATE holds its lock on a row that is there.
LockOK == \A r \in Requests, id \in MediaIds : HoldsLock(r, id) => Live(id)

RestOK ==
    /\ users \subseteq Users
    /\ objects \subseteq Keys
    /\ urls \subseteq Hashes
    /\ queue \in [MediaIds -> Nat]
    /\ todo \in [Scripts -> SUBSET MediaIds]
    /\ announced \in [MediaIds -> Nat]
    /\ crashes \in Nat

TInv == MediaOK /\ ReqOK /\ LockOK /\ JobOK /\ RestOK

LEMMA AbsentIsRow == ASSUME NEW s \in Status PROVE Absent(s) \in Row
  BY DEF Absent, Row

LEMMA StoredKeysAreKeys ==
  ASSUME NEW row \in Row, row.hash \in Hashes PROVE StoredKeys(row) \in SUBSET Keys
  BY DEF StoredKeys, Row, Keys

LEMMA OpenedRequest ==
  ASSUME NEW op \in {"init", "confirm", "delete"}, NEW u \in Users \cup {NoUser},
         NEW h \in Hashes \cup {NoHash}, NEW ids \in SUBSET MediaIds, NEW was \in Status,
         NEW keys \in SUBSET Keys, NEW refusal \in {"none", "duplicate", "missing"}
  PROVE  LET q == Opened(op, u, h, ids, was, keys, refusal)
         IN  /\ q \in Request
             /\ q.op = op /\ q.user = u /\ q.hash = h /\ q.ids = ids /\ q.pc \in {"read", "done"}
  BY DEF Opened, Request

LEMMA EndedRequest ==
  ASSUME NEW q \in Request, NEW reply \in {"none", "ok", "duplicate", "missing", "error"}
  PROVE  Ended(q, reply) \in Request /\ Ended(q, reply).pc = "done"
         /\ Ended(q, reply).op = q.op /\ Ended(q, reply).ids = q.ids
  BY DEF Ended, Request

LEMMA UpdatedIsRow ==
  ASSUME NEW row \in Row, NEW j \in Job
  PROVE  Updated(row, j) \in Row /\ Updated(row, j).hash = row.hash
         /\ (row.status \in LiveStatus /\ j.status \in LiveStatus => Updated(row, j).status \in LiveStatus)
  BY DEF Updated, Row, Job

LEMMA NoJobIsJob == NoJob \in Job
  BY AbsentIsRow DEF NoJob, Job, Status

LEMMA LoadIsJob ==
  ASSUME MediaOK, NEW id \in MediaIds, NEW pc \in {"fetch", "markFailed"}
  PROVE  Load(id, pc) \in Job
  BY DEF Load, Job, MediaOK, Row, Status, LiveStatus

LEMMA TypeInit == Init => TInv
<1> SUFFICES ASSUME Init PROVE TInv
  OBVIOUS
<1>1. MediaOK
  BY AbsentIsRow DEF Init, MediaOK, Live, Absent, Status, LiveStatus
<1>2. ReqOK
  BY DEF Init, NewRequest, Request, ReqOK, Status
<1>3. JobOK
  BY NoJobIsJob DEF Init, NoJob, Job, JobOK, Working
<1>5. LockOK
  BY DEF Init, LockOK, HoldsLock, NewRequest
<1>4. RestOK
  BY DEF Init, RestOK
<1> QED
  BY <1>1, <1>2, <1>3, <1>4, <1>5 DEF TInv

LEMMA TypeStep == TInv /\ [Next]_vars => TInv'
<1> SUFFICES ASSUME MediaOK, ReqOK, LockOK, JobOK, RestOK, [Next]_vars PROVE TInv'
  BY DEF TInv
<1> USE ConstantsAssumption
<1>1. ASSUME NEW r \in Requests, NEW u \in Users, NEW h \in Hashes, InitRead(r, u, h)
       PROVE  TInv'
  <2>1. ReqOK'
    BY <1>1, OpenedRequest DEF InitRead, ReqOK, Status
  <2>2. LockOK'
    BY <1>1, OpenedRequest DEF InitRead, LockOK, HoldsLock, Live, ReqOK, Status, MediaOK, Row
  <2> QED
    BY <1>1, <2>1, <2>2
    DEF InitRead, TInv, MediaOK, Live, JobOK, Working, RestOK
<1>2. ASSUME NEW r \in Requests, InitInsert(r)
       PROVE  TInv'
  <2>1. MediaOK'
    <3> DEFINE new == [Absent("pending") EXCEPT !.hash = req[r].hash, !.visible = TRUE,
                                                !.uploader = req[r].user]
    <3>1. req[r].hash \in Hashes /\ req[r].user \in Users
      BY <1>2 DEF InitInsert, ReqOK
    <3>2. new \in Row /\ new.hash \in Hashes
      BY <3>1 DEF Absent, Row, Status, LiveStatus
    <3>3. \/ UNCHANGED media
          \/ \E id \in MediaIds : media' = [media EXCEPT ![id] = new]
      BY <1>2 DEF InitInsert
    <3> HIDE DEF new
    <3> QED
      BY <3>2, <3>3 DEF MediaOK, Live
  <2>2. ReqOK'
    BY <1>2, EndedRequest DEF InitInsert, ReqOK, Finish
  <2>3. LockOK'
    BY <1>2, EndedRequest DEF InitInsert, LockOK, HoldsLock, Live, Finish, ReqOK, MediaOK, Row, Status, LiveStatus, Absent
  <2>4. RestOK'
    BY <1>2 DEF InitInsert, RestOK, ReqOK
  <2> QED
    BY <1>2, <2>1, <2>2, <2>3, <2>4
    DEF InitInsert, TInv, JobOK, Working
<1>3. ASSUME NEW h \in Hashes, ClientPut(h)
       PROVE  TInv'
  <2>1. RestOK'
    BY <1>3 DEF ClientPut, RestOK, Keys
  <2> QED
    BY <1>3, <2>1
    DEF ClientPut, TInv, MediaOK, Live, ReqOK, LockOK, HoldsLock, Live, JobOK, Working
<1>4. ASSUME NEW r \in Requests, NEW u \in Users, NEW id \in MediaIds, ConfirmRead(r, u, id)
       PROVE  TInv'
  <2>1. ReqOK'
    BY <1>4, OpenedRequest DEF ConfirmRead, ReqOK, MediaOK, Row, Status
  <2>2. LockOK'
    BY <1>4, OpenedRequest DEF ConfirmRead, LockOK, HoldsLock, Live, ReqOK, Status, MediaOK, Row
  <2> QED
    BY <1>4, <2>1, <2>2
    DEF ConfirmRead, TInv, MediaOK, Live, JobOK, Working, RestOK
<1>5. ASSUME NEW r \in Requests, ConfirmSend(r)
       PROVE  TInv'
  <2>1. ReqOK'
    BY <1>5, EndedRequest DEF ConfirmSend, ReqOK, Finish, Request
  <2>2. LockOK'
    <3>1. CASE req' = [req EXCEPT ![r].pc = "sent"]
      <4>1. req[r].was = "processing" \/ \A id \in req[r].ids : Live(id)
        <5>1. ~Finish(r, "error")
          BY <3>1, EndedRequest DEF Finish, ReqOK, Request
        <5> QED
          BY <1>5, <5>1 DEF ConfirmSend, ReqOK
      <4> QED
        BY <1>5, <3>1, <4>1 DEF ConfirmSend, LockOK, HoldsLock, Live, ReqOK, Request
    <3>2. CASE Finish(r, "error")
      BY <1>5, <3>2, EndedRequest DEF ConfirmSend, Finish, LockOK, HoldsLock, Live, ReqOK
    <3> QED
      BY <1>5, <3>1, <3>2 DEF ConfirmSend
  <2>3. RestOK'
    BY <1>5 DEF ConfirmSend, RestOK, ReqOK, Request
  <2> QED
    BY <1>5, <2>1, <2>2, <2>3
    DEF ConfirmSend, TInv, MediaOK, Live, JobOK, Working
<1>6. ASSUME NEW r \in Requests, ConfirmCommit(r)
       PROVE  TInv'
  <2>1. MediaOK'
    BY <1>6 DEF ConfirmCommit, MediaOK, Live, LockOK, Row, Status, LiveStatus
  <2>2. ReqOK'
    BY <1>6, EndedRequest DEF ConfirmCommit, ReqOK, Finish
  <2>3. LockOK'
    BY <1>6, EndedRequest DEF ConfirmCommit, LockOK, HoldsLock, Live, Finish, ReqOK, MediaOK, Row, Status, LiveStatus, Absent
  <2> QED
    BY <1>6, <2>1, <2>2, <2>3
    DEF ConfirmCommit, TInv, JobOK, Working, RestOK
<1>7. ASSUME NEW r \in Requests, NEW u \in Users \cup {NoUser}, NEW ids \in SUBSET MediaIds, DeleteRead(r, u, ids)
       PROVE  TInv'
  <2>1. ReqOK'
    BY <1>7, StoredKeysAreKeys, OpenedRequest DEF DeleteRead, ReqOK, MediaOK, Status
  <2>2. LockOK'
    BY <1>7 DEF DeleteRead, Opened, LockOK, HoldsLock, Live, ReqOK
  <2> QED
    BY <1>7, <2>1, <2>2
    DEF DeleteRead, TInv, MediaOK, Live, JobOK, Working, RestOK
<1>8. ASSUME NEW r \in Requests, DeleteObjects(r)
       PROVE  TInv'
  <2>1. ReqOK'
    BY <1>8 DEF DeleteObjects, ReqOK, Request
  <2>2. LockOK'
    BY <1>8 DEF DeleteObjects, LockOK, HoldsLock, Live, ReqOK
  <2>3. RestOK'
    BY <1>8 DEF DeleteObjects, RestOK
  <2> QED
    BY <1>8, <2>1, <2>2, <2>3
    DEF DeleteObjects, TInv, MediaOK, Live, JobOK, Working
<1>9. ASSUME NEW r \in Requests, DeleteCommit(r)
       PROVE  TInv'
  <2>1. MediaOK'
    BY <1>9, AbsentIsRow DEF DeleteCommit, MediaOK, Live, Absent, Status, LiveStatus
  <2>2. ReqOK'
    BY <1>9, EndedRequest DEF DeleteCommit, ReqOK, Finish
  <2>3. LockOK'
    BY <1>9, EndedRequest DEF DeleteCommit, LockOK, HoldsLock, Live, Locked, Finish, ReqOK, MediaOK, Row, Status, LiveStatus, Absent
  <2> QED
    BY <1>9, <2>1, <2>2, <2>3
    DEF DeleteCommit, TInv, JobOK, Working, RestOK
<1>10. ASSUME NEW id \in MediaIds, NEW visible \in BOOLEAN, SetVisibility(id, visible)
       PROVE  TInv'
  <2>1. MediaOK'
    BY <1>10 DEF SetVisibility, MediaOK, Live, Row
  <2>2. LockOK'
    BY <1>10 DEF SetVisibility, LockOK, HoldsLock, Live, MediaOK, Row, ReqOK
  <2> QED
    BY <1>10, <2>1, <2>2
    DEF SetVisibility, TInv, ReqOK, JobOK, Working, RestOK
<1>11. ASSUME NEW u \in Users, DeleteUser(u)
       PROVE  TInv'
  <2>1. MediaOK'
    BY <1>11 DEF DeleteUser, MediaOK, Live, Row
  <2>2. LockOK'
    BY <1>11 DEF DeleteUser, LockOK, HoldsLock, Live, MediaOK, Row, ReqOK
  <2>3. RestOK'
    BY <1>11 DEF DeleteUser, RestOK
  <2> QED
    BY <1>11, <2>1, <2>2, <2>3
    DEF DeleteUser, TInv, ReqOK, JobOK, Working
<1>12. ASSUME NEW w \in Workers, NEW id \in MediaIds, WorkerTake(w, id)
       PROVE  TInv'
  <2>1. JobOK'
    BY <1>12, LoadIsJob DEF WorkerTake, JobOK, Working, Load, MediaOK, Live, LiveStatus, Executors
  <2>2. RestOK'
    BY <1>12 DEF WorkerTake, RestOK
  <2> QED
    BY <1>12, <2>1, <2>2
    DEF WorkerTake, TInv, MediaOK, Live, ReqOK, LockOK, HoldsLock, Live
<1>13. ASSUME NEW e \in Executors, FetchOriginal(e)
       PROVE  TInv'
  <2>1. JobOK'
    BY <1>13 DEF FetchOriginal, JobOK, Working, Job, Status, LiveStatus
  <2> QED
    BY <1>13, <2>1
    DEF FetchOriginal, TInv, MediaOK, Live, ReqOK, LockOK, HoldsLock, Live, RestOK
<1>14. ASSUME NEW e \in Executors, StoreThumbnail(e)
       PROVE  TInv'
  <2>1. JobOK'
    BY <1>14 DEF StoreThumbnail, JobOK, Working, Job, Status, LiveStatus
  <2>2. RestOK'
    BY <1>14 DEF StoreThumbnail, RestOK, JobOK, Working, Keys
  <2> QED
    BY <1>14, <2>1, <2>2
    DEF StoreThumbnail, TInv, MediaOK, Live, ReqOK, LockOK, HoldsLock, Live
<1>15. ASSUME NEW e \in Executors, StoreOptimized(e)
       PROVE  TInv'
  <2>1. JobOK'
    BY <1>15 DEF StoreOptimized, JobOK, Working, Job, Status, LiveStatus
  <2>2. RestOK'
    BY <1>15 DEF StoreOptimized, RestOK, JobOK, Working, Keys
  <2> QED
    BY <1>15, <2>1, <2>2
    DEF StoreOptimized, TInv, MediaOK, Live, ReqOK, LockOK, HoldsLock, Live
<1>16. ASSUME NEW e \in Executors, CommitJob(e)
       PROVE  TInv'
  <2>1. MediaOK'
    BY <1>16, UpdatedIsRow DEF CommitJob, MediaOK, Live, JobOK, Working, Job
  <2>2. LockOK'
    BY <1>16, UpdatedIsRow DEF CommitJob, LockOK, HoldsLock, Live, MediaOK, JobOK, Working, Job, Executors
  <2>3. JobOK'
    BY <1>16, NoJobIsJob DEF CommitJob, JobOK, Working, Job, NoJob
  <2> QED
    BY <1>16, <2>1, <2>2, <2>3
    DEF CommitJob, TInv, ReqOK, RestOK
<1>17. ASSUME NEW w \in Workers, Announce(w)
       PROVE  TInv'
  <2>1. JobOK'
    BY <1>17, NoJobIsJob DEF Announce, JobOK, Working, NoJob, Executors
  <2>2. RestOK'
    BY <1>17 DEF Announce, RestOK
  <2> QED
    BY <1>17, <2>1, <2>2
    DEF Announce, TInv, MediaOK, Live, ReqOK, LockOK, HoldsLock, Live
<1>18. ASSUME NEW s \in Scripts, ScriptScan(s)
       PROVE  TInv'
  <2>1. JobOK'
    BY <1>18, NoJobIsJob DEF ScriptScan, JobOK, Working, NoJob, Executors
  <2>2. RestOK'
    BY <1>18 DEF ScriptScan, RestOK
  <2> QED
    BY <1>18, <2>1, <2>2
    DEF ScriptScan, TInv, MediaOK, Live, ReqOK, LockOK, HoldsLock, Live
<1>19. ASSUME NEW s \in Scripts, NEW id \in MediaIds, ScriptLoad(s, id)
       PROVE  TInv'
  <2>1. JobOK'
    BY <1>19, LoadIsJob DEF ScriptLoad, JobOK, Working, Load, Job, MediaOK, Live, Executors, Status, LiveStatus
  <2>2. RestOK'
    BY <1>19 DEF ScriptLoad, RestOK
  <2> QED
    BY <1>19, <2>1, <2>2
    DEF ScriptLoad, TInv, MediaOK, Live, ReqOK, LockOK, HoldsLock, Live
<1>20. ASSUME NEW s \in Scripts, ScriptMarkFailed(s)
       PROVE  TInv'
  <2>1. MediaOK'
    BY <1>20, UpdatedIsRow DEF ScriptMarkFailed, MediaOK, Live, JobOK, Working, Job, Executors
  <2>2. LockOK'
    BY <1>20, UpdatedIsRow DEF ScriptMarkFailed, LockOK, HoldsLock, Live, MediaOK, JobOK, Working, Job, Executors
  <2>3. JobOK'
    BY <1>20, NoJobIsJob DEF ScriptMarkFailed, JobOK, Working, NoJob, Executors
  <2>4. RestOK'
    BY <1>20 DEF ScriptMarkFailed, RestOK
  <2> QED
    BY <1>20, <2>1, <2>2, <2>3, <2>4
    DEF ScriptMarkFailed, TInv, ReqOK
<1>21. ASSUME ServerCrash
       PROVE  TInv'
  <2>1. ReqOK'
    BY <1>21, EndedRequest DEF ServerCrash, ReqOK
  <2>2. LockOK'
    BY <1>21, EndedRequest DEF ServerCrash, LockOK, HoldsLock, Live, Finish, ReqOK, MediaOK, Row, Status, LiveStatus, Absent
  <2>3. RestOK'
    BY <1>21 DEF ServerCrash, RestOK
  <2> QED
    BY <1>21, <2>1, <2>2, <2>3
    DEF ServerCrash, TInv, MediaOK, Live, JobOK, Working
<1>22. ASSUME NEW e \in Executors, ExecutorCrash(e)
       PROVE  TInv'
  <2>1. JobOK'
    BY <1>22, NoJobIsJob DEF ExecutorCrash, JobOK, Working, NoJob
  <2>2. RestOK'
    BY <1>22 DEF ExecutorCrash, RestOK
  <2> QED
    BY <1>22, <2>1, <2>2
    DEF ExecutorCrash, TInv, MediaOK, Live, ReqOK, LockOK, HoldsLock, Live
<1>23. CASE UNCHANGED vars
  BY <1>23 DEF vars, TInv, MediaOK, Live, ReqOK, LockOK, HoldsLock, Live, JobOK, Working, RestOK
<1> QED
  BY <1>1, <1>2, <1>3, <1>4, <1>5, <1>6, <1>7, <1>8, <1>9, <1>10, <1>11, <1>12, <1>13, <1>14, <1>15, <1>16, <1>17, <1>18, <1>19, <1>20, <1>21, <1>22, <1>23
  DEF Next, Upload, Moderation, Continue, Worker, Script, Work, Crash, Executors

\* Type correctness: every variable keeps its type in every reachable state.
THEOREM TypeCorrect == Spec => []TypeOK
<1>1. TInv => TypeOK
  BY DEF TInv, MediaOK, ReqOK, JobOK, RestOK, TypeOK
<1> QED
  BY TypeInit, TypeStep, <1>1, PTL DEF Spec

-----------------------------------------------------------------------------
(* What a unit of work believes about its row, and what stays true of a row    *)
(* that other actors write in the meantime.                                   *)

\* The row a unit of work loaded is the row it will write, unless it is deleted: ids
\* are not reused, the content of a row never changes, recorded paths stay recorded.
Agrees(e) ==
    LET j == job[e] IN
    /\ j.row.thumb => j.thumb
    /\ j.row.optimized => j.optimized
    /\ j.status = "ready" /\ j.row.hash \notin Videos => j.thumb /\ j.optimized
    /\ j.pc = "markFailed" => j.status = "failed"
    /\ \/ media[j.id].status = "deleted"
       \/ /\ Live(j.id)
          /\ media[j.id].hash = j.row.hash
          /\ j.row.thumb => media[j.id].thumb
          /\ j.row.optimized => media[j.id].optimized
          /\ j.pc = "announce" /\ j.row.hash \notin Videos
                => media[j.id].thumb /\ media[j.id].optimized

JobsAgree == \A e \in Executors : Working(e) => Agrees(e)

Buried == \A id \in MediaIds : media[id].status = "deleted" => media[id] = Absent("deleted")

AnnouncedExisted == \A id \in MediaIds : announced[id] > 0 => media[id].status # "unused"

IInv == /\ TInv /\ JobsAgree /\ Buried /\ AnnouncedExisted
        /\ ReadyImageComplete /\ AnnouncedComplete /\ OneRowPerHash

\* How a step may change a row.
Evolves(id) ==
    /\ media[id].status = "deleted" => media'[id] = media[id]
    /\ media'[id].status = "deleted" => media'[id] = Absent("deleted")
    /\ media'[id].status = "unused" => media[id].status = "unused"
    /\ Live(id)' /\ media[id].status # "unused" =>
          /\ Live(id)
          /\ media'[id].hash = media[id].hash
          /\ media[id].thumb => media'[id].thumb
          /\ media[id].optimized => media'[id].optimized

\* The only steps that write the media table, and the only ones that move a job.
LEMMA MediaWriters ==
  ASSUME [Next]_vars
  PROVE  \/ UNCHANGED media
         \/ \E r \in Requests : InitInsert(r) \/ ConfirmCommit(r) \/ DeleteCommit(r)
         \/ \E id \in MediaIds, visible \in BOOLEAN : SetVisibility(id, visible)
         \/ \E u \in Users : DeleteUser(u)
         \/ \E e \in Executors : CommitJob(e)
         \/ \E s \in Scripts : ScriptMarkFailed(s)
<1> USE DEF Executors
<1>1. CASE Upload
  BY <1>1 DEF Upload, InitRead, ConfirmRead, ClientPut
<1>2. CASE Moderation
  BY <1>2 DEF Moderation, DeleteRead
<1>3. ASSUME NEW r \in Requests, Continue(r)
      PROVE  UNCHANGED media \/ InitInsert(r) \/ ConfirmCommit(r) \/ DeleteCommit(r)
  BY <1>3 DEF Continue, ConfirmSend, DeleteObjects
<1>4. ASSUME NEW e \in Executors, Work(e) PROVE UNCHANGED media \/ CommitJob(e)
  BY <1>4 DEF Work, FetchOriginal, StoreThumbnail, StoreOptimized
<1>5. ASSUME NEW w \in Workers, Worker(w) PROVE UNCHANGED media \/ CommitJob(w)
  BY <1>4, <1>5 DEF Worker, WorkerTake, Announce
<1>6. ASSUME NEW s \in Scripts, Script(s)
      PROVE  UNCHANGED media \/ CommitJob(s) \/ ScriptMarkFailed(s)
  BY <1>4, <1>6 DEF Script, ScriptScan, ScriptLoad
<1>7. CASE Crash
  BY <1>7 DEF Crash, ServerCrash, ExecutorCrash
<1>8. CASE UNCHANGED vars
  BY <1>8 DEF vars
<1> QED
  BY <1>1, <1>2, <1>3, <1>5, <1>6, <1>7, <1>8 DEF Next

\* The columns an UPDATE leaves, for a unit of work that unsets no path.
LEMMA UpdatedColumns ==
  ASSUME NEW row \in Row, NEW j \in Job,
         j.row.thumb => j.thumb, j.row.optimized => j.optimized
  PROVE  /\ row.thumb => Updated(row, j).thumb
         /\ row.optimized => Updated(row, j).optimized
         /\ j.thumb /\ (j.row.thumb => row.thumb) => Updated(row, j).thumb
         /\ j.optimized /\ (j.row.optimized => row.optimized) => Updated(row, j).optimized
         /\ Updated(row, j).status \in {row.status, j.status}
  BY DEF Updated, Row, Job

LEMMA RowsEvolve ==
  ASSUME TInv, TInv', JobsAgree, Buried, [Next]_vars, NEW id \in MediaIds
  PROVE  Evolves(id)
<1> USE DEF TInv
<1>1. CASE UNCHANGED media
  BY <1>1 DEF Evolves, Buried, Live, MediaOK
<1>2. ASSUME NEW r \in Requests, InitInsert(r) PROVE Evolves(id)
  BY <1>2 DEF InitInsert, Evolves, Buried, Live, MediaOK, Absent, Row, Status, LiveStatus
<1>3. ASSUME NEW r \in Requests, ConfirmCommit(r) PROVE Evolves(id)
  BY <1>3 DEF ConfirmCommit, Evolves, Buried, Live, MediaOK, LockOK, Row, LiveStatus
<1>4. ASSUME NEW r \in Requests, DeleteCommit(r) PROVE Evolves(id)
  BY <1>4 DEF DeleteCommit, Evolves, Buried, Live, MediaOK, Absent, LiveStatus
<1>5. ASSUME NEW i \in MediaIds, NEW visible \in BOOLEAN, SetVisibility(i, visible)
      PROVE  Evolves(id)
  BY <1>5 DEF SetVisibility, Evolves, Buried, Live, MediaOK, Row, LiveStatus
<1>6. ASSUME NEW u \in Users, DeleteUser(u) PROVE Evolves(id)
  <2>1. media[id].status = "deleted" => media[id].uploader # u
    BY <1>6, ConstantsAssumption DEF Buried, Absent
  <2>2. media'[id] = IF media[id].uploader = u THEN [media[id] EXCEPT !.uploader = NoUser]
                                               ELSE media[id]
    BY <1>6 DEF DeleteUser
  <2> QED
    BY <2>1, <2>2 DEF Evolves, Buried, Live, MediaOK, Row, LiveStatus
<1>7. ASSUME NEW e \in Executors, Working(e), Live(job[e].id),
             media' = [media EXCEPT ![job[e].id] = Updated(media[job[e].id], job[e])]
      PROVE  Evolves(id)
  <2>1. job[e] \in Job /\ job[e].id \in MediaIds /\ job[e].status \in LiveStatus /\ Agrees(e)
    BY <1>7 DEF JobOK, JobsAgree
  <2>2. media[job[e].id] \in Row /\ Live(job[e].id)
    BY <1>7, <2>1 DEF MediaOK
  <2> QED
    BY <1>7, <2>1, <2>2, UpdatedIsRow, UpdatedColumns
    DEF Evolves, Buried, Live, MediaOK, Agrees, LiveStatus
<1>8. ASSUME NEW e \in Executors, CommitJob(e) PROVE Evolves(id)
  BY <1>1, <1>7, <1>8 DEF CommitJob, Working
<1>9. ASSUME NEW s \in Scripts, ScriptMarkFailed(s) PROVE Evolves(id)
  BY <1>1, <1>7, <1>9 DEF ScriptMarkFailed, Working, Executors
<1> QED
  BY <1>1, <1>2, <1>3, <1>4, <1>5, <1>6, <1>8, <1>9, MediaWriters

\* Steps that move the job of one executor only, given what each of them leaves.
LEMMA JobWriters ==
  ASSUME [Next]_vars
  PROVE  \/ UNCHANGED job
         \/ \E w \in Workers, id \in MediaIds : WorkerTake(w, id)
         \/ \E e \in Executors : FetchOriginal(e) \/ StoreThumbnail(e) \/ StoreOptimized(e)
                                   \/ CommitJob(e) \/ ExecutorCrash(e)
         \/ \E w \in Workers : Announce(w)
         \/ \E s \in Scripts : ScriptScan(s) \/ ScriptMarkFailed(s)
         \/ \E s \in Scripts, id \in MediaIds : ScriptLoad(s, id)
<1> USE DEF Executors
<1>1. CASE Upload
  BY <1>1 DEF Upload, InitRead, ConfirmRead, ClientPut
<1>2. CASE Moderation
  BY <1>2 DEF Moderation, DeleteRead, SetVisibility, DeleteUser
<1>3. ASSUME NEW r \in Requests, Continue(r) PROVE UNCHANGED job
  BY <1>3 DEF Continue, InitInsert, ConfirmSend, ConfirmCommit, DeleteObjects, DeleteCommit
<1> QED
  BY <1>1, <1>2, <1>3 DEF Next, Worker, Script, Work, Crash, ServerCrash, vars

\* What a unit of work knows about its row outlives any step that leaves its job alone.
LEMMA AgreementKept ==
  ASSUME TInv, TInv', JobsAgree, NEW e \in Executors, Working(e), job'[e] = job[e],
         Evolves(job[e].id)
  PROVE  Agrees(e)'
<1> DEFINE id == job[e].id
<1>1. Agrees(e) /\ id \in MediaIds
  BY DEF JobsAgree, TInv, JobOK
<1>2. CASE media[id].status = "deleted"
  BY <1>1, <1>2 DEF Agrees, Evolves
<1>3. CASE Live(id) /\ media'[id].status = "deleted"
  BY <1>1, <1>3 DEF Agrees
<1>4. CASE Live(id) /\ Live(id)'
  BY <1>1, <1>4 DEF Agrees, Evolves, Live, LiveStatus
<1>5. media[id].status = "deleted" \/ Live(id)
  BY <1>1 DEF Agrees
<1>6. Live(id) => media'[id].status \in Status /\ media'[id].status # "unused"
  BY <1>1 DEF Evolves, Live, LiveStatus, TInv, MediaOK, Row
<1> QED
  BY <1>1, <1>2, <1>3, <1>4, <1>5, <1>6 DEF Live, Status, LiveStatus

\* A row just loaded agrees with the unit of work that loaded it.
LEMMA AgreementLoaded ==
  ASSUME TInv, NEW e \in Executors, NEW id \in MediaIds, Live(id), UNCHANGED media,
         NEW pc \in {"fetch", "markFailed"},
         \/ job'[e] = Load(id, pc) /\ pc = "fetch"
         \/ job'[e] = [Load(id, pc) EXCEPT !.status = "failed"]
  PROVE  Agrees(e)'
  BY DEF Load, Agrees, Live

LEMMA JobsStep ==
  ASSUME TInv, TInv', JobsAgree, Buried, [Next]_vars PROVE JobsAgree'
<1>1. \A id \in MediaIds : Evolves(id)
  BY RowsEvolve
<1>2. ASSUME NEW e \in Executors, Working(e)', job'[e] = job[e] PROVE Agrees(e)'
  <2>1. Working(e) /\ job[e].id \in MediaIds
    BY <1>2 DEF Working, TInv, JobOK
  <2> QED
    BY <1>1, <1>2, <2>1, AgreementKept
<1> SUFFICES ASSUME NEW e \in Executors, Working(e)', job'[e] # job[e] PROVE Agrees(e)'
  BY <1>2 DEF JobsAgree
<1> USE DEF TInv
<1>3. ASSUME NEW w \in Workers, NEW id \in MediaIds, WorkerTake(w, id) PROVE Agrees(e)'
  <2>1. w = e /\ Live(id) /\ UNCHANGED media /\ job'[e] = Load(id, "fetch")
    BY <1>3 DEF WorkerTake, JobOK, Executors, Live, LiveStatus
  <2> QED
    BY <2>1, AgreementLoaded
<1>4. ASSUME NEW s \in Scripts, NEW id \in MediaIds, ScriptLoad(s, id) PROVE Agrees(e)'
  <2>1. /\ s = e /\ Live(id) /\ UNCHANGED media
        /\ \/ job'[e] = Load(id, "fetch")
           \/ job'[e] = [Load(id, "markFailed") EXCEPT !.status = "failed"]
    BY <1>4 DEF ScriptLoad, JobOK, Executors
  <2> QED
    BY <2>1, AgreementLoaded
<1>5. ASSUME NEW d \in Executors, FetchOriginal(d) \/ StoreThumbnail(d) \/ StoreOptimized(d)
      PROVE  Agrees(e)'
  <2>1. d = e
    BY <1>5 DEF FetchOriginal, StoreThumbnail, StoreOptimized, JobOK
  <2>2. Working(e) /\ Agrees(e) /\ job[e] \in Job /\ UNCHANGED media
    BY <1>5, <2>1 DEF FetchOriginal, StoreThumbnail, StoreOptimized, Working, JobsAgree, JobOK
  <2>3. CASE FetchOriginal(e)
    BY <2>2, <2>3 DEF FetchOriginal, Agrees, Live, Job, JobOK
  <2>4. CASE StoreThumbnail(e)
    BY <2>2, <2>4 DEF StoreThumbnail, Agrees, Live, Job, JobOK
  <2>5. CASE StoreOptimized(e)
    BY <2>2, <2>5 DEF StoreOptimized, Agrees, Live, Job, JobOK
  <2> QED
    BY <1>5, <2>1, <2>3, <2>4, <2>5
<1>6. ASSUME NEW d \in Executors, CommitJob(d) PROVE Agrees(e)'
  <2> DEFINE id == job[e].id
  <2>1. d = e /\ Working(e) /\ Agrees(e) /\ job[e] \in Job /\ id \in MediaIds
    BY <1>6 DEF CommitJob, Working, JobsAgree, JobOK
  <2>2. /\ Live(id) /\ media[id] \in Row /\ job[e].status = "ready"
        /\ media' = [media EXCEPT ![id] = Updated(media[id], job[e])]
        /\ job'[e] = [job[e] EXCEPT !.pc = "announce"]
    BY <1>6, <2>1 DEF CommitJob, JobOK, MediaOK, Working, NoJob
  <2>3. media'[id] = Updated(media[id], job[e])
    BY <2>1, <2>2 DEF MediaOK
  <2> QED
    BY <2>1, <2>2, <2>3, UpdatedIsRow, UpdatedColumns DEF Agrees, Live, LiveStatus, Job
<1>7. ASSUME NEW d \in Executors, \/ Announce(d) \/ ExecutorCrash(d)
                                  \/ ScriptScan(d) \/ ScriptMarkFailed(d)
      PROVE  FALSE
  BY <1>7 DEF Announce, ExecutorCrash, ScriptScan, ScriptMarkFailed, Working, NoJob, JobOK
<1> QED
  BY <1>3, <1>4, <1>5, <1>6, <1>7, JobWriters DEF Executors

-----------------------------------------------------------------------------
(* The invariants the runs check, preserved by every step.                    *)

LEMMA ReadyStep ==
  ASSUME TInv, TInv', JobsAgree, Buried, ReadyImageComplete, [Next]_vars
  PROVE  ReadyImageComplete'
<1> USE DEF TInv
<1> SUFFICES ASSUME NEW id \in MediaIds, media'[id].status = "ready", media'[id].hash \notin Videos
             PROVE  media'[id].thumb /\ media'[id].optimized
  BY DEF ReadyImageComplete
<1>1. Evolves(id)
  BY RowsEvolve
<1>2. CASE media[id].status = "ready"
  BY <1>1, <1>2 DEF Evolves, Live, LiveStatus, ReadyImageComplete
<1>3. ASSUME NEW e \in Executors, Working(e), Live(job[e].id), media[id].status # "ready",
             media' = [media EXCEPT ![job[e].id] = Updated(media[job[e].id], job[e])]
      PROVE  media'[id].thumb /\ media'[id].optimized
  <2>1. job[e] \in Job /\ job[e].id \in MediaIds /\ Agrees(e)
    BY <1>3 DEF JobOK, JobsAgree
  <2>2. id = job[e].id /\ media'[id] = Updated(media[id], job[e]) /\ media[id] \in Row
    BY <1>3, <2>1 DEF MediaOK
  <2>3. job[e].status = "ready" /\ job[e].row.hash \notin Videos
    BY <1>3, <2>1, <2>2, UpdatedColumns, UpdatedIsRow DEF Agrees, Live, LiveStatus
  <2> QED
    BY <1>3, <2>1, <2>2, <2>3, UpdatedColumns DEF Agrees, Live, LiveStatus
<1>4. CASE media[id].status # "ready"
  <2>1. ASSUME NEW e \in Executors, CommitJob(e) PROVE media'[id].thumb /\ media'[id].optimized
    BY <1>3, <1>4, <2>1 DEF CommitJob, Working
  <2>2. ASSUME NEW s \in Scripts, ScriptMarkFailed(s)
        PROVE  media'[id].thumb /\ media'[id].optimized
    BY <1>3, <1>4, <2>2 DEF ScriptMarkFailed, Working, Executors
  <2>3. ASSUME NEW r \in Requests, InitInsert(r) PROVE FALSE
    BY <1>4, <2>3 DEF InitInsert, MediaOK, Absent
  <2>4. ASSUME NEW r \in Requests, ConfirmCommit(r) PROVE FALSE
    BY <1>4, <2>4 DEF ConfirmCommit, MediaOK, Row
  <2>5. ASSUME NEW r \in Requests, DeleteCommit(r) PROVE FALSE
    BY <1>4, <2>5 DEF DeleteCommit, MediaOK, Absent
  <2>6. ASSUME NEW i \in MediaIds, NEW v \in BOOLEAN, SetVisibility(i, v) PROVE FALSE
    BY <1>4, <2>6 DEF SetVisibility, MediaOK, Row
  <2>7. ASSUME NEW u \in Users, DeleteUser(u) PROVE FALSE
    BY <1>4, <2>7 DEF DeleteUser, MediaOK, Row
  <2> QED
    BY <1>4, <2>1, <2>2, <2>3, <2>4, <2>5, <2>6, <2>7, MediaWriters
<1> QED
  BY <1>2, <1>4

LEMMA UniqueStep ==
  ASSUME TInv, TInv', JobsAgree, Buried, OneRowPerHash, [Next]_vars
  PROVE  OneRowPerHash'
<1> SUFFICES ASSUME NEW i \in MediaIds, NEW j \in MediaIds, Live(i)', Live(j)',
                    media'[i].hash = media'[j].hash, i # j
             PROVE  FALSE
  BY DEF OneRowPerHash
<1>1. Evolves(i) /\ Evolves(j)
  BY RowsEvolve
<1>2. CASE \E r \in Requests : InitInsert(r)
  <2>1. PICK r \in Requests : InitInsert(r)
    BY <1>2
  <2>2. CASE UNCHANGED media
    BY <2>2 DEF OneRowPerHash, Live
  <2>3. CASE ~UNCHANGED media
    <3> DEFINE new == [Absent("pending") EXCEPT !.hash = req[r].hash, !.visible = TRUE,
                                                !.uploader = req[r].user]
    <3>1. \A id \in MediaIds : Live(id) => media[id].hash # req[r].hash
      BY <2>1, <2>3 DEF InitInsert
    <3>2. PICK id \in MediaIds : media' = [media EXCEPT ![id] = new]
      BY <2>1, <2>3 DEF InitInsert
    <3>3. new.hash = req[r].hash
      BY DEF Absent
    <3> HIDE DEF new
    <3> QED
      BY <3>1, <3>2, <3>3 DEF TInv, MediaOK, Live, OneRowPerHash
  <2> QED
    BY <2>2, <2>3
<1>3. CASE ~\E r \in Requests : InitInsert(r)
  <2>1. media[i].status # "unused" /\ media[j].status # "unused"
    BY <1>3, MediaWriters DEF ConfirmCommit, DeleteCommit, SetVisibility, DeleteUser, CommitJob,
       ScriptMarkFailed, Live, LiveStatus, TInv, MediaOK, Absent, Row, LockOK
  <2> QED
    BY <1>1, <2>1 DEF Evolves, OneRowPerHash
<1> QED
  BY <1>2, <1>3

LEMMA AnnouncedStep ==
  ASSUME TInv, TInv', JobsAgree, Buried, AnnouncedExisted, AnnouncedComplete, [Next]_vars
  PROVE  AnnouncedExisted' /\ AnnouncedComplete'
<1> USE DEF TInv
<1>1. ASSUME NEW id \in MediaIds PROVE Evolves(id)
  BY RowsEvolve
<1>2. ASSUME NEW id \in MediaIds, announced[id] > 0
      PROVE  /\ media'[id].status # "unused"
             /\ Live(id)' /\ media'[id].hash \notin Videos => media'[id].thumb /\ media'[id].optimized
  BY <1>1, <1>2 DEF Evolves, AnnouncedExisted, AnnouncedComplete
<1>3. CASE UNCHANGED announced
  BY <1>2, <1>3 DEF AnnouncedExisted, AnnouncedComplete, Live
<1>4. ASSUME NEW w \in Workers, Announce(w) PROVE AnnouncedExisted' /\ AnnouncedComplete'
  <2>1. Working(w) /\ Agrees(w) /\ job[w].id \in MediaIds /\ w \in Executors
    BY <1>4 DEF Announce, Working, JobsAgree, JobOK, Executors
  <2>2. CASE UNCHANGED announced
    BY <1>3, <2>2
  <2>3. CASE Live(job[w].id) /\ announced' = [announced EXCEPT ![job[w].id] = @ + 1]
    <3>1. UNCHANGED media
      BY <1>4 DEF Announce
    <3>2. media[job[w].id].hash \notin Videos => media[job[w].id].thumb /\ media[job[w].id].optimized
      BY <1>4, <2>1, <2>3 DEF Announce, Agrees, Live, LiveStatus
    <3> QED
      BY <1>2, <2>1, <2>3, <3>1, <3>2 DEF AnnouncedExisted, AnnouncedComplete, Live, LiveStatus, RestOK
  <2> QED
    BY <1>4, <2>2, <2>3 DEF Announce
<1>5. UNCHANGED announced \/ \E w \in Workers : Announce(w)
  <2>1. CASE Upload
    BY <2>1 DEF Upload, InitRead, ConfirmRead, ClientPut
  <2>2. CASE Moderation
    BY <2>2 DEF Moderation, DeleteRead, SetVisibility, DeleteUser
  <2>3. ASSUME NEW r \in Requests, Continue(r) PROVE UNCHANGED announced
    BY <2>3 DEF Continue, InitInsert, ConfirmSend, ConfirmCommit, DeleteObjects, DeleteCommit
  <2>4. ASSUME NEW e \in Executors, Work(e) PROVE UNCHANGED announced
    BY <2>4 DEF Work, FetchOriginal, StoreThumbnail, StoreOptimized, CommitJob
  <2> QED
    BY <2>1, <2>2, <2>3, <2>4
    DEF Next, Worker, WorkerTake, Script, ScriptScan, ScriptLoad, ScriptMarkFailed,
        Crash, ServerCrash, ExecutorCrash, Executors, vars
<1> QED
  BY <1>3, <1>4, <1>5

LEMMA BuriedStep ==
  ASSUME TInv, TInv', JobsAgree, Buried, [Next]_vars PROVE Buried'
  BY RowsEvolve DEF Buried, Evolves

LEMMA Invariant == Spec => []IInv
<1>1. Init => IInv
  <2> SUFFICES ASSUME Init PROVE IInv
    OBVIOUS
  <2>1. TInv
    BY TypeInit
  <2>2. JobsAgree
    BY DEF Init, JobsAgree, Working, NoJob
  <2>3. Buried /\ AnnouncedExisted /\ ReadyImageComplete /\ AnnouncedComplete /\ OneRowPerHash
    BY DEF Init, Buried, AnnouncedExisted, ReadyImageComplete, AnnouncedComplete, OneRowPerHash,
       Absent, Live, LiveStatus
  <2> QED
    BY <2>1, <2>2, <2>3 DEF IInv
<1>2. IInv /\ [Next]_vars => IInv'
  <2> SUFFICES ASSUME IInv, [Next]_vars PROVE IInv'
    OBVIOUS
  <2>1. TInv'
    BY TypeStep DEF IInv
  <2> QED
    BY <2>1, JobsStep, BuriedStep, AnnouncedStep, ReadyStep, UniqueStep DEF IInv
<1> QED
  BY <1>1, <1>2, PTL DEF Spec

\* No content ever has two rows, however the uploads of it interleave.
THEOREM UniqueContent == Spec => []OneRowPerHash
<1>1. IInv => OneRowPerHash
  BY DEF IInv
<1> QED
  BY <1>1, Invariant, PTL

\* An image guests can see has both derivative paths recorded.
THEOREM ReadyImagesComplete == Spec => []ReadyImageComplete
<1>1. IInv => ReadyImageComplete
  BY DEF IInv
<1> QED
  BY <1>1, Invariant, PTL

\* An image that was announced has both derivative paths recorded while it exists.
THEOREM AnnouncementsComplete == Spec => []AnnouncedComplete
<1>1. IInv => AnnouncedComplete
  BY DEF IInv
<1> QED
  BY <1>1, Invariant, PTL

\* No step of any actor brings a deleted row back or changes what is left of it.
THEOREM DeletionIsForever == Spec => DeletedForever
<1>1. IInv /\ IInv' /\ [Next]_vars =>
        [\A id \in MediaIds : media[id].status = "deleted" => media'[id] = media[id]]_vars
  BY RowsEvolve DEF IInv, Evolves
<1> QED
  BY <1>1, Invariant, PTL DEF Spec, DeletedForever

-----------------------------------------------------------------------------
(* What admins decide, and who deletes.                                       *)

\* How a step may change the moderated columns of a row that stays.
Respects(id) ==
    Live(id) /\ Live(id)' =>
        /\ media'[id].visible # media[id].visible => media'[id].status = media[id].status
        /\ media'[id].uploader \in {media[id].uploader, NoUser}

LEMMA UpdatedRespects ==
  ASSUME NEW row \in Row, NEW j
  PROVE  Updated(row, j).visible = row.visible /\ Updated(row, j).uploader = row.uploader
BY DEF Updated, Row

LEMMA RowsRespected == ASSUME TInv, [Next]_vars, NEW id \in MediaIds PROVE Respects(id)
<1> USE DEF TInv
<1>1. CASE UNCHANGED media
  BY <1>1 DEF Respects
<1>2. ASSUME NEW r \in Requests, InitInsert(r) PROVE Respects(id)
  BY <1>2 DEF InitInsert, Respects, Live, MediaOK, LiveStatus
<1>3. ASSUME NEW r \in Requests, ConfirmCommit(r) PROVE Respects(id)
  BY <1>3 DEF ConfirmCommit, Respects, MediaOK, Row
<1>4. ASSUME NEW r \in Requests, DeleteCommit(r) PROVE Respects(id)
  BY <1>4 DEF DeleteCommit, Respects, Live, Absent, LiveStatus
<1>5. ASSUME NEW i \in MediaIds, NEW visible \in BOOLEAN, SetVisibility(i, visible)
      PROVE  Respects(id)
  BY <1>5 DEF SetVisibility, Respects, MediaOK, Row
<1>6. ASSUME NEW u \in Users, DeleteUser(u) PROVE Respects(id)
  BY <1>6 DEF DeleteUser, Respects, MediaOK, Row
<1>7. ASSUME NEW i \in MediaIds, NEW j, media' = [media EXCEPT ![i] = Updated(media[i], j)]
      PROVE  Respects(id)
  BY <1>7, UpdatedRespects DEF Respects, MediaOK
<1>8. ASSUME NEW e \in Executors, CommitJob(e) \/ ScriptMarkFailed(e) PROVE Respects(id)
  BY <1>1, <1>7, <1>8 DEF CommitJob, ScriptMarkFailed, JobOK, Working
<1> QED
  BY <1>1, <1>2, <1>3, <1>4, <1>5, <1>6, <1>8, MediaWriters DEF Executors

\* Neither a stale unit of work nor any other writer undoes a moderation.
THEOREM ModerationIsKept == Spec => DecisionsSurvive
<1>1. TInv /\ [Next]_vars =>
        [\A id \in MediaIds : Live(id) /\ Live(id)' =>
            /\ media'[id].visible # media[id].visible => media'[id].status = media[id].status
            /\ media[id].uploader = NoUser => media'[id].uploader = NoUser]_vars
  BY RowsRespected DEF Respects
<1> QED
  BY <1>1, TypeInit, TypeStep, PTL DEF Spec, DecisionsSurvive

\* What a request to delete lists existed, and is the guest's own or nobody's.
Entitled(r) ==
    req[r].op = "delete" => \A id \in req[r].ids :
        /\ media[id].status # "unused"
        /\ Live(id) /\ req[r].user # NoUser => media[id].uploader \in {req[r].user, NoUser}

AllEntitled == \A r \in Requests : Entitled(r)

\* A request keeps its operation, its user, its ids and its keys, once it has begun.
LEMMA RequestKept ==
  ASSUME TInv, [Next]_vars, NEW r \in Requests
  PROVE  \/ /\ req'[r].op = req[r].op /\ req'[r].user = req[r].user
            /\ req'[r].ids = req[r].ids /\ req'[r].keys = req[r].keys
            /\ req[r].pc = "done" => req'[r].pc = "done"
            /\ req[r].pc = "erased" => req'[r].pc \in {"erased", "done"}
         \/ /\ UNCHANGED <<media, objects>> /\ req[r].pc = "new"
            /\ \E u \in Users, h \in Hashes : InitRead(r, u, h)
         \/ /\ UNCHANGED <<media, objects>> /\ req[r].pc = "new"
            /\ \E u \in Users, id \in MediaIds : ConfirmRead(r, u, id)
         \/ /\ UNCHANGED <<media, objects>> /\ req[r].pc = "new"
            /\ \E u \in Users \cup {NoUser}, ids \in SUBSET MediaIds : DeleteRead(r, u, ids)
<1> DEFINE Kept == /\ req'[r].op = req[r].op /\ req'[r].user = req[r].user
                   /\ req'[r].ids = req[r].ids /\ req'[r].keys = req[r].keys
                   /\ req[r].pc = "done" => req'[r].pc = "done"
                   /\ req[r].pc = "erased" => req'[r].pc \in {"erased", "done"}
<1>0. req \in [Requests -> Request] /\ req[r] \in Request
  BY DEF TInv, ReqOK
<1>1. CASE req'[r] = req[r]
  BY <1>1
<1>2. ASSUME NEW q \in Requests, Continue(q) PROVE Kept
  <2>f. ASSUME NEW reply, Finish(q, reply) PROVE Kept
    BY <1>0, <2>f DEF Finish, Ended, Request
  <2>1. CASE InitInsert(q)
    BY <2>1, <2>f DEF InitInsert
  <2>2. CASE ConfirmSend(q)
    <3>1. CASE req' = [req EXCEPT ![q].pc = "sent"]
      BY <1>0, <2>2, <3>1 DEF ConfirmSend, Request
    <3> QED
      BY <2>2, <2>f, <3>1 DEF ConfirmSend
  <2>3. CASE ConfirmCommit(q)
    BY <1>0, <2>3 DEF ConfirmCommit, Finish, Ended, Request
  <2>4. CASE DeleteObjects(q)
    BY <1>0, <2>4 DEF DeleteObjects, Request
  <2>5. CASE DeleteCommit(q)
    BY <1>0, <2>5 DEF DeleteCommit, Finish, Ended, Request
  <2> QED
    BY <1>2, <2>1, <2>2, <2>3, <2>4, <2>5 DEF Continue
<1>3. ASSUME ServerCrash PROVE Kept
  BY <1>0, <1>3 DEF ServerCrash, Ended, Request
<1>4. ASSUME NEW q \in Requests, q # r,
             \/ \E u \in Users, h \in Hashes : InitRead(q, u, h)
             \/ \E u \in Users, id \in MediaIds : ConfirmRead(q, u, id)
             \/ \E u \in Users \cup {NoUser}, ids \in SUBSET MediaIds : DeleteRead(q, u, ids)
      PROVE  req'[r] = req[r]
  BY <1>0, <1>4 DEF InitRead, ConfirmRead, DeleteRead
<1>5. ASSUME NEW e \in Executors, Work(e) PROVE UNCHANGED req
  BY <1>5 DEF Work, FetchOriginal, StoreThumbnail, StoreOptimized, CommitJob
<1>6. CASE Upload
  <2>1. CASE \E h \in Hashes : ClientPut(h)
    BY <1>1, <2>1 DEF ClientPut
  <2>2. CASE \E q \in Requests, u \in Users :
               (\E h \in Hashes : InitRead(q, u, h)) \/ (\E id \in MediaIds : ConfirmRead(q, u, id))
    <3>1. PICK q \in Requests, u \in Users :
               (\E h \in Hashes : InitRead(q, u, h)) \/ (\E id \in MediaIds : ConfirmRead(q, u, id))
      BY <2>2
    <3>2. CASE q = r
      BY <3>1, <3>2 DEF InitRead, ConfirmRead
    <3> QED
      BY <1>1, <1>4, <3>1, <3>2
  <2> QED
    BY <1>6, <2>1, <2>2 DEF Upload
<1>7. CASE Moderation
  <2>1. CASE UNCHANGED req
    BY <1>1, <2>1
  <2>2. CASE \E q \in Requests, u \in Users \cup {NoUser} : \E ids \in SUBSET MediaIds : DeleteRead(q, u, ids)
    <3>1. PICK q \in Requests, u \in Users \cup {NoUser}, ids \in SUBSET MediaIds : DeleteRead(q, u, ids)
      BY <2>2
    <3>2. CASE q = r
      BY <3>1, <3>2 DEF DeleteRead
    <3> QED
      BY <1>1, <1>4, <3>1, <3>2
  <2> QED
    BY <1>7, <2>1, <2>2 DEF Moderation, SetVisibility, DeleteUser
<1>8. CASE (\E w \in Workers : Worker(w)) \/ (\E s \in Scripts : Script(s)) \/ (\E e \in Executors : ExecutorCrash(e))
  BY <1>1, <1>5, <1>8 DEF Worker, WorkerTake, Announce, Script, ScriptScan, ScriptLoad, ScriptMarkFailed,
     ExecutorCrash, Executors
<1>9. CASE UNCHANGED vars
  BY <1>1, <1>9 DEF vars
<1> QED
  BY <1>2, <1>3, <1>6, <1>7, <1>8, <1>9 DEF Next, Crash

\* Ids are not reused, and a row that is gone does not come back.
LEMMA BirthStep ==
  ASSUME TInv, [Next]_vars, NEW id \in MediaIds, media[id].status # "unused"
  PROVE  media'[id].status # "unused" /\ (Live(id)' => Live(id))
<1> USE DEF TInv
<1>1. CASE UNCHANGED media
  BY <1>1 DEF Live
<1>2. ASSUME NEW r \in Requests, InitInsert(r) PROVE media'[id] = media[id]
  BY <1>2 DEF InitInsert, MediaOK
<1>3. ASSUME NEW r \in Requests, ConfirmCommit(r)
      PROVE  media'[id].status # "unused" /\ (Live(id)' => Live(id))
  BY <1>3 DEF ConfirmCommit, Live, LockOK, MediaOK, Row
<1>4. ASSUME NEW r \in Requests, DeleteCommit(r)
      PROVE  media'[id].status # "unused" /\ (Live(id)' => Live(id))
  BY <1>4 DEF DeleteCommit, Live, Absent, LiveStatus, MediaOK
<1>5. ASSUME \/ \E i \in MediaIds, visible \in BOOLEAN : SetVisibility(i, visible)
             \/ \E u \in Users : DeleteUser(u)
      PROVE  media'[id].status = media[id].status
  BY <1>5 DEF SetVisibility, DeleteUser, MediaOK, Row
<1>6. ASSUME NEW e \in Executors, CommitJob(e) \/ ScriptMarkFailed(e)
      PROVE  media'[id].status # "unused" /\ (Live(id)' => Live(id))
  <2>1. Working(e) /\ job[e] \in Job /\ job[e].id \in MediaIds /\ job[e].status \in LiveStatus
    BY <1>6 DEF CommitJob, ScriptMarkFailed, Working, JobOK
  <2>2. CASE Live(job[e].id) /\ media' = [media EXCEPT ![job[e].id] = Updated(media[job[e].id], job[e])]
    BY <2>1, <2>2, UpdatedIsRow DEF Live, LiveStatus, MediaOK
  <2> QED
    BY <1>1, <1>6, <2>2 DEF CommitJob, ScriptMarkFailed
<1> QED
  BY <1>1, <1>2, <1>3, <1>4, <1>5, <1>6, MediaWriters DEF Executors, Live

LEMMA EntitledStep == TInv /\ AllEntitled /\ [Next]_vars => AllEntitled'
<1> SUFFICES ASSUME TInv, AllEntitled, [Next]_vars, NEW r \in Requests, req'[r].op = "delete",
                    NEW id \in MediaIds, id \in req'[r].ids
             PROVE  /\ media'[id].status # "unused"
                    /\ Live(id)' /\ req'[r].user # NoUser => media'[id].uploader \in {req'[r].user, NoUser}
  <2>1. TInv /\ [Next]_vars => TInv'
    BY TypeStep
  <2>2. TInv' => \A r \in Requests : req'[r].ids \subseteq MediaIds
    BY DEF TInv, ReqOK, Request
  <2> QED
    BY <2>1, <2>2 DEF AllEntitled, Entitled
<1>0. Respects(id) /\ req \in [Requests -> Request] /\ media \in [MediaIds -> Row]
  BY RowsRespected DEF TInv, ReqOK, MediaOK
<1>1. CASE /\ req'[r].op = req[r].op /\ req'[r].user = req[r].user /\ req'[r].ids = req[r].ids
  <2>1. /\ media[id].status # "unused"
        /\ Live(id) /\ req[r].user # NoUser => media[id].uploader \in {req[r].user, NoUser}
    BY <1>1 DEF AllEntitled, Entitled
  <2>2. media'[id].status # "unused" /\ (Live(id)' => Live(id))
    BY <2>1, BirthStep
  <2> QED
    BY <1>0, <1>1, <2>1, <2>2 DEF Respects
<1>2. ASSUME NEW u \in Users, \/ \E h \in Hashes : InitRead(r, u, h)
                              \/ \E i \in MediaIds : ConfirmRead(r, u, i)
      PROVE  FALSE
  <2>1. ASSUME NEW op, NEW v, NEW h, NEW ids, NEW was, NEW keys, NEW refusal
        PROVE  Opened(op, v, h, ids, was, keys, refusal).op = op
    BY DEF Opened
  <2>2. ASSUME NEW h \in Hashes, InitRead(r, u, h) PROVE FALSE
    <3>1. \E refusal : req' = [req EXCEPT ![r] = Opened("init", u, h, {}, "unused", {}, refusal)]
      BY <2>2 DEF InitRead
    <3> QED
      BY <1>0, <2>1, <3>1
  <2>3. ASSUME NEW i \in MediaIds, ConfirmRead(r, u, i) PROVE FALSE
    <3>1. \E ids, was, refusal :
             req' = [req EXCEPT ![r] = Opened("confirm", u, NoHash, ids, was, {}, refusal)]
      BY <2>3 DEF ConfirmRead
    <3> QED
      BY <1>0, <2>1, <3>1
  <2> QED
    BY <1>2, <2>2, <2>3
<1>3. ASSUME NEW u \in Users \cup {NoUser}, NEW ids \in SUBSET MediaIds, DeleteRead(r, u, ids), UNCHANGED media
      PROVE  /\ media'[id].status # "unused"
             /\ Live(id)' /\ req'[r].user # NoUser => media'[id].uploader \in {req'[r].user, NoUser}
  <2>1. req'[r].user = u /\ Live(id) /\ (u = NoUser \/ media[id].uploader = u)
    BY <1>0, <1>3 DEF DeleteRead, Opened
  <2> QED
    BY <1>3, <2>1 DEF Live, LiveStatus
<1> QED
  BY <1>1, <1>2, <1>3, RequestKept

\* Only the request that deletes a row, once its objects are erased, takes it away.
LEMMA RemovalStep ==
  ASSUME TInv, [Next]_vars, NEW id \in MediaIds, Live(id), ~Live(id)'
  PROVE  \E r \in Requests : DeleteCommit(r) /\ id \in req[r].ids
<1> USE DEF TInv
<1>1. ~UNCHANGED media
  BY DEF Live
<1>2. ASSUME NEW r \in Requests, InitInsert(r) PROVE FALSE
  BY <1>2 DEF InitInsert, Live, LiveStatus, MediaOK
<1>3. ASSUME NEW r \in Requests, ConfirmCommit(r) PROVE FALSE
  BY <1>3 DEF ConfirmCommit, Live, LiveStatus, MediaOK, Row
<1>4. ASSUME NEW i \in MediaIds, NEW visible \in BOOLEAN, SetVisibility(i, visible) PROVE FALSE
  BY <1>4 DEF SetVisibility, Live, MediaOK, Row
<1>5. ASSUME NEW u \in Users, DeleteUser(u) PROVE FALSE
  BY <1>5 DEF DeleteUser, Live, MediaOK, Row
<1>6. ASSUME NEW e \in Executors, CommitJob(e) \/ ScriptMarkFailed(e) PROVE FALSE
  <2>1. Working(e) /\ job[e] \in Job /\ job[e].id \in MediaIds /\ job[e].status \in LiveStatus
    BY <1>6 DEF CommitJob, ScriptMarkFailed, Working, JobOK
  <2>2. Live(job[e].id) /\ media' = [media EXCEPT ![job[e].id] = Updated(media[job[e].id], job[e])]
    BY <1>1, <1>6 DEF CommitJob, ScriptMarkFailed
  <2> QED
    BY <2>1, <2>2, UpdatedIsRow DEF Live, MediaOK
<1>7. PICK r \in Requests : DeleteCommit(r)
  BY <1>1, <1>2, <1>3, <1>4, <1>5, <1>6, MediaWriters DEF Executors
<1> QED
  BY <1>7 DEF DeleteCommit, Live

\* A row disappears only in the request of its uploader or of an admin.
THEOREM DeletionIsAuthorised == Spec => OnlyOwnerOrAdminDeletes
<1>1. TInv /\ AllEntitled /\ [Next]_vars =>
        [\A id \in MediaIds : Live(id) /\ ~Live(id)' =>
            \E r \in Requests :
               /\ id \in req[r].ids /\ req[r].pc # "done" /\ req'[r].pc = "done"
               /\ req[r].user \in {NoUser, media[id].uploader} \/ media[id].uploader = NoUser]_vars
  <2> SUFFICES ASSUME TInv, AllEntitled, [Next]_vars, NEW id \in MediaIds, Live(id), ~Live(id)'
               PROVE  \E r \in Requests :
                         /\ id \in req[r].ids /\ req[r].pc # "done" /\ req'[r].pc = "done"
                         /\ req[r].user \in {NoUser, media[id].uploader} \/ media[id].uploader = NoUser
    OBVIOUS
  <2>1. PICK r \in Requests : DeleteCommit(r) /\ id \in req[r].ids
    BY RemovalStep
  <2>2. req[r].op = "delete" /\ req[r].pc = "erased" /\ Finish(r, "ok")
    BY <2>1 DEF DeleteCommit
  <2>3. req'[r].pc = "done"
    BY <2>2, EndedRequest DEF Finish, TInv, ReqOK
  <2> QED
    BY <2>1, <2>2, <2>3 DEF AllEntitled, Entitled
<1>2. Init => AllEntitled
  BY DEF Init, AllEntitled, Entitled, NewRequest
<1> QED
  BY <1>1, <1>2, TypeInit, TypeStep, EntitledStep, PTL DEF Spec, OnlyOwnerOrAdminDeletes

-----------------------------------------------------------------------------
(* What is stored.  Objects only disappear by a deletion that listed their key,  *)
(* so that what a row or a unit of work once put there is there or was listed.   *)

Accounted(k) == k \in objects \/ \E r \in Requests : req[r].pc \in {"erased", "done"} /\ k \in req[r].keys

RowStored(id) ==
    /\ media[id].status = "ready" => Accounted(<<"original", media[id].hash>>)
    /\ media[id].thumb => Accounted(<<"thumb", media[id].hash>>)
    /\ media[id].optimized => Accounted(<<"optimized", media[id].hash>>)

JobStored(e) ==
    LET h == job[e].row.hash IN
    /\ job[e].pc \in {"thumb", "optimized"} \/ job[e].status = "ready" => Accounted(<<"original", h>>)
    /\ job[e].thumb => Accounted(<<"thumb", h>>)
    /\ job[e].pc = "optimized" /\ h \notin Videos => Accounted(<<"thumb", h>>)
    /\ job[e].optimized => Accounted(<<"optimized", h>>)

StoreInv ==
    /\ \A id \in MediaIds : RowStored(id)
    /\ \A e \in Executors : Working(e) => JobStored(e)

LEMMA ObjectsStep ==
  ASSUME TInv, [Next]_vars PROVE objects \subseteq objects' \/ \E r \in Requests : DeleteObjects(r)
<1>1. CASE Upload
  BY <1>1 DEF Upload, InitRead, ConfirmRead, ClientPut
<1>2. CASE Moderation
  BY <1>2 DEF Moderation, DeleteRead, SetVisibility, DeleteUser
<1>3. ASSUME NEW r \in Requests, Continue(r) PROVE UNCHANGED objects \/ DeleteObjects(r)
  BY <1>3 DEF Continue, InitInsert, ConfirmSend, ConfirmCommit, DeleteCommit
<1>4. ASSUME NEW e \in Executors, Work(e) PROVE objects \subseteq objects'
  BY <1>4 DEF Work, FetchOriginal, StoreThumbnail, StoreOptimized, CommitJob
<1> QED
  BY <1>1, <1>2, <1>3, <1>4
  DEF Next, Worker, WorkerTake, Announce, Script, ScriptScan, ScriptLoad, ScriptMarkFailed,
      Crash, ServerCrash, ExecutorCrash, Executors, vars

LEMMA AccountedStays ==
  ASSUME TInv, [Next]_vars, NEW k, Accounted(k) PROVE Accounted(k)'
<1>0. req \in [Requests -> Request]
  BY DEF TInv, ReqOK
<1>1. ASSUME NEW r \in Requests, req[r].pc \in {"erased", "done"}, k \in req[r].keys
      PROVE  Accounted(k)'
  <2>1. req'[r].pc \in {"erased", "done"} /\ req'[r].keys = req[r].keys
    BY <1>1, RequestKept
  <2> QED
    BY <1>1, <2>1 DEF Accounted
<1>2. ASSUME NEW r \in Requests, DeleteObjects(r), k \in objects PROVE Accounted(k)'
  <2>1. req'[r].pc = "erased" /\ req'[r].keys = req[r].keys
    BY <1>0, <1>2 DEF DeleteObjects, Request
  <2>2. k \in objects' \/ k \in req[r].keys
    BY <1>2 DEF DeleteObjects
  <2> QED
    BY <2>1, <2>2 DEF Accounted
<1>3. CASE k \in objects /\ objects \subseteq objects'
  BY <1>3 DEF Accounted
<1> QED
  BY <1>1, <1>2, <1>3, ObjectsStep DEF Accounted

\* An UPDATE by a unit of work leaves a row whose objects are accounted for.
LEMMA CommitStored ==
  ASSUME IInv, StoreInv, [Next]_vars, NEW e \in Executors, Working(e), NEW id \in MediaIds,
         id = job[e].id, Live(id), media' = [media EXCEPT ![id] = Updated(media[id], job[e])]
  PROVE  RowStored(id)'
<1> DEFINE h == media[id].hash
<1>1. job[e] \in Job /\ media[id] \in Row /\ media \in [MediaIds -> Row]
  BY DEF IInv, TInv, JobOK, MediaOK
<1>2. job[e].row.hash = h
  BY DEF IInv, JobsAgree, Agrees, Live, LiveStatus
<1>3. media'[id] = Updated(media[id], job[e])
  BY <1>1
<1>4. /\ media'[id].hash = h
      /\ media'[id].status \in {media[id].status, job[e].status}
      /\ media'[id].thumb => media[id].thumb \/ job[e].thumb
      /\ media'[id].optimized => media[id].optimized \/ job[e].optimized
  BY <1>1, <1>3 DEF Updated, Row, Job
<1>5. RowStored(id) /\ JobStored(e)
  BY <1>1 DEF StoreInv
<1> HIDE DEF h
<1>6. /\ media'[id].status = "ready" => Accounted(<<"original", h>>)
      /\ media'[id].thumb => Accounted(<<"thumb", h>>)
      /\ media'[id].optimized => Accounted(<<"optimized", h>>)
  BY <1>2, <1>4, <1>5 DEF RowStored, JobStored, h
<1>7. ASSUME NEW k, Accounted(k) PROVE Accounted(k)'
  BY <1>7, AccountedStays DEF IInv
<1> QED
  BY <1>4, <1>6, <1>7 DEF RowStored

LEMMA RowsStored ==
  ASSUME IInv, StoreInv, [Next]_vars, NEW id \in MediaIds PROVE RowStored(id)'
<1>0. media \in [MediaIds -> Row] /\ TInv
  BY DEF IInv, TInv, MediaOK
<1>1. ASSUME NEW k, Accounted(k) PROVE Accounted(k)'
  BY <1>0, <1>1, AccountedStays
<1>2. CASE /\ media'[id].status = "ready" => media[id].status = "ready"
           /\ media'[id].thumb => media[id].thumb
           /\ media'[id].optimized => media[id].optimized
           /\ media'[id].hash = media[id].hash
  BY <1>1, <1>2 DEF RowStored, StoreInv
<1>3. ASSUME NEW r \in Requests, InitInsert(r) PROVE RowStored(id)'
  <2>1. CASE media'[id] = media[id]
    BY <1>2, <2>1
  <2>2. CASE media'[id] # media[id]
    <3>1. media'[id].status = "pending" /\ media'[id].thumb = FALSE /\ media'[id].optimized = FALSE
      BY <1>0, <1>3, <2>2 DEF InitInsert, Absent
    <3> QED
      BY <3>1 DEF RowStored
  <2> QED
    BY <2>1, <2>2
<1>4. ASSUME NEW r \in Requests, ConfirmCommit(r) PROVE RowStored(id)'
  BY <1>0, <1>2, <1>4 DEF ConfirmCommit, Row
<1>5. ASSUME NEW r \in Requests, DeleteCommit(r) PROVE RowStored(id)'
  <2>1. CASE id \in req[r].ids
    <3>1. media'[id] = Absent("deleted")
      BY <1>5, <2>1 DEF DeleteCommit
    <3> QED
      BY <3>1 DEF RowStored, Absent
  <2>2. CASE id \notin req[r].ids
    BY <1>2, <1>5, <2>2 DEF DeleteCommit
  <2> QED
    BY <2>1, <2>2
<1>6. ASSUME \/ \E i \in MediaIds, visible \in BOOLEAN : SetVisibility(i, visible)
             \/ \E u \in Users : DeleteUser(u)
      PROVE  RowStored(id)'
  BY <1>0, <1>2, <1>6 DEF SetVisibility, DeleteUser, Row
<1>7. ASSUME NEW e \in Executors, CommitJob(e) \/ ScriptMarkFailed(e) PROVE RowStored(id)'
  <2>1. CASE UNCHANGED media
    BY <1>2, <2>1
  <2>2. CASE Live(job[e].id) /\ media' = [media EXCEPT ![job[e].id] = Updated(media[job[e].id], job[e])]
    <3>1. Working(e)
      BY <1>7 DEF CommitJob, ScriptMarkFailed, Working
    <3>2. CASE id = job[e].id
      BY <2>2, <3>1, <3>2, CommitStored
    <3>3. CASE id # job[e].id
      BY <1>0, <1>2, <2>2, <3>3
    <3> QED
      BY <3>2, <3>3
  <2> QED
    BY <1>7, <2>1, <2>2 DEF CommitJob, ScriptMarkFailed
<1>8. CASE UNCHANGED media
  BY <1>2, <1>8
<1> QED
  BY <1>3, <1>4, <1>5, <1>6, <1>7, <1>8, MediaWriters DEF Executors

LEMMA JobsStored ==
  ASSUME IInv, StoreInv, [Next]_vars, NEW e \in Executors, Working(e)' PROVE JobStored(e)'
<1>0. media \in [MediaIds -> Row] /\ job \in [Executors -> Job] /\ TInv
  BY DEF IInv, TInv, MediaOK, JobOK
<1>1. ASSUME NEW k, Accounted(k) PROVE Accounted(k)'
  BY <1>0, <1>1, AccountedStays
<1>2. CASE job'[e] = job[e]
  BY <1>1, <1>2 DEF JobStored, StoreInv, Working
<1>3. ASSUME NEW id \in MediaIds, NEW pc \in {"fetch", "markFailed"},
             \/ job'[e] = Load(id, pc)
             \/ job'[e] = [Load(id, pc) EXCEPT !.status = "failed"]
      PROVE  JobStored(e)'
  <2>1. /\ job'[e].row.hash = media[id].hash /\ job'[e].status # "ready"
        /\ job'[e].pc \notin {"thumb", "optimized"}
        /\ job'[e].thumb = media[id].thumb /\ job'[e].optimized = media[id].optimized
    BY <1>3 DEF Load
  <2> QED
    BY <1>1, <2>1 DEF JobStored, StoreInv, RowStored
<1>4. ASSUME NEW d \in Executors, FetchOriginal(d) \/ StoreThumbnail(d) \/ StoreOptimized(d), d = e
      PROVE  JobStored(e)'
  <2>1. JobStored(e) /\ Working(e) /\ job[e] \in Job
    BY <1>0, <1>4 DEF FetchOriginal, StoreThumbnail, StoreOptimized, Working, StoreInv
  <2>2. \A k : k \in objects' => Accounted(k)'
    BY DEF Accounted
  <2>3. CASE FetchOriginal(e)
    <3>1. CASE <<"original", job[e].row.hash>> \in objects /\ job' = [job EXCEPT ![e].pc = "thumb"]
      <4>1. /\ job'[e].row = job[e].row /\ job'[e].status = job[e].status /\ job'[e].pc = "thumb"
            /\ job'[e].thumb = job[e].thumb /\ job'[e].optimized = job[e].optimized
        BY <1>0, <2>1, <3>1 DEF Job
      <4>2. Accounted(<<"original", job[e].row.hash>>)
        BY <3>1 DEF Accounted
      <4> QED
        BY <1>1, <2>1, <4>1, <4>2 DEF JobStored
    <3>2. CASE job' = [job EXCEPT ![e].pc = "commit", ![e].status = "failed"]
      <4>1. /\ job'[e].row = job[e].row /\ job'[e].status = "failed" /\ job'[e].pc = "commit"
            /\ job'[e].thumb = job[e].thumb /\ job'[e].optimized = job[e].optimized
        BY <1>0, <2>1, <3>2 DEF Job
      <4> QED
        BY <1>1, <2>1, <4>1 DEF JobStored
    <3> QED
      BY <2>3, <3>1, <3>2 DEF FetchOriginal
  <2>4. CASE StoreThumbnail(e)
    <3> DEFINE h == job[e].row.hash
    <3>1. job[e].pc = "thumb"
      BY <2>4 DEF StoreThumbnail
    <3>2. /\ job'[e].row = job[e].row /\ job'[e].pc \in {"commit", "optimized"}
          /\ job'[e].status = job[e].status \/ job'[e].status = "failed"
          /\ job'[e].optimized = job[e].optimized
      BY <1>0, <2>1, <2>4 DEF StoreThumbnail, Job
    <3>3. /\ job'[e].thumb => job[e].thumb \/ <<"thumb", h>> \in objects'
          /\ job'[e].pc = "optimized" /\ h \notin Videos => <<"thumb", h>> \in objects'
      BY <1>0, <2>1, <2>4 DEF StoreThumbnail, Job
    <3> QED
      BY <1>1, <2>1, <2>2, <3>1, <3>2, <3>3 DEF JobStored
  <2>5. CASE StoreOptimized(e)
    <3> DEFINE h == job[e].row.hash
    <3>1. job[e].pc = "optimized"
      BY <2>5 DEF StoreOptimized
    <3>2. job'[e].row = job[e].row /\ job'[e].pc = "commit"
      BY <1>0, <2>1, <2>5 DEF StoreOptimized, Job
    <3>3. /\ job'[e].thumb => job[e].thumb \/ h \notin Videos
          /\ job'[e].optimized => job[e].optimized \/ <<"optimized", h>> \in objects'
      BY <1>0, <2>1, <2>5 DEF StoreOptimized, Job
    <3> QED
      BY <1>1, <2>1, <2>2, <3>1, <3>2, <3>3 DEF JobStored
  <2> QED
    BY <1>4, <2>3, <2>4, <2>5
<1>5. ASSUME CommitJob(e), job'[e] # NoJob PROVE JobStored(e)'
  <2>1. Working(e) /\ job'[e] = [job[e] EXCEPT !.pc = "announce"] /\ job[e] \in Job
    BY <1>0, <1>5 DEF CommitJob, Working
  <2>2. /\ job'[e].row = job[e].row /\ job'[e].status = job[e].status /\ job'[e].pc = "announce"
        /\ job'[e].thumb = job[e].thumb /\ job'[e].optimized = job[e].optimized
    BY <2>1 DEF Job
  <2> QED
    BY <1>1, <2>1, <2>2 DEF JobStored, StoreInv
<1>6. CASE job'[e] = NoJob
  BY <1>6 DEF NoJob, Working
<1>7. ASSUME NEW w \in Workers, NEW id \in MediaIds, WorkerTake(w, id) PROVE JobStored(e)'
  <2>1. job'[e] = job[e] \/ job'[e] = Load(id, "fetch")
    BY <1>0, <1>7 DEF WorkerTake, Executors
  <2> QED
    BY <1>2, <1>3, <2>1
<1>8. ASSUME NEW s \in Scripts, NEW id \in MediaIds, ScriptLoad(s, id) PROVE JobStored(e)'
  <2>1. \/ job'[e] = job[e] \/ job'[e] = Load(id, "fetch")
        \/ job'[e] = [Load(id, "markFailed") EXCEPT !.status = "failed"]
    BY <1>0, <1>8 DEF ScriptLoad, Executors
  <2> QED
    BY <1>2, <1>3, <2>1
<1>9. ASSUME NEW d \in Executors,
             \/ FetchOriginal(d) \/ StoreThumbnail(d) \/ StoreOptimized(d)
             \/ CommitJob(d) \/ ExecutorCrash(d) \/ Announce(d) \/ ScriptScan(d) \/ ScriptMarkFailed(d)
      PROVE  JobStored(e)'
  <2>1. CASE d # e
    <3>1. job'[e] = job[e]
      BY <1>0, <1>9, <2>1 DEF FetchOriginal, StoreThumbnail, StoreOptimized, CommitJob, ExecutorCrash,
         Announce, ScriptScan, ScriptMarkFailed
    <3> QED
      BY <1>2, <3>1
  <2>2. CASE d = e
    <3>1. CASE ExecutorCrash(d) \/ Announce(d) \/ ScriptScan(d) \/ ScriptMarkFailed(d)
      <4>1. job'[e] = NoJob
        BY <1>0, <2>2, <3>1 DEF ExecutorCrash, Announce, ScriptScan, ScriptMarkFailed
      <4> QED
        BY <1>6, <4>1
    <3> QED
      BY <1>4, <1>5, <1>6, <1>9, <2>2, <3>1
  <2> QED
    BY <2>1, <2>2
<1> QED
  BY <1>2, <1>7, <1>8, <1>9, JobWriters DEF Executors

\* A READY row has its objects, but for those a deletion listed.
THEOREM ReadyItemsAreStored == Spec => []ReadyIsStored
<1>1. Init => StoreInv
  BY DEF Init, StoreInv, RowStored, JobStored, Working, NoJob, Absent
<1>2. IInv /\ StoreInv /\ [Next]_vars => StoreInv'
  BY RowsStored, JobsStored DEF StoreInv
<1>3. StoreInv => ReadyIsStored
  BY DEF StoreInv, ReadyIsStored, RowStored, Accounted, StoredKeys
<1> QED
  BY <1>1, <1>2, <1>3, Invariant, PTL DEF Spec

-----------------------------------------------------------------------------
(* The refinement of MediaLifecycle, for clients that confirm an item once and    *)
(* while no repair script runs.  Then each item has one confirm, one message and  *)
(* one unit of work, which follow each other.                                    *)

OneConfirm == MaxConfirms = 1 /\ Scripts = {} /\ IsFiniteSet(Requests)

Confirms(r, id) == req[r].op = "confirm" /\ id \in req[r].ids

WorksOn(e, id) == Working(e) /\ job[e].id = id

\* Nothing has happened to the item since its row was inserted, ...
Untouched(id) ==
    /\ media[id].status \in {"unused", "pending", "deleted"}
    /\ \A e \in Executors : ~WorksOn(e, id)
    /\ announced[id] = 0

\* ... its confirm, if there is one, is under way, ...
Uncommitted(id) == \A r \in Requests : Confirms(r, id) => req[r].pc \in {"read", "sent"}

\* ... and has not sent the message.
Unsent(id) == \A r \in Requests : Confirms(r, id) => req[r].pc = "read"

ConfirmsOnce ==
    /\ \A r \in Requests : req[r].pc = "new" => req[r].op = "none"
    /\ \A id \in MediaIds, q, r \in Requests : Confirms(q, id) /\ Confirms(r, id) => q = r
    /\ \A id \in MediaIds, r \in Requests :
          Confirms(r, id) /\ req[r].pc \in {"read", "sent"} => req[r].was = "pending"

TouchedInOrder(id) ==
    /\ Uncommitted(id) => Untouched(id)
    /\ Unsent(id) => queue[id] = 0

\* One message or one unit of work, or an announcement.
HandledOnce(id) ==
    /\ queue[id] \in {0, 1} /\ announced[id] \in {0, 1}
    /\ queue[id] = 1 => announced[id] = 0 /\ \A e \in Executors : ~WorksOn(e, id)
    /\ \A d, e \in Executors : WorksOn(d, id) /\ WorksOn(e, id) => d = e

\* What a unit of work finds when it commits, and when it announces.
OnTime(e) ==
    /\ announced[job[e].id] = 0
    /\ job[e].row.status = "processing" /\ job[e].pc # "markFailed"
    /\ job[e].pc = "commit" => job[e].status \in {"ready", "failed"}
    /\ media[job[e].id].status \in {"deleted", IF job[e].pc = "announce" THEN "ready" ELSE "processing"}

RInv ==
    /\ ConfirmsOnce
    /\ \A id \in MediaIds : TouchedInOrder(id) /\ HandledOnce(id)
    /\ \A e \in Executors : Working(e) => OnTime(e)

LEMMA OnceInit == Init => RInv
<1> SUFFICES ASSUME Init PROVE RInv
  OBVIOUS
<1>1. \A e \in Executors : ~Working(e)
  BY DEF Init, Working, NoJob
<1>2. \A r \in Requests : req[r].op = "none"
  BY DEF Init, NewRequest
<1>3. \A id \in MediaIds : media[id].status = "unused" /\ queue[id] = 0 /\ announced[id] = 0
  BY DEF Init, Absent
<1> QED
  BY <1>1, <1>2, <1>3 DEF RInv, ConfirmsOnce, TouchedInOrder, HandledOnce, Untouched, WorksOn, Confirms

\* A step that begins or advances no confirm.
Unconfirming ==
    \A r \in Requests :
        /\ req'[r].pc = "new" => req'[r].op = "none"
        /\ \A id \in MediaIds : Confirms(r, id)' <=> Confirms(r, id)
        /\ req[r].op = "confirm" => req'[r].was = req[r].was /\ req'[r].pc \in {req[r].pc, "done"}

LEMMA UnconfirmingOnce ==
  ASSUME RInv, Unconfirming
  PROVE  /\ ConfirmsOnce'
         /\ \A id \in MediaIds : (Uncommitted(id)' => Uncommitted(id)) /\ (Unsent(id)' => Unsent(id))
<1>1. ConfirmsOnce'
  BY DEF RInv, ConfirmsOnce, Unconfirming, Confirms
<1>2. ASSUME NEW id \in MediaIds, Uncommitted(id)' PROVE Uncommitted(id)
  BY <1>2 DEF Uncommitted, Unconfirming, Confirms
<1>3. ASSUME NEW id \in MediaIds, Unsent(id)' PROVE Unsent(id)
  BY <1>3 DEF Unsent, Unconfirming, Confirms
<1> QED
  BY <1>1, <1>2, <1>3

\* Which requests move, and how.
LEMMA ConfirmWriters ==
  ASSUME TInv, ConfirmsOnce, [Next]_vars
  PROVE  \/ Unconfirming
         \/ \E r \in Requests, u \in Users, id \in MediaIds : ConfirmRead(r, u, id) /\ Live(id) /\ media[id].uploader = u
         \/ \E r \in Requests : ConfirmSend(r) /\ req' = [req EXCEPT ![r].pc = "sent"]
<1>0. req \in [Requests -> Request]
  BY DEF TInv, ReqOK
<1>a. ASSUME NEW u, NEW h, NEW ids, NEW was, NEW keys, NEW refusal, NEW op
      PROVE  /\ Opened(op, u, h, ids, was, keys, refusal).op = op
             /\ Opened(op, u, h, ids, was, keys, refusal).ids = ids
             /\ Opened(op, u, h, ids, was, keys, refusal).pc # "new"
  BY DEF Opened
<1>1. ASSUME UNCHANGED req PROVE Unconfirming
  BY <1>1 DEF Unconfirming, ConfirmsOnce, Confirms
<1>2. ASSUME NEW r \in Requests, NEW q, req' = [req EXCEPT ![r] = q], q.pc # "new",
             q.op = req[r].op \/ (req[r].pc = "new" /\ q.op # "confirm"),
             q.op = "confirm" => q.ids = req[r].ids /\ q.was = req[r].was /\ q.pc \in {req[r].pc, "done"}
      PROVE  Unconfirming
  BY <1>0, <1>2 DEF Unconfirming, ConfirmsOnce, Confirms
<1>3. ASSUME NEW r \in Requests, NEW reply, Finish(r, reply) PROVE Unconfirming
  <2>1. /\ Ended(req[r], reply).pc = "done" /\ Ended(req[r], reply).op = req[r].op
        /\ Ended(req[r], reply).ids = req[r].ids /\ Ended(req[r], reply).was = req[r].was
    BY <1>0 DEF Ended, Request
  <2> QED
    BY <1>2, <1>3, <2>1 DEF Finish
<1>4. ASSUME NEW r \in Requests, NEW u \in Users, NEW h \in Hashes, InitRead(r, u, h)
      PROVE  Unconfirming
  <2>1. PICK refusal : req' = [req EXCEPT ![r] = Opened("init", u, h, {}, "unused", {}, refusal)]
    BY <1>4 DEF InitRead
  <2> DEFINE q == Opened("init", u, h, {}, "unused", {}, refusal)
  <2>2. q.op = "init" /\ q.pc # "new"
    BY DEF Opened
  <2>3. req' = [req EXCEPT ![r] = q]
    BY <2>1
  <2>4. req[r].pc = "new"
    BY <1>4 DEF InitRead
  <2> HIDE DEF q
  <2> QED
    BY <1>2, <2>2, <2>3, <2>4
<1>5. ASSUME NEW r \in Requests, NEW u \in Users \cup {NoUser}, NEW ids \in SUBSET MediaIds, DeleteRead(r, u, ids)
      PROVE  Unconfirming
  <2>1. PICK found, stored, refusal :
           req' = [req EXCEPT ![r] = Opened("delete", u, NoHash, found, "unused", stored, refusal)]
    BY <1>5 DEF DeleteRead
  <2> DEFINE q == Opened("delete", u, NoHash, found, "unused", stored, refusal)
  <2>2. q.op = "delete" /\ q.pc # "new"
    BY DEF Opened
  <2>3. req' = [req EXCEPT ![r] = q]
    BY <2>1
  <2>4. req[r].pc = "new"
    BY <1>5 DEF DeleteRead
  <2> HIDE DEF q
  <2> QED
    BY <1>2, <2>2, <2>3, <2>4
<1>6. ASSUME NEW r \in Requests, NEW u \in Users, NEW id \in MediaIds, ConfirmRead(r, u, id),
             ~(Live(id) /\ media[id].uploader = u)
      PROVE  Unconfirming
  <2> DEFINE q == Opened("confirm", u, NoHash, {}, "unused", {}, "missing")
  <2>1. req' = [req EXCEPT ![r] = q] /\ req[r].pc = "new"
    BY <1>6 DEF ConfirmRead
  <2>2. q.op = "confirm" /\ q.ids = {} /\ q.pc # "new"
    BY <1>a
  <2> HIDE DEF q
  <2> QED
    BY <1>0, <2>1, <2>2 DEF Unconfirming, ConfirmsOnce, Confirms
<1>7. ASSUME NEW r \in Requests, Continue(r)
      PROVE  Unconfirming \/ (ConfirmSend(r) /\ req' = [req EXCEPT ![r].pc = "sent"])
  <2>1. CASE DeleteObjects(r)
    <3> DEFINE q == [req[r] EXCEPT !.pc = "erased"]
    <3>1. req' = [req EXCEPT ![r] = q] /\ req[r].op = "delete" /\ q.pc = "erased" /\ q.op = "delete"
      BY <1>0, <2>1 DEF DeleteObjects, Request
    <3> HIDE DEF q
    <3> QED
      BY <1>2, <3>1
  <2> QED
    BY <1>3, <1>7, <2>1 DEF Continue, InitInsert, ConfirmSend, ConfirmCommit, DeleteCommit
<1>8. ASSUME ServerCrash PROVE Unconfirming
  BY <1>0, <1>8 DEF ServerCrash, Ended, Request, Unconfirming, ConfirmsOnce, Confirms
<1>9. ASSUME NEW e \in Executors, Work(e) PROVE UNCHANGED req
  BY <1>9 DEF Work, FetchOriginal, StoreThumbnail, StoreOptimized, CommitJob
<1>10. CASE Upload
  BY <1>1, <1>4, <1>6, <1>10 DEF Upload, ClientPut
<1>11. CASE Moderation
  BY <1>1, <1>5, <1>11 DEF Moderation, SetVisibility, DeleteUser
<1>12. CASE (\E w \in Workers : Worker(w)) \/ (\E s \in Scripts : Script(s)) \/ (\E e \in Executors : ExecutorCrash(e))
  BY <1>1, <1>9, <1>12 DEF Worker, WorkerTake, Announce, Script, ScriptScan, ScriptLoad, ScriptMarkFailed,
     ExecutorCrash, Executors
<1>13. CASE UNCHANGED vars
  BY <1>1, <1>13 DEF vars
<1> QED
  BY <1>7, <1>8, <1>10, <1>11, <1>12, <1>13 DEF Next, Crash

ItemsOnce ==
    /\ \A id \in MediaIds : TouchedInOrder(id) /\ HandledOnce(id)
    /\ \A e \in Executors : Working(e) => OnTime(e)

\* What the requests that write the table do to the status of a row.
Moves(id) ==
    \/ media'[id].status = media[id].status
    \/ media[id].status = "unused" /\ media'[id].status = "pending"
    \/ media'[id].status = "deleted"
    \/ media'[id].status = "processing" /\ \E r \in Requests : HoldsLock(r, id) /\ req'[r].pc = "done"

LEMMA RequestsMove ==
  ASSUME TInv, NEW id \in MediaIds,
         \/ \E r \in Requests : InitInsert(r) \/ ConfirmCommit(r) \/ DeleteCommit(r)
         \/ \E i \in MediaIds, visible \in BOOLEAN : SetVisibility(i, visible)
         \/ \E u \in Users : DeleteUser(u)
  PROVE  Moves(id) /\ UNCHANGED <<queue, job, announced>>
<1>0. media \in [MediaIds -> Row] /\ req \in [Requests -> Request]
  BY DEF TInv, MediaOK, ReqOK
<1>1. ASSUME NEW r \in Requests, InitInsert(r) PROVE Moves(id) /\ UNCHANGED <<queue, job, announced>>
  BY <1>0, <1>1 DEF InitInsert, Moves, Absent
<1>2. ASSUME NEW r \in Requests, ConfirmCommit(r) PROVE Moves(id) /\ UNCHANGED <<queue, job, announced>>
  <2>1. req'[r].pc = "done"
    BY <1>0, <1>2, EndedRequest DEF ConfirmCommit, Finish
  <2>2. CASE HoldsLock(r, id)
    <3>1. media'[id].status = "processing"
      BY <1>0, <1>2, <2>2 DEF ConfirmCommit, Row
    <3> QED
      BY <1>2, <2>1, <2>2, <3>1 DEF ConfirmCommit, Moves
  <2>3. CASE ~HoldsLock(r, id)
    BY <1>2, <2>3 DEF ConfirmCommit, Moves
  <2> QED
    BY <2>2, <2>3
<1>3. ASSUME NEW r \in Requests, DeleteCommit(r) PROVE Moves(id) /\ UNCHANGED <<queue, job, announced>>
  BY <1>0, <1>3 DEF DeleteCommit, Moves, Absent
<1>4. ASSUME NEW i \in MediaIds, NEW visible \in BOOLEAN, SetVisibility(i, visible)
      PROVE  Moves(id) /\ UNCHANGED <<queue, job, announced>>
  BY <1>0, <1>4 DEF SetVisibility, Moves, Row
<1>5. ASSUME NEW u \in Users, DeleteUser(u) PROVE Moves(id) /\ UNCHANGED <<queue, job, announced>>
  BY <1>0, <1>5 DEF DeleteUser, Moves, Row
<1> QED
  BY <1>1, <1>2, <1>3, <1>4, <1>5

LEMMA RequestsOnce ==
  ASSUME TInv, RInv, Unconfirming, \A id \in MediaIds : Moves(id), UNCHANGED <<queue, job, announced>>
  PROVE  ItemsOnce'
<1>1. ASSUME NEW id \in MediaIds, media'[id].status = "processing", media[id].status # "processing"
      PROVE  ~Uncommitted(id)' /\ Untouched(id)
  <2>1. PICK r \in Requests : HoldsLock(r, id) /\ req'[r].pc = "done"
    BY <1>1 DEF Moves
  <2>2. Confirms(r, id) /\ req[r].pc = "sent"
    BY <2>1 DEF HoldsLock, Confirms
  <2>3. Confirms(r, id)'
    BY <2>2 DEF Unconfirming
  <2>4. Uncommitted(id)
    BY <2>2 DEF Uncommitted, RInv, ConfirmsOnce
  <2> QED
    BY <2>1, <2>3, <2>4 DEF Uncommitted, RInv, TouchedInOrder
<1>2. \A e \in Executors, id \in MediaIds : WorksOn(e, id)' <=> WorksOn(e, id)
  BY DEF WorksOn, Working
<1>3. ASSUME NEW id \in MediaIds PROVE TouchedInOrder(id)' /\ HandledOnce(id)'
  <2>1. Uncommitted(id)' => Untouched(id)'
    <3> SUFFICES ASSUME Uncommitted(id)' PROVE Untouched(id)'
      OBVIOUS
    <3>1. Untouched(id)
      BY UnconfirmingOnce DEF RInv, TouchedInOrder
    <3>2. media'[id].status \in {"unused", "pending", "deleted"}
      BY <1>1, <3>1 DEF Untouched, Moves
    <3> QED
      BY <1>2, <3>1, <3>2 DEF Untouched
  <2>2. Unsent(id)' => queue'[id] = 0
    BY UnconfirmingOnce DEF RInv, TouchedInOrder
  <2>3. HandledOnce(id)'
    BY <1>2 DEF RInv, HandledOnce
  <2> QED
    BY <2>1, <2>2, <2>3 DEF TouchedInOrder
<1>4. ASSUME NEW e \in Executors, Working(e)' PROVE OnTime(e)'
  <2>1. Working(e) /\ OnTime(e) /\ job[e].id \in MediaIds
    BY <1>4 DEF Working, RInv, TInv, JobOK
  <2>2. PICK id \in MediaIds : id = job[e].id
    BY <2>1
  <2>3. ~Untouched(id)
    BY <2>1, <2>2 DEF Untouched, WorksOn
  <2>4. media'[id].status \in {"deleted", media[id].status}
    BY <1>1, <2>1, <2>2, <2>3 DEF Moves, OnTime
  <2> QED
    BY <2>1, <2>2, <2>4 DEF OnTime
<1> QED
  BY <1>3, <1>4 DEF ItemsOnce

LEMMA TakeOnce ==
  ASSUME TInv, RInv, Unconfirming, NEW w \in Workers, NEW id \in MediaIds, WorkerTake(w, id)
  PROVE  ItemsOnce'
<1>0. /\ job \in [Executors -> Job] /\ queue \in [MediaIds -> Nat] /\ w \in Executors
      /\ UNCHANGED <<media, announced>> /\ queue[id] = 1 /\ queue' = [queue EXCEPT ![id] = 0]
  <2>1. queue[id] > 0 /\ queue' = [queue EXCEPT ![id] = @ - 1] /\ UNCHANGED <<media, announced>>
    BY DEF WorkerTake
  <2>2. queue[id] = 1
    BY <2>1 DEF RInv, HandledOnce
  <2> QED
    BY <2>1, <2>2 DEF TInv, JobOK, RestOK, Executors
<1>1. /\ announced[id] = 0 /\ \A e \in Executors : ~WorksOn(e, id)
      /\ ~Unsent(id)
  BY <1>0 DEF RInv, HandledOnce, TouchedInOrder
<1>2. \A e \in Executors : e # w => job'[e] = job[e]
  BY <1>0 DEF WorkerTake
<1>3. \/ job'[w] = job[w]
      \/ media[id].status = "processing" /\ job'[w] = Load(id, "fetch")
  BY <1>0 DEF WorkerTake
<1>4. job[w].pc = "idle"
  BY DEF WorkerTake
<1>5. WorksOn(w, id)' \/ ~Working(w)'
  BY <1>3, <1>4 DEF WorksOn, Working, Load
<1>6. ASSUME NEW i \in MediaIds, NEW e \in Executors, WorksOn(e, i)'
      PROVE  WorksOn(e, i) \/ (e = w /\ i = id /\ job'[w] = Load(id, "fetch") /\ media[id].status = "processing")
  <2>1. CASE e = w
    BY <1>3, <1>4, <1>6, <2>1 DEF WorksOn, Working, Load
  <2>2. CASE e # w
    BY <1>2, <1>6, <2>2 DEF WorksOn, Working
  <2> QED
    BY <2>1, <2>2
<1>7. ASSUME NEW i \in MediaIds PROVE TouchedInOrder(i)' /\ HandledOnce(i)'
  <2>1. Uncommitted(i)' => Untouched(i)'
    <3> SUFFICES ASSUME Uncommitted(i)' PROVE Untouched(i)'
      OBVIOUS
    <3>1. Untouched(i)
      BY UnconfirmingOnce DEF RInv, TouchedInOrder
    <3> QED
      BY <1>0, <1>6, <3>1 DEF Untouched
  <2>2. Unsent(i)' => queue'[i] = 0
    BY <1>0, UnconfirmingOnce DEF RInv, TouchedInOrder
  <2>3. HandledOnce(i)'
    <3>1. CASE i = id
      <4>1. queue'[i] = 0 /\ announced'[i] = 0
        BY <1>0, <1>1, <3>1
      <4>2. \A d, e \in Executors : WorksOn(d, i)' /\ WorksOn(e, i)' => d = e
        BY <1>1, <1>6, <3>1
      <4> QED
        BY <4>1, <4>2 DEF HandledOnce
    <3>2. CASE i # id
      <4>1. queue'[i] = queue[i] /\ announced'[i] = announced[i]
        BY <1>0, <3>2
      <4>2. \A e \in Executors : WorksOn(e, i)' => WorksOn(e, i)
        BY <1>6, <3>2
      <4> QED
        BY <4>1, <4>2 DEF HandledOnce, RInv
    <3> QED
      BY <3>1, <3>2
  <2> QED
    BY <2>1, <2>2, <2>3 DEF TouchedInOrder
<1>8. ASSUME NEW e \in Executors, Working(e)' PROVE OnTime(e)'
  <2>1. CASE job'[e] = job[e]
    BY <1>0, <1>8, <2>1 DEF OnTime, RInv, Working
  <2>2. CASE e = w /\ media[id].status = "processing" /\ job'[w] = Load(id, "fetch")
    BY <1>0, <1>1, <2>2 DEF OnTime, Load
  <2> QED
    BY <1>2, <1>3, <2>1, <2>2
<1> QED
  BY <1>7, <1>8 DEF ItemsOnce

\* The unit of work of one executor goes on, or ends.
LEMMA WorkOnce ==
  ASSUME TInv, RInv, Unconfirming, NEW e \in Executors, UNCHANGED <<media, queue, announced>>,
         \A d \in Executors : d # e => job'[d] = job[d],
         ~Working(e)' \/ (Working(e) /\ job'[e].id = job[e].id /\ OnTime(e)')
  PROVE  ItemsOnce'
<1>1. \A d \in Executors, i \in MediaIds : WorksOn(d, i)' => WorksOn(d, i)
  BY DEF WorksOn, Working
<1>2. ASSUME NEW i \in MediaIds PROVE TouchedInOrder(i)' /\ HandledOnce(i)'
  <2>1. Uncommitted(i)' => Untouched(i)'
    <3> SUFFICES ASSUME Uncommitted(i)' PROVE Untouched(i)'
      OBVIOUS
    <3>1. Untouched(i)
      BY UnconfirmingOnce DEF RInv, TouchedInOrder
    <3> QED
      BY <1>1, <3>1 DEF Untouched
  <2>2. Unsent(i)' => queue'[i] = 0
    BY UnconfirmingOnce DEF RInv, TouchedInOrder
  <2>3. HandledOnce(i)'
    BY <1>1 DEF HandledOnce, RInv
  <2> QED
    BY <2>1, <2>2, <2>3 DEF TouchedInOrder
<1>3. ASSUME NEW d \in Executors, Working(d)' PROVE OnTime(d)'
  <2>1. CASE d = e
    BY <1>3, <2>1
  <2>2. CASE d # e
    BY <1>3, <2>2 DEF OnTime, RInv, Working
  <2> QED
    BY <2>1, <2>2
<1> QED
  BY <1>2, <1>3 DEF ItemsOnce

\* The commit of a unit of work finds its row PROCESSING, or gone.
LEMMA CommitFinds ==
  ASSUME TInv, RInv, NEW e \in Executors, CommitJob(e), NEW id \in MediaIds, id = job[e].id
  PROVE  \/ UNCHANGED media /\ ~Live(id) /\ media[id].status = "deleted" /\ ~Working(e)'
         \/ /\ media[id].status = "processing" /\ media'[id].status = job[e].status
            /\ media'[id].hash = media[id].hash
            /\ \A i \in MediaIds \ {id} : media'[i] = media[i]
            /\ job[e].status \in {"ready", "failed"}
            /\ ~Working(e)' \/ (job'[e] = [job[e] EXCEPT !.pc = "announce"] /\ job[e].status = "ready")
<1>0. /\ media \in [MediaIds -> Row] /\ job \in [Executors -> Job] /\ job[e] \in Job
      /\ Working(e) /\ OnTime(e)
  BY DEF TInv, MediaOK, JobOK, CommitJob, Working, RInv
<1>1. /\ job[e].row.status = "processing" /\ job[e].status \in {"ready", "failed"}
      /\ media[id].status \in {"deleted", "processing"}
  BY <1>0 DEF OnTime, CommitJob
<1>2. \/ job'[e] = NoJob
      \/ Live(id) /\ job[e].status = "ready" /\ job'[e] = [job[e] EXCEPT !.pc = "announce"]
  BY <1>0 DEF CommitJob
<1>3. job'[e] = NoJob => ~Working(e)'
  BY DEF Working, NoJob
<1>4. CASE media[id].status = "deleted"
  <2>1. ~Live(id)
    BY <1>4 DEF Live, LiveStatus
  <2>2. UNCHANGED media
    BY <2>1 DEF CommitJob
  <2> QED
    BY <1>2, <1>3, <1>4, <2>1, <2>2
<1>5. CASE media[id].status = "processing"
  <2>1. media' = [media EXCEPT ![id] = Updated(media[id], job[e])]
    BY <1>5 DEF CommitJob, Live, LiveStatus
  <2>2. media'[id] = Updated(media[id], job[e]) /\ media[id] \in Row
    BY <1>0, <2>1
  <2>3. media'[id].status = job[e].status /\ media'[id].hash = media[id].hash
    BY <1>1, <2>2 DEF Updated, Row
  <2> QED
    BY <1>0, <1>1, <1>2, <1>3, <1>5, <2>1, <2>3
<1> QED
  BY <1>1, <1>4, <1>5

LEMMA CommitOnce ==
  ASSUME TInv, RInv, Unconfirming, NEW e \in Executors, CommitJob(e) PROVE ItemsOnce'
<1>0. /\ job \in [Executors -> Job] /\ Working(e) /\ OnTime(e) /\ job[e].id \in MediaIds
      /\ UNCHANGED <<queue, announced>> /\ \A d \in Executors : d # e => job'[d] = job[d]
  BY DEF TInv, JobOK, CommitJob, Working, RInv
<1> PICK id \in MediaIds : id = job[e].id
  BY <1>0
<1>1. \A d \in Executors : d # e => ~WorksOn(d, id)
  BY <1>0 DEF RInv, HandledOnce, WorksOn
<1>2. ~Untouched(id)
  BY <1>0 DEF Untouched, WorksOn
<1>f. \/ UNCHANGED media /\ ~Working(e)'
      \/ /\ media'[id].status = job[e].status
         /\ \A i \in MediaIds \ {id} : media'[i] = media[i]
         /\ ~Working(e)' \/ (job'[e] = [job[e] EXCEPT !.pc = "announce"] /\ job[e].status = "ready")
  BY CommitFinds
<1>3. \A i \in MediaIds : i # id => media'[i] = media[i]
  BY <1>f
<1>4. ~Working(e)' \/ (job'[e].id = id /\ OnTime(e)')
  <2>1. CASE /\ media'[id].status = "ready"
             /\ job'[e] = [job[e] EXCEPT !.pc = "announce"]
    <3>1. /\ job'[e].id = id /\ job'[e].row = job[e].row /\ job'[e].pc = "announce"
          /\ job'[e].status = job[e].status
      BY <1>0, <2>1 DEF Job
    <3> QED
      BY <1>0, <2>1, <3>1 DEF OnTime
  <2> QED
    BY <1>f, <2>1
<1>5. \A d \in Executors, i \in MediaIds : WorksOn(d, i)' => WorksOn(d, i)
  BY <1>0, <1>4 DEF WorksOn, Working
<1>6. ASSUME NEW i \in MediaIds PROVE TouchedInOrder(i)' /\ HandledOnce(i)'
  <2>1. Uncommitted(i)' => Untouched(i)'
    <3> SUFFICES ASSUME Uncommitted(i)' PROVE Untouched(i)'
      OBVIOUS
    <3>1. Untouched(i)
      BY UnconfirmingOnce DEF RInv, TouchedInOrder
    <3> QED
      BY <1>0, <1>2, <1>3, <1>5, <3>1 DEF Untouched
  <2>2. Unsent(i)' => queue'[i] = 0
    BY <1>0, UnconfirmingOnce DEF RInv, TouchedInOrder
  <2>3. HandledOnce(i)'
    BY <1>0, <1>5 DEF HandledOnce, RInv
  <2> QED
    BY <2>1, <2>2, <2>3 DEF TouchedInOrder
<1>7. ASSUME NEW d \in Executors, Working(d)' PROVE OnTime(d)'
  <2>1. CASE d = e
    BY <1>4, <1>7, <2>1
  <2>2. CASE d # e
    <3>1. job'[d] = job[d] /\ Working(d) /\ OnTime(d) /\ job[d].id \in MediaIds
      BY <1>0, <1>7, <2>2 DEF Working, RInv, TInv, JobOK
    <3>2. job[d].id # id
      BY <1>1, <2>2, <3>1 DEF WorksOn
    <3> QED
      BY <1>0, <1>3, <3>1, <3>2 DEF OnTime
  <2> QED
    BY <2>1, <2>2
<1> QED
  BY <1>6, <1>7 DEF ItemsOnce

LEMMA AnnounceOnce ==
  ASSUME TInv, RInv, Unconfirming, NEW w \in Workers, Announce(w) PROVE ItemsOnce'
<1>0. /\ w \in Executors /\ job \in [Executors -> Job] /\ Working(w) /\ OnTime(w)
      /\ job[w].id \in MediaIds /\ announced \in [MediaIds -> Nat]
      /\ UNCHANGED <<media, queue>> /\ ~Working(w)'
      /\ \A d \in Executors : d # w => job'[d] = job[d]
  BY DEF Executors, TInv, JobOK, RestOK, Announce, Working, RInv, NoJob
<1> PICK id \in MediaIds : id = job[w].id
  BY <1>0
<1>1. announced'[id] \in {0, 1} /\ \A i \in MediaIds : i # id => announced'[i] = announced[i]
  BY <1>0 DEF Announce, OnTime
<1>2. queue[id] = 0 /\ ~Untouched(id) /\ \A d \in Executors : d # w => ~WorksOn(d, id)
  BY <1>0 DEF RInv, HandledOnce, WorksOn, Untouched
<1>3. \A d \in Executors, i \in MediaIds : WorksOn(d, i)' => WorksOn(d, i) /\ i # id
  BY <1>0, <1>2 DEF WorksOn, Working
<1>4. ASSUME NEW i \in MediaIds PROVE TouchedInOrder(i)' /\ HandledOnce(i)'
  <2>1. Uncommitted(i)' => Untouched(i)'
    <3> SUFFICES ASSUME Uncommitted(i)' PROVE Untouched(i)'
      OBVIOUS
    <3>1. Untouched(i)
      BY UnconfirmingOnce DEF RInv, TouchedInOrder
    <3> QED
      BY <1>0, <1>1, <1>2, <1>3, <3>1 DEF Untouched
  <2>2. Unsent(i)' => queue'[i] = 0
    BY <1>0, UnconfirmingOnce DEF RInv, TouchedInOrder
  <2>3. HandledOnce(i)'
    BY <1>0, <1>1, <1>2, <1>3 DEF HandledOnce, RInv
  <2> QED
    BY <2>1, <2>2, <2>3 DEF TouchedInOrder
<1>5. ASSUME NEW d \in Executors, Working(d)' PROVE OnTime(d)'
  <2>1. d # w /\ job'[d] = job[d] /\ Working(d) /\ OnTime(d) /\ job[d].id \in MediaIds
    BY <1>0, <1>5 DEF Working, RInv, TInv, JobOK
  <2>2. job[d].id # id
    BY <1>2, <2>1 DEF WorksOn
  <2> QED
    BY <1>0, <1>1, <2>1, <2>2 DEF OnTime
<1> QED
  BY <1>4, <1>5 DEF ItemsOnce

\* The first confirm of an item finds it pending: nothing else has touched it.
LEMMA ConfirmReadOnce ==
  ASSUME OneConfirm, TInv, RInv, NEW r \in Requests, NEW u \in Users, NEW id \in MediaIds,
         ConfirmRead(r, u, id), Live(id), media[id].uploader = u
  PROVE  RInv'
<1>0. req \in [Requests -> Request] /\ req[r].pc = "new" /\ req[r].op = "none"
  BY DEF TInv, ReqOK, RInv, ConfirmsOnce, ConfirmRead
<1>1. \A q \in Requests : ~Confirms(q, id)
  <2> DEFINE S == {q \in Requests : req[q].op = "confirm" /\ id \in req[q].ids}
  <2>1. Cardinality(S) < 1
    BY DEF ConfirmRead, OneConfirm
  <2>2. IsFiniteSet(S) /\ Cardinality(S) \in Nat
    <3>1. S \in SUBSET Requests
      OBVIOUS
    <3> HIDE DEF S
    <3> QED
      BY <3>1, FS_Subset, FS_CardinalityType DEF OneConfirm
  <2>3. S = {}
    <3> HIDE DEF S
    <3> QED
      BY <2>1, <2>2, FS_EmptySet
  <2> QED
    BY <2>3 DEF Confirms
<1>2. Untouched(id) /\ queue[id] = 0
  BY <1>1 DEF RInv, TouchedInOrder, Uncommitted, Unsent
<1>3. media[id].status = "pending"
  BY <1>2 DEF Untouched, Live, LiveStatus
<1> DEFINE new == Opened("confirm", u, NoHash, {id}, media[id].status, {}, "none")
<1>4. req' = [req EXCEPT ![r] = new] /\ UNCHANGED <<media, queue, job, announced>>
  BY DEF ConfirmRead
<1>5. new.op = "confirm" /\ new.pc = "read" /\ new.ids = {id} /\ new.was = "pending"
  BY <1>3 DEF Opened
<1> HIDE DEF new
<1>6. req'[r] = new /\ \A q \in Requests : q # r => req'[q] = req[q]
  BY <1>0, <1>4
<1>7. \A q \in Requests, i \in MediaIds : Confirms(q, i)' <=> Confirms(q, i) \/ (q = r /\ i = id)
  BY <1>0, <1>5, <1>6 DEF Confirms
<1>8. ConfirmsOnce'
  <2>1. \A q \in Requests : req'[q].pc = "new" => req'[q].op = "none"
    BY <1>5, <1>6 DEF RInv, ConfirmsOnce
  <2>2. \A i \in MediaIds, p, q \in Requests : Confirms(p, i)' /\ Confirms(q, i)' => p = q
    BY <1>1, <1>7 DEF RInv, ConfirmsOnce
  <2>3. ASSUME NEW i \in MediaIds, NEW q \in Requests, Confirms(q, i)', req'[q].pc \in {"read", "sent"}
        PROVE  req'[q].was = "pending"
    BY <1>5, <1>6, <1>7, <2>3 DEF RInv, ConfirmsOnce
  <2> QED
    BY <2>1, <2>2, <2>3 DEF ConfirmsOnce
<1>9. ASSUME NEW i \in MediaIds
      PROVE  /\ Uncommitted(i)' => Uncommitted(i) \/ i = id
             /\ Unsent(i)' => Unsent(i) \/ i = id
  <2>1. CASE i = id
    BY <2>1
  <2>2. CASE i # id
    <3>1. \A q \in Requests : Confirms(q, i) => req'[q] = req[q] /\ Confirms(q, i)'
      BY <1>0, <1>6, <1>7 DEF Confirms
    <3> QED
      BY <3>1 DEF Uncommitted, Unsent
  <2> QED
    BY <2>1, <2>2
<1>10. \A i \in MediaIds : TouchedInOrder(i)' /\ HandledOnce(i)'
  BY <1>2, <1>4, <1>9 DEF RInv, TouchedInOrder, HandledOnce, Untouched, WorksOn, Working
<1>11. \A e \in Executors : Working(e)' => OnTime(e)'
  BY <1>4 DEF RInv, Working, OnTime
<1> QED
  BY <1>8, <1>10, <1>11 DEF RInv

\* The only message about an item is sent before anything has touched it.
LEMMA ConfirmSendOnce ==
  ASSUME TInv, RInv, NEW r \in Requests, ConfirmSend(r), req' = [req EXCEPT ![r].pc = "sent"]
  PROVE  RInv'
<1>0. /\ req \in [Requests -> Request] /\ req[r].pc = "read" /\ req[r].op = "confirm"
      /\ UNCHANGED <<media, job, announced>> /\ queue \in [MediaIds -> Nat]
      /\ req[r].ids \subseteq MediaIds
  BY DEF TInv, ReqOK, RestOK, ConfirmSend, Request
<1>1. /\ req'[r].pc = "sent" /\ req'[r].op = "confirm" /\ req'[r].ids = req[r].ids
      /\ req'[r].was = req[r].was /\ \A q \in Requests : q # r => req'[q] = req[q]
  BY <1>0 DEF Request
<1>2. \A q \in Requests, i \in MediaIds : Confirms(q, i)' <=> Confirms(q, i)
  BY <1>0, <1>1 DEF Confirms
<1>3. PICK id \in req[r].ids : queue' = [queue EXCEPT ![id] = queue[id] + 1]
  <2>1. ~Finish(r, "error")
    BY <1>0, <1>1, EndedRequest DEF Finish
  <2> QED
    BY <2>1 DEF ConfirmSend
<1>4. id \in MediaIds /\ Confirms(r, id)
  BY <1>0, <1>3 DEF Confirms
<1>5. Unsent(id) /\ Uncommitted(id)
  BY <1>0, <1>4 DEF RInv, ConfirmsOnce, Unsent, Uncommitted
<1>6. Untouched(id) /\ queue[id] = 0
  BY <1>4, <1>5 DEF RInv, TouchedInOrder
<1>7. queue'[id] = 1 /\ \A i \in MediaIds : i # id => queue'[i] = queue[i]
  BY <1>0, <1>3, <1>4, <1>6
<1>8. ConfirmsOnce'
  BY <1>0, <1>1, <1>2 DEF RInv, ConfirmsOnce
<1>9. ASSUME NEW i \in MediaIds PROVE TouchedInOrder(i)' /\ HandledOnce(i)'
  <2>1. Uncommitted(i)' => Untouched(i)'
    <3>1. Uncommitted(i)' => Uncommitted(i)
      BY <1>0, <1>1, <1>2 DEF Uncommitted
    <3>2. Untouched(i)' <=> Untouched(i)
      BY <1>0 DEF Untouched, WorksOn, Working
    <3> QED
      BY <3>1, <3>2 DEF RInv, TouchedInOrder
  <2>2. Unsent(i)' => queue'[i] = 0
    <3>1. CASE i = id
      <4>1. ~Unsent(i)'
        BY <1>1, <1>2, <1>4, <3>1 DEF Unsent
      <4> QED
        BY <4>1
    <3>2. CASE i # id
      <4>1. Unsent(i)' => Unsent(i)
        BY <1>0, <1>1, <1>2 DEF Unsent
      <4> QED
        BY <1>7, <3>2, <4>1 DEF RInv, TouchedInOrder
    <3> QED
      BY <3>1, <3>2
  <2>3. HandledOnce(i)'
    <3>1. \A e \in Executors : WorksOn(e, i)' <=> WorksOn(e, i)
      BY <1>0 DEF WorksOn, Working
    <3> QED
      BY <1>0, <1>6, <1>7, <3>1 DEF RInv, HandledOnce, Untouched
  <2> QED
    BY <2>1, <2>2, <2>3 DEF TouchedInOrder
<1>10. \A e \in Executors : Working(e)' => OnTime(e)'
  BY <1>0 DEF RInv, Working, OnTime
<1> QED
  BY <1>8, <1>9, <1>10 DEF RInv

\* Fetching and encoding move the unit of work of one executor and keep it on its item.
LEMMA EncodingOnce ==
  ASSUME TInv, RInv, Unconfirming, NEW e \in Executors,
         FetchOriginal(e) \/ StoreThumbnail(e) \/ StoreOptimized(e)
  PROVE  ItemsOnce'
<1>0. /\ job \in [Executors -> Job] /\ job[e] \in Job /\ Working(e) /\ OnTime(e)
      /\ job[e].pc # "announce" /\ UNCHANGED <<media, queue, announced>>
  BY DEF TInv, JobOK, RInv, Working, FetchOriginal, StoreThumbnail, StoreOptimized
<1>1. media[job[e].id].status \in {"deleted", "processing"}
  BY <1>0 DEF OnTime
<1>2. /\ job'[e].id = job[e].id /\ job'[e].row = job[e].row
      /\ job'[e].pc \in {"thumb", "optimized", "commit"}
      /\ job'[e].pc = "commit" => job'[e].status \in {"ready", "failed"}
      /\ \A d \in Executors : d # e => job'[d] = job[d]
  <2>1. CASE FetchOriginal(e)
    BY <1>0, <2>1 DEF FetchOriginal, Job
  <2>2. CASE StoreThumbnail(e)
    <3>1. \/ job' = [job EXCEPT ![e].pc = "optimized"]
          \/ job' = [job EXCEPT ![e].pc = "optimized", ![e].thumb = TRUE]
          \/ job' = [job EXCEPT ![e].pc = "commit", ![e].status = "failed"]
      BY <1>0, <2>2 DEF StoreThumbnail
    <3> QED
      BY <1>0, <3>1 DEF Job
  <2>3. CASE StoreOptimized(e)
    BY <1>0, <2>3 DEF StoreOptimized, Job
  <2> QED
    BY <2>1, <2>2, <2>3
<1>3. OnTime(e)'
  BY <1>0, <1>1, <1>2 DEF OnTime
<1> QED
  BY <1>0, <1>2, <1>3, WorkOnce

LEMMA OnceStep == ASSUME OneConfirm, TInv, RInv, [Next]_vars PROVE RInv'
<1>1. ASSUME Unconfirming PROVE ItemsOnce'
  <2>1. ASSUME UNCHANGED <<media, queue, job, announced>> PROVE ItemsOnce'
    BY <1>1, <2>1, RequestsOnce DEF Moves
  <2>2. CASE Upload
    BY <2>1, <2>2 DEF Upload, InitRead, ConfirmRead, ClientPut
  <2>3. ASSUME \/ \E r \in Requests : InitInsert(r) \/ ConfirmCommit(r) \/ DeleteCommit(r)
               \/ \E i \in MediaIds, visible \in BOOLEAN : SetVisibility(i, visible)
               \/ \E u \in Users : DeleteUser(u)
        PROVE  ItemsOnce'
    <3>1. UNCHANGED <<queue, job, announced>>
      BY <2>3 DEF InitInsert, ConfirmCommit, DeleteCommit, SetVisibility, DeleteUser
    <3>2. \A id \in MediaIds : Moves(id)
      BY <2>3, RequestsMove
    <3> QED
      BY <1>1, <3>1, <3>2, RequestsOnce
  <2>4. CASE Moderation
    BY <2>1, <2>3, <2>4 DEF Moderation, DeleteRead
  <2>5. ASSUME NEW r \in Requests, Continue(r) PROVE ItemsOnce'
    <3>1. CASE ConfirmSend(r)
      <4>1. req' # [req EXCEPT ![r].pc = "sent"]
        BY <1>1, <3>1 DEF ConfirmSend, Unconfirming, TInv, ReqOK, Request
      <4> QED
        BY <2>1, <3>1, <4>1 DEF ConfirmSend
    <3>2. CASE DeleteObjects(r)
      BY <2>1, <3>2 DEF DeleteObjects
    <3> QED
      BY <2>3, <2>5, <3>1, <3>2 DEF Continue
  <2>6. ASSUME NEW w \in Workers, Worker(w) PROVE ItemsOnce'
    <3>1. w \in Executors
      BY DEF Executors
    <3> QED
      BY <1>1, <2>6, <3>1, TakeOnce, EncodingOnce, CommitOnce, AnnounceOnce DEF Worker, Work
  <2>7. ASSUME NEW e \in Executors, ExecutorCrash(e) PROVE ItemsOnce'
    <3>1. job'[e] = NoJob /\ \A d \in Executors : d # e => job'[d] = job[d]
      BY <2>7 DEF ExecutorCrash, TInv, JobOK
    <3>2. ~Working(e)' /\ UNCHANGED <<media, queue, announced>>
      BY <2>7, <3>1 DEF ExecutorCrash, Working, NoJob
    <3> QED
      BY <1>1, <3>1, <3>2, WorkOnce
  <2>8. CASE Crash
    BY <2>1, <2>7, <2>8 DEF Crash, ServerCrash
  <2>9. CASE UNCHANGED vars
    BY <2>1, <2>9 DEF vars
  <2> QED
    BY <2>2, <2>4, <2>5, <2>6, <2>8, <2>9 DEF Next, OneConfirm
<1>2. CASE Unconfirming
  BY <1>1, <1>2, UnconfirmingOnce DEF RInv, ItemsOnce
<1> QED
  BY <1>2, ConfirmWriters, ConfirmReadOnce, ConfirmSendOnce DEF RInv

LEMMA AnnouncedWriters ==
  ASSUME [Next]_vars PROVE UNCHANGED announced \/ \E w \in Workers : Announce(w) /\ UNCHANGED media
<1>1. CASE Upload
  BY <1>1 DEF Upload, InitRead, ConfirmRead, ClientPut
<1>2. CASE Moderation
  BY <1>2 DEF Moderation, DeleteRead, SetVisibility, DeleteUser
<1>3. ASSUME NEW r \in Requests, Continue(r) PROVE UNCHANGED announced
  BY <1>3 DEF Continue, InitInsert, ConfirmSend, ConfirmCommit, DeleteObjects, DeleteCommit
<1>4. ASSUME NEW e \in Executors, Work(e) PROVE UNCHANGED announced
  BY <1>4 DEF Work, FetchOriginal, StoreThumbnail, StoreOptimized, CommitJob
<1> QED
  BY <1>1, <1>2, <1>3, <1>4
  DEF Next, Worker, WorkerTake, Announce, Script, ScriptScan, ScriptLoad, ScriptMarkFailed,
      Crash, ServerCrash, ExecutorCrash, Executors, vars

\* Every step of the pipeline is a step in the life of its items, or none at all.
LEMMA LifecycleStep ==
  ASSUME OneConfirm, IInv, RInv, AllEntitled, [Next]_vars
  PROVE  [Lifecycle!Next]_(Lifecycle!vars)
<1>0. media \in [MediaIds -> Row] /\ req \in [Requests -> Request] /\ announced \in [MediaIds -> Nat]
  BY DEF IInv, TInv, MediaOK, ReqOK, RestOK
<1>1. ASSUME UNCHANGED announced,
             \A id \in MediaIds : media'[id].status = media[id].status /\ media'[id].hash = media[id].hash
      PROVE  UNCHANGED Lifecycle!vars
  BY <1>1 DEF Lifecycle!vars
<1>2. ASSUME NEW w \in Workers, Announce(w), UNCHANGED media
      PROVE  Lifecycle!Next \/ UNCHANGED Lifecycle!vars
  <2>1. w \in Executors /\ Working(w) /\ OnTime(w) /\ job[w].id \in MediaIds
    BY <1>2 DEF Announce, Executors, Working, IInv, TInv, JobOK, RInv
  <2> PICK id \in MediaIds : id = job[w].id
    BY <2>1
  <2>2. CASE Live(id) /\ announced' = [announced EXCEPT ![id] = announced[id] + 1]
    <3>1. media[id].status = "ready" /\ announced[id] = 0
      BY <1>2, <2>1, <2>2 DEF OnTime, Announce, Live, LiveStatus
    <3>2. Lifecycle!Announce(id)
      BY <1>2, <2>2, <3>1 DEF Lifecycle!Announce
    <3> QED
      BY <3>2 DEF Lifecycle!Next
  <2> QED
    BY <1>1, <1>2, <2>2 DEF Announce
<1>3. ASSUME NEW r \in Requests, InitInsert(r) PROVE Lifecycle!Next \/ UNCHANGED Lifecycle!vars
  <2>1. CASE UNCHANGED media
    BY <1>1, <1>3, <2>1 DEF InitInsert
  <2>2. CASE ~UNCHANGED media
    <3> DEFINE new == [Absent("pending") EXCEPT !.hash = req[r].hash, !.visible = TRUE, !.uploader = req[r].user]
    <3>1. PICK id \in MediaIds : media[id].status = "unused" /\ media' = [media EXCEPT ![id] = new]
      BY <1>3, <2>2 DEF InitInsert
    <3>2. ~\E i \in MediaIds : Live(i) /\ media[i].hash = req[r].hash
      BY <1>3, <2>2 DEF InitInsert
    <3>3. req[r].hash \in Hashes /\ UNCHANGED announced
      BY <1>3 DEF InitInsert, IInv, TInv, ReqOK
    <3>4. new.status = "pending" /\ new.hash = req[r].hash
      BY DEF Absent
    <3> HIDE DEF new
    <3> PICK h \in Hashes : h = req[r].hash
      BY <3>3
    <3>5. Lifecycle!Register(id, h)
      BY <1>0, <3>1, <3>2, <3>3, <3>4 DEF Lifecycle!Register, Lifecycle!Shown, Live, LiveStatus
    <3> QED
      BY <3>5 DEF Lifecycle!Next
  <2> QED
    BY <2>1, <2>2
<1>4. ASSUME NEW r \in Requests, ConfirmCommit(r) PROVE Lifecycle!Next \/ UNCHANGED Lifecycle!vars
  <2>1. CASE \E id \in MediaIds : HoldsLock(r, id)
    <3>1. PICK id \in MediaIds : HoldsLock(r, id)
      BY <2>1
    <3>2. Confirms(r, id) /\ Uncommitted(id) /\ Live(id)
      BY <3>1 DEF HoldsLock, Confirms, Uncommitted, RInv, ConfirmsOnce, IInv, TInv, LockOK
    <3>3. media[id].status = "pending"
      BY <3>2 DEF RInv, TouchedInOrder, Untouched, Live, LiveStatus
    <3>4. \A i \in MediaIds : HoldsLock(r, i) => i = id
      BY <3>1 DEF HoldsLock, IInv, TInv, ReqOK
    <3>5. /\ media'[id].status = "processing" /\ media'[id].hash = media[id].hash
          /\ \A i \in MediaIds : i # id => media'[i] = media[i]
          /\ UNCHANGED announced
      BY <1>0, <1>4, <3>1, <3>4 DEF ConfirmCommit, Row
    <3>6. Lifecycle!Confirm(id)
      BY <1>0, <3>3, <3>5 DEF Lifecycle!Confirm
    <3> QED
      BY <3>6 DEF Lifecycle!Next
  <2>2. CASE ~\E id \in MediaIds : HoldsLock(r, id)
    BY <1>1, <1>4, <2>2 DEF ConfirmCommit
  <2> QED
    BY <2>1, <2>2
<1>5. ASSUME NEW r \in Requests, DeleteCommit(r) PROVE Lifecycle!Next \/ UNCHANGED Lifecycle!vars
  <2>1. req[r].op = "delete" /\ req[r].ids \in SUBSET MediaIds /\ UNCHANGED announced
    BY <1>0, <1>5 DEF DeleteCommit, Request
  <2>2. \A id \in MediaIds : media'[id] = IF id \in req[r].ids THEN Absent("deleted") ELSE media[id]
    BY <1>5 DEF DeleteCommit
  <2>3. \A id \in req[r].ids : Live(id) \/ media[id].status = "deleted"
    BY <1>0, <2>1 DEF AllEntitled, Entitled, Live, Row, Status
  <2>4. Absent("deleted").status = "deleted" /\ Absent("deleted").hash = NoHash
    BY DEF Absent
  <2>5. CASE \E id \in req[r].ids : Live(id)
    <3> PICK ids \in SUBSET MediaIds : ids = req[r].ids
      BY <2>1
    <3>1. Lifecycle!Remove(ids)
      BY <2>1, <2>2, <2>3, <2>4, <2>5 DEF Lifecycle!Remove, Lifecycle!Shown, Live, LiveStatus
    <3> QED
      BY <3>1 DEF Lifecycle!Next
  <2>6. CASE \A id \in req[r].ids : ~Live(id)
    BY <1>1, <2>1, <2>2, <2>3, <2>6 DEF IInv, Buried
  <2> QED
    BY <2>5, <2>6
<1>6. ASSUME NEW i \in MediaIds, NEW visible \in BOOLEAN, SetVisibility(i, visible)
      PROVE  UNCHANGED Lifecycle!vars
  BY <1>0, <1>1, <1>6 DEF SetVisibility, Row
<1>7. ASSUME NEW u \in Users, DeleteUser(u) PROVE UNCHANGED Lifecycle!vars
  BY <1>0, <1>1, <1>7 DEF DeleteUser, Row
<1>8. ASSUME NEW e \in Executors, CommitJob(e) PROVE Lifecycle!Next \/ UNCHANGED Lifecycle!vars
  <2> PICK id \in MediaIds : id = job[e].id
    BY <1>8 DEF CommitJob, IInv, TInv, JobOK, Working
  <2>1. UNCHANGED announced
    BY <1>8 DEF CommitJob
  <2>2. CASE UNCHANGED media
    BY <1>1, <2>1, <2>2
  <2>3. CASE /\ media[id].status = "processing" /\ media'[id].status = job[e].status
             /\ media'[id].hash = media[id].hash
             /\ \A i \in MediaIds \ {id} : media'[i] = media[i]
             /\ job[e].status \in {"ready", "failed"}
    <3>1. Lifecycle!Resolve(id, "ready") \/ Lifecycle!Resolve(id, "failed")
      BY <1>0, <2>1, <2>3 DEF Lifecycle!Resolve
    <3> QED
      BY <3>1 DEF Lifecycle!Next
  <2>4. TInv
    BY DEF IInv
  <2>5. \/ UNCHANGED media
        \/ /\ media[id].status = "processing" /\ media'[id].status = job[e].status
           /\ media'[id].hash = media[id].hash
           /\ \A i \in MediaIds \ {id} : media'[i] = media[i]
           /\ job[e].status \in {"ready", "failed"}
    BY <1>8, <2>4, CommitFinds
  <2> QED
    BY <2>2, <2>3, <2>5
<1>9. CASE UNCHANGED announced
  BY <1>1, <1>3, <1>4, <1>5, <1>6, <1>7, <1>8, <1>9, MediaWriters DEF OneConfirm
<1> QED
  BY <1>2, <1>9, AnnouncedWriters

\* For clients that confirm an item once, and while no repair script runs, the pipeline
\* implements the life of an item: whatever its requests, workers, crashes and deletions
\* do, every item goes through the stages in order and is announced at most once.
THEOREM PipelineImplementsLifecycle == OneConfirm /\ Spec => ImplementsLifecycle
<1>1. Init => Lifecycle!Init
  BY DEF Init, Lifecycle!Init, Absent
<1>2. Init => AllEntitled
  BY DEF Init, AllEntitled, Entitled, NewRequest
<1>3. IInv => TInv
  BY DEF IInv
<1>4. OneConfirm /\ RInv /\ IInv /\ AllEntitled /\ [Next]_vars => RInv' /\ AllEntitled'
  BY OnceStep, EntitledStep, <1>3
<1>5. OneConfirm /\ IInv /\ RInv /\ AllEntitled /\ [Next]_vars => [Lifecycle!Next]_(Lifecycle!vars)
  BY LifecycleStep
<1>6. OneConfirm /\ Spec => [](OneConfirm /\ RInv /\ AllEntitled)
  <2>1. OneConfirm => OneConfirm'
    BY DEF OneConfirm
  <2> QED
    BY <1>2, <1>4, <2>1, OnceInit, Invariant, PTL DEF Spec
<1> QED
  BY <1>1, <1>5, <1>6, Invariant, PTL DEF Spec, ImplementsLifecycle, Lifecycle!Spec
-----------------------------------------------------------------------------
(* What QueuedIsResolved rests on, without its fairness: a message that finds  *)
(* its row PROCESSING is never dropped, and the worker that took it only moves *)
(* towards the end of its unit of work.                                       *)

\* The unit of work of a worker between its SELECT and its commit.
Processing(w) == job[w].pc \in {"fetch", "thumb", "optimized", "commit"}

Attended(id) == queue[id] > 0 \/ \E w \in Workers : Processing(w) /\ job[w].id = id

Step(pc) == CASE pc = "fetch" -> 5 [] pc = "thumb" -> 4 [] pc = "optimized" -> 3
              [] pc = "commit" -> 2 [] pc = "announce" -> 1 [] OTHER -> 0

\* A PROCESSING item that a message or a worker attends to stays attended to for as
\* long as it is PROCESSING, and a worker at work only gets nearer to the end of it,
\* on the row it loaded: in every step that is not the crash of a process.
AttendedToTheEnd ==
    [][crashes' = crashes =>
          /\ \A id \in MediaIds :
                media[id].status = "processing" /\ media'[id].status = "processing"
                    /\ Attended(id) => Attended(id)'
          /\ \A w \in Workers : Processing(w) /\ job'[w] # job[w] =>
                /\ Step(job'[w].pc) < Step(job[w].pc)
                /\ Processing(w)' => job'[w].id = job[w].id /\ job'[w].row = job[w].row]_vars

\* A worker only works on a row it loaded as PROCESSING, and commits an outcome.
WorkersInv ==
    \A w \in Workers : Processing(w) =>
        /\ job[w].row.status = "processing"
        /\ job[w].pc = "commit" => job[w].status \in {"ready", "failed"}

\* What a step does to a worker's job: nothing, the next stage, or the end of it.
WorkerMoves(w) ==
    \/ job'[w] = job[w]
    \/ /\ job[w].pc = "idle"
       /\ \E id \in MediaIds : job'[w] = Load(id, "fetch") /\ media[id].status = "processing"
    \/ /\ Processing(w)' /\ job[w].pc # "commit"
       /\ Processing(w) /\ Step(job'[w].pc) < Step(job[w].pc)
       /\ job'[w].id = job[w].id /\ job'[w].row = job[w].row
       /\ job'[w].pc = "commit" => job'[w].status \in {"ready", "failed"}
    \/ CommitJob(w) /\ job'[w].pc \in {"announce", "idle"}
    \/ job[w].pc = "announce" /\ job'[w].pc = "idle"
    \/ job'[w].pc = "idle" /\ crashes' # crashes

LEMMA WorkersMove ==
  ASSUME TInv, [Next]_vars, NEW w \in Workers PROVE WorkerMoves(w)
<1> w \in Executors /\ job \in [Executors -> Job] /\ w \notin Scripts
  BY ConstantsAssumption DEF TInv, JobOK, Executors
<1>1. CASE UNCHANGED job
  BY <1>1 DEF WorkerMoves
<1>2. ASSUME NEW v \in Workers, NEW id \in MediaIds, WorkerTake(v, id) PROVE WorkerMoves(w)
  <2>1. job[v].pc = "idle"
    BY <1>2 DEF WorkerTake
  <2>2. job'[w] = job[w] \/ (w = v /\ job'[w] = Load(id, "fetch") /\ media[id].status = "processing")
    BY <1>2 DEF WorkerTake
  <2> QED
    BY <2>1, <2>2 DEF WorkerMoves
<1>3. ASSUME NEW e \in Executors, FetchOriginal(e) PROVE WorkerMoves(w)
  <2>1. job[e] \in Job /\ job[e].pc = "fetch"
    BY <1>3 DEF FetchOriginal
  <2>2. \/ job' = [job EXCEPT ![e].pc = "thumb"]
        \/ job' = [job EXCEPT ![e].pc = "commit", ![e].status = "failed"]
    BY <1>3 DEF FetchOriginal
  <2>3. CASE w # e
    BY <2>2, <2>3 DEF WorkerMoves
  <2>4. CASE w = e
    <3>1. /\ job'[w].pc \in {"thumb", "commit"}
          /\ job'[w].id = job[w].id /\ job'[w].row = job[w].row
          /\ job'[w].pc = "commit" => job'[w].status = "failed"
      BY <2>1, <2>2, <2>4 DEF Job
    <3> QED
      BY <2>1, <2>4, <3>1 DEF WorkerMoves, Processing, Step
  <2> QED
    BY <2>3, <2>4
<1>4. ASSUME NEW e \in Executors, StoreThumbnail(e) PROVE WorkerMoves(w)
  <2>1. job[e] \in Job /\ job[e].pc = "thumb"
    BY <1>4 DEF StoreThumbnail
  <2>2. \/ job' = [job EXCEPT ![e].pc = "commit", ![e].status = "failed"]
        \/ job' = [job EXCEPT ![e].pc = "optimized"]
        \/ job' = [[job EXCEPT ![e].pc = "optimized"] EXCEPT ![e].thumb = TRUE]
    BY <1>4 DEF StoreThumbnail
  <2>3. CASE w # e
    BY <2>2, <2>3 DEF WorkerMoves
  <2>4. CASE w = e
    <3>1. /\ job'[w].pc \in {"optimized", "commit"}
          /\ job'[w].id = job[w].id /\ job'[w].row = job[w].row
          /\ job'[w].pc = "commit" => job'[w].status = "failed"
      BY <2>1, <2>2, <2>4 DEF Job
    <3> QED
      BY <2>1, <2>4, <3>1 DEF WorkerMoves, Processing, Step
  <2> QED
    BY <2>3, <2>4
<1>5. ASSUME NEW e \in Executors, StoreOptimized(e) PROVE WorkerMoves(w)
  <2> DEFINE ready == [job EXCEPT ![e].pc = "commit", ![e].status = "ready"]
  <2>1. job[e] \in Job /\ job[e].pc = "optimized"
    BY <1>5 DEF StoreOptimized
  <2>2. \/ job' = [job EXCEPT ![e].pc = "commit", ![e].status = "failed"]
        \/ job' = [ready EXCEPT ![e].optimized = TRUE]
        \/ job' = [ready EXCEPT ![e].optimized = TRUE, ![e].thumb = TRUE]
        \/ job' = ready
    BY <1>5 DEF StoreOptimized
  <2>3. CASE w # e
    BY <2>2, <2>3 DEF WorkerMoves
  <2>4. CASE w = e
    <3>1. /\ job'[w].pc = "commit" /\ job'[w].status \in {"ready", "failed"}
          /\ job'[w].id = job[w].id /\ job'[w].row = job[w].row
      BY <2>1, <2>2, <2>4 DEF Job
    <3> QED
      BY <2>1, <2>4, <3>1 DEF WorkerMoves, Processing, Step
  <2> QED
    BY <2>3, <2>4
<1>6. ASSUME NEW e \in Executors, CommitJob(e) PROVE WorkerMoves(w)
  <2>1. job'[e] = [job[e] EXCEPT !.pc = "announce"] \/ job'[e] = NoJob
    BY <1>6 DEF CommitJob
  <2>2. w # e => job'[w] = job[w]
    BY <1>6 DEF CommitJob
  <2>3. job'[e].pc \in {"announce", "idle"}
    BY <2>1 DEF Job, NoJob
  <2> QED
    BY <1>6, <2>2, <2>3 DEF WorkerMoves
<1>7. ASSUME NEW e \in Executors, ExecutorCrash(e) PROVE WorkerMoves(w)
  <2>1. crashes' # crashes
    BY <1>7 DEF ExecutorCrash, TInv, RestOK
  <2>2. (w # e => job'[w] = job[w]) /\ job'[e].pc = "idle"
    BY <1>7 DEF ExecutorCrash, NoJob
  <2> QED
    BY <2>1, <2>2 DEF WorkerMoves
<1>8. ASSUME NEW v \in Workers, Announce(v) PROVE WorkerMoves(w)
  BY <1>8 DEF Announce, WorkerMoves, NoJob, Executors
<1>9. ASSUME NEW s \in Scripts, ScriptScan(s) \/ ScriptMarkFailed(s) PROVE WorkerMoves(w)
  BY <1>9 DEF ScriptScan, ScriptMarkFailed, WorkerMoves
<1>10. ASSUME NEW s \in Scripts, NEW id \in MediaIds, ScriptLoad(s, id) PROVE WorkerMoves(w)
  BY <1>10 DEF ScriptLoad, WorkerMoves
<1> QED
  BY <1>1, <1>2, <1>3, <1>4, <1>5, <1>6, <1>7, <1>8, <1>9, <1>10, JobWriters

LEMMA WorkersStep == TInv /\ TInv' /\ WorkersInv /\ [Next]_vars => WorkersInv'
<1> SUFFICES ASSUME TInv, TInv', WorkersInv, [Next]_vars, NEW w \in Workers, Processing(w)'
             PROVE  /\ job'[w].row.status = "processing"
                    /\ job'[w].pc = "commit" => job'[w].status \in {"ready", "failed"}
  BY DEF WorkersInv
<1>1. WorkerMoves(w)
  BY WorkersMove
<1>2. CASE job'[w] = job[w]
  BY <1>2 DEF WorkersInv, Processing
<1>3. ASSUME NEW id \in MediaIds, job'[w] = Load(id, "fetch"), media[id].status = "processing"
      PROVE  job'[w].row.status = "processing" /\ job'[w].pc = "fetch"
  BY <1>3 DEF Load
<1>4. CASE job'[w].pc \in {"announce", "idle"}
  BY <1>4 DEF Processing
<1> QED
  BY <1>1, <1>2, <1>3, <1>4 DEF WorkerMoves, WorkersInv

\* The only steps that take a message off the queue take one, for a worker at rest.
LEMMA QueueWriters ==
  ASSUME TInv, [Next]_vars, NEW id \in MediaIds, queue[id] > 0
  PROVE  \/ queue'[id] > 0
         \/ \E w \in Workers : WorkerTake(w, id)
<1> queue \in [MediaIds -> Nat]
  BY DEF TInv, RestOK
<1>1. CASE Upload
  BY <1>1 DEF Upload, InitRead, ConfirmRead, ClientPut
<1>2. CASE Moderation
  BY <1>2 DEF Moderation, DeleteRead, SetVisibility, DeleteUser
<1>3. ASSUME NEW r \in Requests, Continue(r) PROVE queue'[id] > 0
  <2>1. CASE ConfirmSend(r)
    BY <2>1 DEF ConfirmSend
  <2> QED
    BY <1>3, <2>1 DEF Continue, InitInsert, ConfirmCommit, DeleteObjects, DeleteCommit
<1>4. ASSUME NEW e \in Executors, Work(e) PROVE queue' = queue
  BY <1>4 DEF Work, FetchOriginal, StoreThumbnail, StoreOptimized, CommitJob
<1>5. ASSUME NEW w \in Workers, Worker(w) PROVE queue'[id] > 0 \/ WorkerTake(w, id)
  <2>1. ASSUME NEW i \in MediaIds, WorkerTake(w, i) PROVE queue'[id] > 0 \/ WorkerTake(w, id)
    BY <2>1 DEF WorkerTake
  <2> QED
    BY <1>4, <1>5, <2>1 DEF Worker, Announce, Executors
<1>6. ASSUME NEW s \in Scripts, Script(s) PROVE queue' = queue
  BY <1>4, <1>6 DEF Script, ScriptScan, ScriptLoad, ScriptMarkFailed, Executors
<1>7. CASE Crash
  BY <1>7 DEF Crash, ServerCrash, ExecutorCrash
<1>8. CASE UNCHANGED vars
  BY <1>8 DEF vars
<1> QED
  BY <1>1, <1>2, <1>3, <1>5, <1>6, <1>7, <1>8 DEF Next

\* The commit of a worker leaves its row READY, FAILED or gone.
LEMMA CommitResolves ==
  ASSUME IInv, WorkersInv, NEW w \in Workers, CommitJob(w)
  PROVE  media'[job[w].id].status # "processing"
<1> DEFINE id == job[w].id
<1>1. w \in Executors /\ Working(w) /\ job[w].pc = "commit"
  BY DEF CommitJob, Working, Executors
<1>2. id \in MediaIds /\ job[w] \in Job /\ media \in [MediaIds -> Row]
  BY <1>1 DEF IInv, TInv, JobOK, MediaOK
<1>3. job[w].row.status = "processing" /\ job[w].status \in {"ready", "failed"}
  BY <1>1 DEF WorkersInv, Processing
<1>4. CASE Live(id)
  <2>1. media'[id] = Updated(media[id], job[w])
    BY <1>2, <1>4 DEF CommitJob
  <2>2. Updated(media[id], job[w]).status = job[w].status
    BY <1>2, <1>3 DEF Updated, Row
  <2> QED
    BY <1>3, <2>1, <2>2
<1>5. CASE ~Live(id)
  BY <1>2, <1>5 DEF CommitJob, Live, LiveStatus
<1> QED
  BY <1>4, <1>5

\* Only the crash of a process ever loses an item that was on its way to be resolved;
\* a worker that took one does nothing but finish it.
THEOREM AttendedItemsAreFinished == Spec => AttendedToTheEnd
<1> DEFINE Kept == \A id \in MediaIds :
                      media[id].status = "processing" /\ media'[id].status = "processing"
                         /\ Attended(id) => Attended(id)'
           Nears == \A w \in Workers : Processing(w) /\ job'[w] # job[w] =>
                      /\ Step(job'[w].pc) < Step(job[w].pc)
                      /\ Processing(w)' => job'[w].id = job[w].id /\ job'[w].row = job[w].row
<1>1. Init => WorkersInv
  BY ConstantsAssumption DEF Init, WorkersInv, Processing, NoJob, Executors
<1>2. IInv /\ IInv' /\ WorkersInv /\ [Next]_vars => WorkersInv'
  BY WorkersStep DEF IInv
<1>3. ASSUME IInv, WorkersInv, [Next]_vars, crashes' = crashes PROVE Kept
  <2> SUFFICES ASSUME NEW id \in MediaIds, media[id].status = "processing",
                      media'[id].status = "processing", Attended(id)
               PROVE  Attended(id)'
    OBVIOUS
  <2>1. CASE queue[id] > 0
    <3>1. CASE queue'[id] > 0
      BY <3>1 DEF Attended
    <3>2. ASSUME NEW w \in Workers, WorkerTake(w, id) PROVE Attended(id)'
      <4>1. job'[w] = Load(id, "fetch")
        BY <1>3, <2>1, <3>2 DEF WorkerTake, IInv, TInv, JobOK, Executors
      <4>2. Processing(w)' /\ job'[w].id = id
        BY <4>1 DEF Load, Processing
      <4> QED
        BY <4>2 DEF Attended
    <3> QED
      BY <1>3, <2>1, <3>1, <3>2, QueueWriters DEF IInv
  <2>2. ASSUME NEW w \in Workers, Processing(w), job[w].id = id PROVE Attended(id)'
    <3>1. ~CommitJob(w)
      BY <1>3, <2>2, CommitResolves
    <3>2. WorkerMoves(w)
      BY <1>3, WorkersMove DEF IInv
    <3>3. Processing(w)' /\ job'[w].id = id
      BY <1>3, <2>2, <3>1, <3>2 DEF WorkerMoves, Processing
    <3> QED
      BY <3>3 DEF Attended
  <2> QED
    BY <2>1, <2>2 DEF Attended
<1>4. ASSUME IInv, [Next]_vars, crashes' = crashes PROVE Nears
  <2> SUFFICES ASSUME NEW w \in Workers, Processing(w), job'[w] # job[w]
               PROVE  /\ Step(job'[w].pc) < Step(job[w].pc)
                      /\ Processing(w)' => job'[w].id = job[w].id /\ job'[w].row = job[w].row
    OBVIOUS
  <2>1. WorkerMoves(w)
    BY <1>4, WorkersMove DEF IInv
  <2>2. CASE CommitJob(w) /\ job'[w].pc \in {"announce", "idle"}
    BY <2>2 DEF CommitJob, Step, Processing
  <2> QED
    BY <1>4, <2>1, <2>2 DEF WorkerMoves, Processing
<1>5. IInv /\ WorkersInv /\ [Next]_vars => [crashes' = crashes => Kept /\ Nears]_vars
  BY <1>3, <1>4
<1> QED
  BY <1>1, <1>2, <1>5, Invariant, PTL DEF Spec, AttendedToTheEnd
=============================================================================
