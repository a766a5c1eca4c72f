# Verification of the wedding media platform

TLA+ modules, TLC runs and TLAPS proofs about the program in `src/`: a FastAPI
backend (`src/backend/src`) with PostgreSQL, Redis, a Celery worker and an
S3-compatible object store, a Next.js client (`src/frontend/src`), and an
operator's repair script (`src/scripts/repair_stuck.py`). Everything is
translated from the code; the documents under `src/specs` serve only as the
source of promises to compare the code with.

## 1. Inventory

| Component | Code | State | Operations | Correct when |
|---|---|---|---|---|
| Upload pipeline | `services/media.py`, `routers/media.py`, `services/deduplication.py`, `models/media.py` | table `media` (hash, status, uploader, visibility, derivative paths), presigned URLs | init, direct PUT, confirm, own delete, bulk delete | one row per content; an upload is finished or fails; a deleted item stays deleted; only its owner or an admin deletes it |
| Media processing | `workers/media_processing.py`, `workers/celery_app.py` | Redis queue, a worker's copy of the row | take a message, fetch, thumbnail, optimize, commit, announce | READY means the derivatives exist and are recorded; a worker's stale copy harms nothing |
| Object storage | `services/storage.py`, `routers/objects.py` | objects per key | put, get, exists, delete, presign | objects live as long as a row uses them |
| Repair script | `scripts/repair_stuck.py` | the list it scanned | scan, check, reprocess | safe beside workers |
| Moderation, settings | `services/admin.py`, `routers/admin.py`, `models/event_config.py`, the seeding in `main.py` | rows of all tables, a singleton row of settings | hide, delete, roles, activation, account deletion, patch | decisions survive other writers; there is always an admin; one settings row |
| Accounts and sessions | `services/auth.py`, `routers/auth.py`, `deps.py`, `models/user.py`, `models/refresh_token.py` | tables `users`, `refresh_tokens` | login (get-or-create), refresh (rotation), logout | one account per name; rotation is one to one; logout revokes everything |
| Client session | `lib/api.ts`, `stores/auth.ts`, `Nav.tsx`, the login page | persisted session, shared by tabs; one refresh in flight per tab | call, refresh, login, logout, reload | no tab presents a token twice; who is shown is who acts; logout reaches every tab |
| Login throttle | `services/login_throttle.py`, `routers/auth.py` | counters with an expiry in Redis | check, record, clear | a limit on failures per address, and an end to the lock |
| Social engagement | `services/social.py`, `routers/social.py`, the three models | reactions, favorites, comments; four counts on `media` | toggle, switch, comment, delete, bulk removal, view | one row per guest and item; counts equal rows |
| Activity, realtime, push | `services/activity.py`, `websocket_manager.py`, `push_service.py`, `routers/ws.py`, `routers/notifications.py`, `PushToggle.tsx`, `lib/push.ts` | event log, connected sockets, subscriptions in the browser and on the server | record, broadcast, fan out, subscribe, unsubscribe | everyone connected hears; every subscribed device is notified; nobody is notified behind their back |
| Gallery queries and page | `services/media.py`, `components/GalleryGrid.tsx`, `lib/ws.ts`, `stores/realtime.ts` | tiles, offset, one load under way | load, load more, poll, refetch, bulk delete | the page comes to show what the gallery has |
| Downloads | `services/zip_service.py`, `routers/downloads.py`, `lib/download.ts` | a streamed archive | load entries, stream | whole archive, whatever is deleted meanwhile |
| Client uploader | `lib/useUploader.ts`, `lib/upload.ts` | the upload queue | enqueue, retry | each file ends uploaded, duplicate or failed |
| Health, e-mail, configuration, schemas, migrations, translations, deployment | the rest | none that changes | | not modelled |

**How they interact.** Handlers are coroutines of one asyncio process. Each has
a database session of its own whose transaction commits at the end of the
request (`db.py`, and the `session.commit()` in the routes). Requests meet only
in the database (READ COMMITTED, so every statement sees what has been committed
by then), in the object store, and in Redis. The pipeline hands an item to a
Celery worker by a message with its id; the worker loads the row in a
transaction of its own, works on it for seconds or minutes, and commits. Objects
are addressed by keys derived from the content hash, so that two rows of one
content, one deleted and one new, use the same keys. Accounts are referenced by
tokens (`ON DELETE CASCADE`), engagement (`CASCADE`) and media (`SET NULL`);
engagement is referenced from nothing, and the counts on `media` are redundant
with it.

**What is hard here.** Every handler reads, awaits and writes; another request,
a worker or an admin may commit in between. Messages overtake the commit they
belong to, are taken twice over (a second confirm) or lost (acknowledged early,
then a crash). Deletion meets a worker in the middle of its work. Counts are
read, changed in Python and written back. Bulk operations lock rows one by one.
Two first requests insert the same unique row. Admins act on each other. In the
browser, tabs share storage but not memory, answers arrive after the state they
were meant for has changed, and pages are addressed by offsets into a list that
moves. The list with its lines is in `PROJECT.json` under "hazards"; each has
the properties that cover it.

## 2. Modules

| Module | Models | Proofs |
|---|---|---|
| `MediaPipeline` | upload, processing, deletion, moderation of items, repair, crashes | `MediaPipelineProofs` |
| `MediaLifecycle` | what the pipeline promises per item, abstractly; refined by `MediaPipeline` | in `MediaPipelineProofs` |
| `Sessions` | login, rotation, logout, account changes on the server | `SessionsProofs` |
| `ClientAuth` | the tabs of a browser, EXTENDS `Sessions`: every step of a tab or another device is composed with the handler it calls | `ClientAuthProofs` |
| `LoginThrottle` | the failure counters around login | `LoginThrottleProofs` |
| `Social` | engagement, counts, cascades, bulk removal | `SocialProofs` |
| `Engagement` | what engagement promises: each request takes effect at one instant or not at all; refined by `Social` | in `SocialProofs` |
| `Admins` | admins changing accounts and settings, seeding at start | `AdminsProofs` |
| `GalleryView` | the gallery page over its queries, bulk deletion, the ZIP download | `GalleryViewProofs` |
| `PushSubscriptions` | the notification switch in the tabs of a browser, and the table behind it | in `RealtimeProofs` |
| `Realtime` | the announcement of an action to sockets and devices, EXTENDS `PushSubscriptions` | `RealtimeProofs` |
| `MCMediaPipeline`, `MCClientAuth`, `MCSocial`, `MCAdmins`, `MCRealtime` | symmetry sets; `MCSocial` also a start with favorites | |

**Where handlers are split.** A handler's step ends where another actor can get
in: after a SELECT whose result is used later, at a call to Redis or the object
store, and at a commit. A flush followed by nothing but a commit is one step
with it, since the locks it takes keep all others from the rows it wrote and its
constraint checks see what is committed then. A flush with something between it
and the commit keeps its row lock, and the model has it: the confirm that sends
its message before it commits (`HoldsLock`), the deletion of a comment
(`pc = "locked"`), the loop of `remove_favorites_bulk` (`held`), which flushes
before every `session.get`.

**What a write does.** SQLAlchemy writes the columns a session changed from what
it loaded, and no others (`Updated`); setting a column to the value it had
writes nothing (a confirm of a PROCESSING item, a count of 0 that stays 0). An
UPDATE of a row that is gone matches nothing and raises `StaleDataError`: the
request is an error, the task dies, the script rolls back. A DELETE of a row
that is gone only logs a warning. Unique constraints and foreign keys are
checked at the insert; where nobody catches the `IntegrityError` the reply is
"error".

### MediaPipeline

`media` is the committed table; an id that was never used is "unused", one whose
row is gone is "deleted" (ids are a sequence and never come back). `objects` is
the bucket, `urls` the contents a client holds a PUT URL for, `queue` the number
of messages per id (the order of messages is irrelevant: with several workers
there is none), `req` and `job` the control state of each request and of each
worker or script, with the row as its session loaded it.

| Code | Actions |
|---|---|
| `init_upload` | `InitRead` (find_by_hash), `InitInsert` (INSERT, commit; IntegrityError answers duplicate) |
| the browser's PUT | `ClientPut`, at any time, repeatedly, or never |
| `confirm_upload` | `ConfirmRead`, `ConfirmSend` (flush, then the message), `ConfirmCommit` |
| `delete_own_media`, `bulk_delete_own_media`, admin `delete_media` | `DeleteRead`, `DeleteObjects` (any subset may fail), `DeleteCommit` |
| `set_visibility`, `delete_user` | `SetVisibility`, `DeleteUser` |
| `process_and_announce`, `process_media` | `WorkerTake`, `FetchOriginal`, `StoreThumbnail`, `StoreOptimized`, `CommitJob`, `Announce` |
| `repair_stuck.py` | `ScriptScan`, `ScriptLoad`, `ScriptMarkFailed`, and the processing actions |
| process death | `ServerCrash` (open transactions roll back), `ExecutorCrash` (the message is lost: it was acknowledged when it was taken) |

Left out: the bytes, MIME types and sizes, captions and dates, logging; the
event row and push messages behind an announcement (only that it was recorded);
the development path (`upload/raw`, inline processing when Celery is eager). A
content keeps its file name, so that the key of its original is the same on a
retry; with another name an original may be left over, which no property here
is about.

### Sessions

`account` and `name` are the users table, `token` the refresh tokens with the
token each was rotated from (`parent`: the code does not store it). Login is
`LoginRead` (authenticate), `LoginLookup` (get_or_create_user asks again), then
`LoginReturning` or `LoginCreating`; refresh is `RefreshRead`, `RefreshUser`,
`RefreshCommit`; `Logout`, `SetActive`, `DeleteUser` are one statement each;
`Expire` is the passing of seven days. Passwords and access tokens are left out:
they write nothing here.

What the code promises fails when requests overlap, and only then. Three history
variables say when: `shared` are the tokens that two refreshes in flight had
both found valid; `signedOff` the users whose last completed login or logout was
a logout; `escaped` the tokens that a refresh had in flight when the logout of
their user committed (`InFlightOf`), and what came of them. Properties hold for
every interleaving, and exempt exactly those.

### ClientAuth

| Code | Actions |
|---|---|
| zustand's `persist` at page load | `Load` |
| the login form, `setSession` | `SubmitLogin`, `LoginAnswered` |
| `getRefresh`, `refreshAccessToken` (`api.ts`) | `Refresh401`, `RefreshAnswered` (setTokens, or clear), `RefreshLost` |
| `Nav.logout` | `LogoutServed` or `LogoutFailed` (the error is ignored), `LogoutEnds` |
| the server | `Serve`: a step of the `Sessions` handler of that request |
| other devices, admins, time | `Elsewhere` |

Every page has its own memory; what it writes, it writes whole to the storage
they share, which is read only at load. `issued` is the refresh token in the
response of a request. `sent` (per page), `crossed` (per session) and `leftBy`
are histories: the token a page presented last, whether the session changed
while a refresh of the one before was in flight, and the user the server last
logged out for this browser. Another device never presents a token of this
browser.

### LoginThrottle

`failures` and `ttl` are the Redis counter of each address and its expiry,
`login` a set of requests that can be under way at once, over and over:
`Lookup` (is_locked), the password check, `RecordFailure` or `ClearFailures`.
Every Redis operation may fail, and then the request goes on. `Tick` is time,
which also removes the keys.

### Social

`row` holds the reactions, favorites and comments, `count` the four columns of
each item. A row that is gone stays in the model as "withdrawn" (toggled off,
deleted) or "lost" (with its account), so that properties can speak of it.
`req[r].seen` is the count the request's session loaded: the SELECT is early and
the UPDATE late, and `Increased` and `Decreased` (clamped at 0) compute from it.
Requests block on the media rows others hold (`Blocked`), and PostgreSQL's
deadlock detector (`DeadlockAbort`) ends one of those that wait in a circle.
Deletions of items and accounts cascade in one step. `raced` is a history: the
items at which two requests were under way at once. Comment texts, the lists,
and the events recorded after a reaction are left out.

`Engagement` is the same service seen from outside: sets of reactions, favorites
and comments, who asked for what, and the answers. It has no handlers, sessions,
locks or counts (the counts are what overlapping requests do get wrong): a request
is called, and then served in one step, which changes the engagement of its own
guest on its own item (an admin also removes the comments of others), or nothing.
`Social` maps onto it by the rows that are live
(`Reactions`, `Favorites`, `Comments`), so that the soft deletion of comments, the
cascades and the rows of requests that roll back are all hidden by the mapping.

### Admins

`account` is the users table (active, admin), `settings` the singleton of
`event_config`. A request is `Begin` (`require_admin` and `_guard_not_self`),
then `GetUser` and `UpdateUser` or `DeleteUser`; or `GetSettings`,
`InsertSettings` and `UpdateSettings`, where reading the settings is an update
that names no field. `Login` creates accounts, `Restart` runs the lifespan of
`main.py`, which creates the built-in admin when nobody has the name. `struck`
is a history: the requests whose actor lost the role while they were in flight.
What a role change does to tokens and engagement is in `Sessions` and `Social`.

### GalleryView

Items are numbered in the order of their upload; the gallery is the sequence of
those that are shown, newest first (the default order): `InOrder` numbers the
elements of a set upwards, by their ranks, and `Without` keeps the positions of a
sequence that a filter leaves. `view` is the page's
tiles, `offset.current` and `hasMore`; `load` is `pending.current`, one load at
a time: `Poll` (every three seconds, if none is pending), `Tick` (a message on
the socket, `uploadTick` or `refreshKey`, which aborts the load under way) and
`LoadMore` start one, `ListGallery` is the query, `Receive` the loop of `load`
that asks on until it has as much as it wants, `LoadFails` its `catch`.
`BulkDelete` and `Deleted` are the two halves of `bulkDelete`; `LoadEntries`,
`StreamEntry`, `CloseArchive` the download. Deletions by others erase objects
before rows. Filters, other orders, the lightbox and the toasts are left out.

### PushSubscriptions and Realtime

`device` is the browser's own subscription (`pushManager`), shared by its tabs;
`tab` is each `PushToggle` with what it shows; `rows` is the table by endpoint;
`call` the request a toggle has sent. `Mount`, `Toggle`, `Enable`, `Disable`,
`Answered` are the control, `Select`, `Subscribe`, `Unsubscribe` the handlers,
with the SELECT early and the write late: a row found with the same owner and
keys is not written at all, and a write to a row that is gone fails. `Lose` loses
a call or its answer. `SwitchUser` is another guest logging in: nothing is
unsubscribed. A device starts without a subscription or with the row of an
endpoint it has dropped.

`Realtime` adds the sockets of one process (`socket` as the page has it,
`active` as the server does) and `record`: `Record` copies the active
connections, `SendSocket` awaits each send and drops a dead one,
`SelectSubscriptions` and `SendPush` fan out to the endpoints of the others,
and `Commit` ends the request, after all of it. `Crash` is the process. The
message that also goes to Redis reaches nobody: nothing in the program
subscribes to the channel.

## 3. Runs

All bounds are the sets and numbers in the cfg files. Symmetry is used only for
safety (invariants and properties of steps), never where fairness is, over sets
of model values the modules do not distinguish. `CHECK_DEADLOCK FALSE`
everywhere: requests, scripts and crashes are finite, so that a behaviour ends
when all are used up.

| Run | Shows | Bounds, and why they suffice |
|---|---|---|
| `pipeline_uploads` | `TypeOK`, `OneRowPerHash`, `ReadyIsStored`, `DecisionsSurvive`, `OnlyOwnerOrAdminDeletes`, `ImplementsLifecycle` | two guests, one content, two ids, four requests, one worker, one crash, failing calls: two overlapping inits; upload, delete, upload again with the first worker still at it; a guest deleting another's item in bulk |
| `pipeline_repair` | `ReadyImageComplete`, `AnnouncedComplete`, `DeletedForever` | a script and a worker on one item, which may be confirmed twice, with a crash: every pair of stale copies of one row |
| `pipeline_resolved` | `QueuedIsResolved` under fairness | two workers, two messages for one item, an image or a video, failing calls, no crash |
| `pipeline_stranded` | finding: `NeverStranded` | one upload |
| `pipeline_retry` | finding: `LostUploadCanBeRetried` | one upload and its retry |
| `client_session` | `ClientTypeOK`, `AccountsSound`, `ParentSpent`, `RotatedOnce`, `SignedOffIsFinal`, `RevokedForever`, `SingleFlight`, `IdentityAgrees`, `LogoutReachesEveryPage` | two tabs and any number of other devices, one name and two account ids (deleted and created again), three tokens, three requests: two tabs refreshing one token; a refresh that returns after a logout or after another login |
| `throttle` | `TypeOK`, `OvershootBounded`, `LockoutEnds` under fairness | two addresses, three requests that are used over and over, a limit of two, a window of two ticks, two Redis faults: three lookups before the first failure is counted |
| `social_interleaved` | `TypeOK`, `EngagementSound`, `WithdrawnForever`, `CountsAccountedFor`, `ImplementsEngagement` | a guest and an admin (who may delete the other's comment, and so are not interchangeable) on one item, two reaction types, three rows, three overlapping requests |
| `social_bulk` | `EveryRequestEnds` under fairness | two guests and two items, all favorited: two bulk removals in opposite orders, deletions under them, views behind them |
| `admins` | `TypeOK`, `AnAdminRemains`, `ActsWithAuthority`, `DecisionsStand`, `SettingsStand` | the built-in admin and two more accounts, one of which may take its name, three requests, restarts: two admins striking each other, and a third who comes in between |
| `gallery` | `TypeOK`, `ArchiveComplete`, `GalleryConverges` under fairness | three items, one per page, two per answer (so that a reload of three needs a second answer), one moderation, one failure or foreground reload, any deletions |
| `realtime` | `TypeOK`, `NotifiedIsShown`, `AudienceHears`, `DeviceHears` | two tabs, two guests, two endpoints, two presses, one loss or crash, two connections, one action |

Worth noting about the properties:

- `ReadyIsStored` is not "READY implies stored": a delete erases objects before
  its row, a crash in between leaves the row, and a slow second delete erases
  the objects of the same content uploaded again. The property says that
  nothing *else* makes an object of a READY item disappear.
- `ReadyImageComplete` has to survive a worker and a script that both hold old
  copies of the row and write only the columns they changed.
- `DecisionsSurvive` says what dirty-column UPDATEs buy: a worker that loaded the
  row minutes ago does not undo a hide or re-attribute an orphaned item.
- `ImplementsLifecycle` is a refinement: every step of the pipeline is a step of
  `MediaLifecycle` or leaves it alone, for clients that confirm once and no
  script. A second confirm takes a READY item back to PROCESSING, and the script
  finishes items that were never confirmed, so that the claim ends there.
- `ImplementsEngagement` is a refinement too, without any restriction: atomicity of
  the requests as guests see them. A loop of bulk removals that committed as it goes,
  a toggle that acts on a row of another guest or that revives one it had read, a
  request that answers "error" after it changed something would each be a step that
  `Engagement` does not have.
- `RotatedOnce`, `SignedOffIsFinal`, `CountsAccountedFor`, `AnAdminRemains` and
  `IdentityAgrees` each exempt, by a history variable, the one overlap the code
  does not guard against. Their runs show that there is no other way to break the
  promise; the exemption is what section 4 lists.
- `EngagementSound` has both foreign keys and both unique constraints in it; the
  requests in flight when an account or item goes are what it is about.
- `OvershootBounded`: the counter is read before the password is checked, so that
  as many failures as there are requests in flight can pass the limit; none more,
  but for the lookups that Redis did not answer.
- `LockoutEnds`: a locked address is admitted again, although every failure renews
  the expiry, because a locked address records none.
- `GalleryConverges`: `offset.current` may stay behind deletions and items that
  appear, and tiles may be doubled or missing meanwhile; the poll repairs it, if
  the gallery stops changing.
- `ArchiveComplete` is about the items that could be read all along (`kept`): an
  object that goes while the archive is streamed costs that item and no other.
- `NotifiedIsShown` relates the browser, the table and what the tabs show. It
  excuses the two losses that `disablePush` and `enablePush` cannot notice.

**Fairness.** `FairSpec` of `MediaPipeline` gives weak fairness to each request's
next step and to each worker: the event loop runs every coroutine that can run,
the database answers statements that wait for no lock, and Celery's workers keep
taking messages. Fairness is per worker, not per message: with two messages of
one item either will do. `Fairness` of `Social` gives it to requests. `FairSpec`
of `LoginThrottle` gives it to time and to requests past their lookup.
`GalleryView` gives it to the poll (a `setInterval` of three seconds), the
server's answer, and the page's handling of answers. Nothing is assumed of
guests, admins, the operator and faults.

**Mutants.** Each property of a passing run has a mutant in the modules, marked
as such: a definition changed as a plausible bug would change it (a missing
unique constraint, a session that writes whole rows, a dropped `max(0, ...)`),
under which the run's property fails.

## 4. Findings

1. `pipeline_stranded`: `confirm_upload` flushes PROCESSING and sends the
   message; the route commits afterwards. A worker that takes the message in
   between reads PENDING, drops it, and the item stays PROCESSING until someone
   repairs it. `QueuedIsResolved` is what does hold: a message that finds its
   row PROCESSING is enough.
2. `pipeline_retry`: after a PUT that failed, the retry meets the PENDING row of
   the first attempt, is answered 409, and the client shows a duplicate although
   nothing is stored.

Met while modelling. The first five are the exemptions of properties that hold
otherwise; the others are outside the properties.

- Two overlapping refreshes of one token both succeed (two tabs do that), and the
  token has two live successors; the specification says that a rotated token is
  not reusable (`src/specs`, FR-005). Hence `shared`.
- A refresh that overlaps a logout leaves a live token, and a page that clears its
  session while its refresh is in flight gets it back. Hence `escaped`, `crossed`.
- Of two overlapping requests on one item one overwrites the other's count, while
  `services/social.py:5` says "Denormalized counts on `media` are kept in sync
  here". Hence `raced`;
  and deleting an account takes its engagement and leaves the counts.
- Two admins who demote each other in overlapping requests leave none, while
  `contracts/admin.md` promises to prevent self-lockout by the guard against
  changing oneself. Hence `struck`. Nor does the start of the server always help:
  `main.py` creates the built-in admin only if nobody has the name, so that an
  account that was demoted, or that a guest made after the admin's was deleted,
  keeps it.
- A browser that fails to give its subscription up, or does not hear that it was
  registered, is notified while its switch is off. Hence `excused`.
- An item deleted while a worker is at it leaves derivatives behind.
- Two overlapping first logins with one name end in an internal error for one.
- The throttle's window slides (each failure renews it), `LOCKOUT_SECONDS` is not
  used, and logins of inactive accounts count as failures.
- Nothing reads the Redis channel that events are published to: what a worker
  process announces reaches no socket, and the page shows it at its next poll. The
  browser's socket does not reconnect.
- Logging out does not unsubscribe: the next guest of the browser switches off a row
  that is not theirs, which stays until they subscribe. Rows of dead endpoints are
  never removed. Of two overlapping first subscriptions one fails, and its switch
  shows off.
- `downloadZip` sends the access token as it is, without the refresh that `api.ts`
  would make.

## 5. Proofs

Every theorem holds for every value of the constants, from the named assumptions
of the modules only (`ConstantsAssumption`, `PagesAssumption`, `BoundsAreNaturals`
and the like: sets of identities are disjoint from their "none", bounds are
naturals). Each proof follows one pattern: an invariant that strengthens the
property until it is inductive (and which TLC checked first), lemmas that reduce
the actions to the few ways in which a step writes the variables the property is
about, one lemma or step per action, and a last step that is temporal.

**MediaPipelineProofs.** `TInv` is `TypeOK` made inductive: live rows and jobs
have real hashes (else an object key would not be one), an init holds its user, a
confirm at most one id, and a row that is locked exists. `IInv` adds

- `JobsAgree`: a job's copy agrees with the row on what cannot change (the hash,
  while the row exists), its copy of the derivative columns is no more than the
  row's, and a job about to commit READY on an image has both. It is what makes
  a dirty-column UPDATE by a stale session safe: the columns the UPDATE does not
  write are already TRUE in the row, because nobody ever clears them;
- `Buried`: a deleted row is blank; `AnnouncedExisted`: an announced id was used.

`MediaWriters` and `JobWriters` reduce the twenty actions to the ways a step
writes rows and jobs. From `IInv` come `UniqueContent`, `ReadyImagesComplete`,
`AnnouncementsComplete`, `DeletionIsForever` and `ModerationIsKept`;
`DeletionIsAuthorised` needs `AllEntitled` besides (what a guest's request to delete
lists is theirs, or nobody's by now), and
`ReadyItemsAreStored` needs `StoreInv`: what a job has behind it, a row has
recorded or a session is about to record is in the bucket, unless a delete
request listed that key (`Accounted`).

`PipelineImplementsLifecycle` is the refinement of `MediaLifecycle`, under
`OneConfirm` (clients confirm once, no script; finitely many requests). Its
invariant `RInv` says that an item has at most one confirm (`ConfirmsOnce`), that
nothing has happened to it before its confirm commits (`TouchedInOrder`), that
there is one message *or* one unit of work *or* an announcement (`HandledOnce`),
and that a unit of work finds the row PROCESSING or gone when it commits, READY
or gone when it announces (`OnTime`). It is not true of what `OneConfirm`
excludes, as section 3 says.

`AttendedItemsAreFinished` is the safety half of `QueuedIsResolved`. A PROCESSING
item with a message, or with a worker at it (`Attended`), keeps one of them until it
is resolved, in every step but a crash; and each step of a worker takes it to a later
stage of the same unit of work (`Step` is the variant). The one invariant it needs
besides `IInv` is `WorkersInv`: a worker loaded its row PROCESSING and commits READY
or FAILED, so that its UPDATE does write the status (a unit of work that had loaded
the row with the status it ends with would write nothing, and strand the item).

**SessionsProofs.** For any interleaving of requests: `AccountsAreSound`,
`ParentsAreSpent`, `RevocationIsForever`, `RotationIsOneToOne` and
`LogoutIsFinal`. `RaceInv`: two refreshes about to rotate one token, and one about to
rotate a token that has a successor, are in `shared`; `EscapeInv`: a token that a
refresh is about to rotate for a user who signed off is in `escaped`. These are the strengthenings that show the
two history variables to be the whole exemption: without the overlap they name,
nothing else brings a second successor or a live token after a logout.

**ClientAuthProofs.** Extends the theorems of `Sessions`: `ServerIsSessions` shows
that a step of the browser or of another device is a step of `Sessions` or leaves
it alone, so that all of the above holds behind any number of tabs. `CInv` says of
the browser what the code relies on: a response names the token its request
created and nobody else has it (`Tied`, `Undelivered`), no two calls of the
browser share a request (`Apart`), a session's token is issued and of the user
shown, or `crossed` (`Sound`), and a page that waits for no refresh has not kept the
token it presented last (`Replaced`). It gives `BrowserTypeCorrect`, `IdentitiesAgree`,
`LogoutIsShared` and `RefreshIsSingleFlight`.

**LoginThrottleProofs.** `OvershootIsBounded` from `OvershootInv`: the counter and
the admitted requests that may still fail *together* stay below the limit plus
the requests there are and the faults there were; the counter alone is not
inductive. `LockoutsRunDown` is the safety half of `LockoutEnds`: `Renewals` counts the
attempts that were let in before the lock and the faults Redis may still have, and
while an address stays locked its expiry is renewed only at the price of one of them.

**AdminsProofs.** `AnAdminAlways` and `AuthorityHolds` from `AuthorityInv` (the
actor of a request in flight is an admin, or was struck meanwhile);
`DecisionsAreKept` and `SettingsAreKept` about what UPDATEs from stale rows leave
alone.

**SocialProofs.** `EngagementIsSound` from `TInv` (what a request holds was
inserted) and the row lemmas `RowsKept`, `RowInserted`, `ItemGone`, `UserGone`: an
insert checks keys and constraints against the rows as they are then, and a
deletion takes everything that depends on it along. `WithdrawalIsForever` besides.
`CountsAreAccounted` needs more, `KInv`. `Facts` is what a request holds whatever
the others do: rows that were inserted, of the guest and the item it works on, the
count it read. `Undisturbed` is what it holds while nobody else has the item open:
the count it read is still the one stored, and the rows it read are still there.
`Exact` is the equation itself, with the difference a request in flight has made to
the rows but not yet to the count. The action lemmas then say which way each step
moves both sides: by one row through `FS_AddElement` and `FS_RemoveElement`, by
none when the item is contended (nothing is claimed of it any more), and for a
bulk removal by at most one row an item, which is where `OneRowPerGuest` comes in.

`SocialImplementsEngagement` is the refinement. It takes three invariants together:
`Facts` (what a request holds), `OneRowPerGuest` (a removed row takes exactly one
reaction or favorite with it, since none other maps to the same one) and `AInv`: a request
under way has a guest, an item and a kind that fit together, and only reactions have
a type. `ContinueEffect` reduces the steps of the handlers to four effects on the rows
(none, one inserted, one retyped, some withdrawn), `SameEngagement`, `InsertedEngagement`
and `DroppedEngagement` say what each does to the mapped sets, and `StartSimulates`,
`ContinueSimulates` and `DeletionSimulates` name the step of `Engagement` it is.

Of `EveryRequestEnds` the safety half is proved, for any number of guests, items and
requests. `RequestsRunOut`: `Remaining`, the statements a request has left, shrinks with
each of its steps and is out of reach of all others. `CirclesAreBroken`: if every
unfinished request waits for a row lock (`Waits` lists the ways), some of them are bulk
removals that wait for each other in a circle, one of which `DeadlockAbort` ends; it
rests on `HeldByBulk`, that nothing else keeps a media row from one statement to the next.

**RealtimeProofs.** `EveryoneHears` from `Owes` (a connection of the audience has
heard, or is still to be sent to, or is broken), `DevicesHear` from `Pending` in the
same way, and `SwitchIsHonest` from `Vouched`: a row of the browser's endpoint
always has somebody who vouches for it: a tab that shows the switch on or is
switching it off, or one that is about to receive the answer that turns it on; or
`excused`. `Waited` and
`Fresh` (endpoints are never reused) are what makes it inductive.

**GalleryViewProofs.** `ArchivesComplete` from `ZipInv`: what could be read all along
is in the archive or still to be streamed.

`TypeCorrect` says more than it seems to: tiles, answers and what a load has
gathered are sequences of items, and `offset.current` and the limits stay numbers,
because a load stays within the gallery (`LoadOK`). It rests on `Listed`, that `InOrder`
lists every element of a finite set of numbers once and upwards, which is proved by
counting (`EveryRank`: as many elements have different ranks as there are ranks), where
a definition by a sorting function would have needed an induction over data.

Of `GalleryConverges` the safety half is proved. `Settled` is the goal: the page is a
prefix of the gallery, its offset is its length, and the loads under way will leave it so.
`PageStaysInStep`: only a change of the gallery ends it. `PollingRepairs`: each poll and
each refresh starts a load from the top (`Repairing`), which goes on until the page is
`Settled`, unless the guest scrolls on, the call fails or the gallery changes. `LoadsEnd`:
the load ends, since it asks again only after an answer that took it closer to its limit.
`Fits` relates what a load has read to what stands in the gallery from its offset on
(`Follows`).

**Model-checked only.** Every invariant and action property of a passing run is a
theorem, for every value of the constants; the liveness properties (`QueuedIsResolved`,
`EveryRequestEnds`, `LockoutEnds`, `GalleryConverges`) are checked by TLC, since fairness
and ENABLED are out of the prover's reach. What is proved of each of them is the part that
does not speak of fairness: what is on its way is not lost, every step that is
taken is progress by a measure that cannot grow, and not everybody waits. Missing
between these theorems and the property is that the step is enabled and is taken, and the
well-founded induction over the measure.

The two properties that are findings (section 4) are false, and not provable.

## 6. What is left

In this order, were the development to go on:

1. The client's list of uploads (`useUploader.ts`): the sequential queue with
   duplicates, retries and failures, against init and confirm.
2. The gallery's filters and other orders, where an item can leave a page by
   being reacted to, and the lightbox over a list that moves.
3. The eager development path of the pipeline.

## 7. Not modelled, and why

- The uploader's list and the toasts and lightbox of the gallery page: the calls
  they make are modelled, the local state around them is presentation.
- The gallery's filters, its other orders, search and counts: queries that only
  read; the default order is the one whose pages move as items come and go.
- The eager development path (`upload/raw`, inline processing, local storage): it
  is not what is deployed.
- Decoding, thumbnails and EXIF: libraries; the model chooses whether they
  succeed.
- The serving of objects, lists, statistics and CSV export: they read.
- E-mail: a stub that no handler calls. Health checks, configuration, request
  schemas, translations: no state that changes.
- Migrations, containers and shell scripts: one-off or operational. The
  constraints the migrations create are those of the models. The load test
  (`infra/loadtest`) is a client like any other.
