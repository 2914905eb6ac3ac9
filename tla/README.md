# A verification project for Better Pingvin Share

TLA+ models of the file-sharing server in `src/backend` and of the upload loop
of its web client in `src/frontend`, checked with TLC on small instances and,
but for liveness, proved with TLAPS for all instances.
Every definition is written from the code; `PROJECT.json` maps each one to its
lines.

## The system

A NestJS server keeps its data in SQLite (through Prisma, one connection) and
the uploaded bytes in a directory per share, or in an S3 bucket. It is one
Node.js process: between two `await`s nothing else runs, at an `await` any other
request, cron job or background task may. This is the grain of all the models:
one action per stretch of code between awaits.

| Component | State | Operations | What makes it correct |
|---|---|---|---|
| Share lifecycle (`share.service.ts`) | `Share` row: `expiration`, `uploadLocked`, `isZipReady`, `removedReason`, `createdAt` | create, complete, revertComplete, update, remove, expire | a share is completed once; completed shares do not change; no life beyond the maximum |
| File storage (`file/*.service.ts`) | `File` rows, share directory or objects, `.tmp-chunk` files, S3 uploads in memory | create (chunk by chunk), remove, deleteAllFiles | every listed file has all its bytes; size limit |
| Archive and virus scan (`createZip`, `clamscan.service.ts`) | tasks nobody waits for | snapshot and write; list, scan, wipe, mark | archive holds what the share holds; malware goes |
| Jobs (`jobs.service.ts`) | the list a run is working through | deleteExpiredShares, deleteUnfinishedShares, deleteTemporaryFiles, deleteExpiredReverseShares, deleteExpiredTokens | deletes everything that is due and nothing else |
| Upload loop (`pages/upload`, `EditableUpload.tsx`) | chunk index, file id | send, go on, retry | ends; what it reports as uploaded is there |
| Share access (guards, `getFileList`, `getShareToken`) | `views`, `ShareSecurity`, assigned addresses, tokens | visit, count, assign, sign, verify | limits hold; tokens open their own share |
| Reverse shares (`reverseShare.service.ts`, `createShare.guard.ts`) | `remainingUses`, `shareExpiration`, the browser's cookie | create, getByToken, isValid, remove; the branches of create and complete | what is completed has been charged; no more shares than uses; expired links go |
| Users, LDAP, OAuth (`user.service.ts`, `oauth.service.ts`, signUp) | `User` and `OAuthUser` rows | register, invite, update, delete, sign in through a directory or provider, link, unlink | always an administrator; one account per identity |
| Sign-in, sessions, TOTP (`auth.service.ts`, `authTotp.service.ts`) | password, TOTP secret, refresh, login and reset tokens | signIn, signInTotp, signOut, reset, updatePassword, enable, verify, disable | a token is used once; no second factor nobody has; a new password ends the old sessions |
| Configuration (`config.service.ts`) | rows, a copy in memory, `config.yaml` | initialize, migrateInitUser, updateMany, update | consistent, the copy follows, the server starts |
| API tokens (`apiToken/`) | token rows; calls and uses in memory | create, revoke, authenticate, throttle, record | no more calls than the limit; the last use is known |
| E-mail, cache, logo, pages | none that matters here | | |

They interact through the rows and directories of a share: a completion starts
an archive and a scan; jobs and owners delete what uploads and scans are working
on; visitors read what owners change; a link's removal takes its shares along,
and a user's removal links, tokens and sessions, by cascade. The periods the
jobs and guards go by come from the configuration. The hard behaviours are all of one kind,
a decision made before an `await` and acted on after it, joined by process
crashes (rows and directories survive, tasks and S3 upload sessions do not),
lost HTTP answers with client retries, and the re-use of share ids.
`PROJECT.json` lists them under `hazards`, each at its line.

## The modules

| Module | Models |
|---|---|
| `ShareStore` | the clock, the Share and File rows (`db`), directories or buckets (`store`), the predicates of `shareAccess.util.ts`, deletion helpers |
| `ShareTasks` | archives and scans that run in the background |
| `ShareService` | the owner's requests, two to four steps each: `CreateCheck/Dir/Row`, `CompleteCheck/Notify/Lock`, `RevertRead/Write`, `UpdateRead/Write`, `RemoveRead` with `ExpireWrite` or `RemoveWipe/Row` |
| `FileService` | an upload as `UploadCheck/Append/Rename/Row`, a removal as `RemoveFileRead/Unlink/Row` |
| `JobsService` | cron runs: `JobList`, then `JobWipe` and `JobDelete` per share; `DeleteTemporaryFiles` |
| `ShareSystem` | all of these together, with `Crash`; the specification and its properties |
| `ShareSystemProofs` | the theorems about `ShareSystem` |
| `AtomicFiles` | abstract: a file is absent, then whole |
| `UploadClient` | the browser's loop: `Send`, `Answered` with `GoesOn` and `BeginsAgain`; the network and the process as far as they concern it: `Lose`, `ProcessDies`; the row of a file |
| `ChunkUpload` | `LocalFileService.create` under that loop: `Check`, `AppendChunk`, `RenameChunks`; implements `AtomicFiles` |
| `S3Upload` | `S3FileService.create` under it: `Open` or `Join` a multipart upload, `UploadPart`, `Finish`, the catch clause (`AbortSession`), `ReadSize`, with errors of the bucket at each call; implements `AtomicFiles`, too. What both uploads have, such as `TypeOK`, is called `S3TypeOK` here |
| `ChunkUploadProofs` | lemmas on the loop, for both services, and the theorems about `ChunkUpload` |
| `S3UploadProofs` | the theorems about `S3Upload`, from the same lemmas |
| `ShareAccess` | visits with the share they have read, against other visits, security updates, removal and re-creation |
| `ShareAccessProofs` | its theorems |
| `ReverseShare` | links: `CreateLink`, `OpenLink` (the cookie), the guard and `isValid`, the create and complete of a share with `CompleteCharge`, removal by the owner or the job as `ListShares`, `WipeShare`, `DeleteShareRow`, `DeleteLink` |
| `ReverseShareProofs` | its theorems |
| `Users` | accounts and their links to providers: `SignUpCount/Create`, `AdminAsks` then `Invite`, `Update` or `DeleteRead/Count/Row`, `LdapUpsert/Sync`, `OAuthFind/Promote/Lookup/Adopt/Connect`, `LinkFind/Create`, `UnlinkFind/Delete`, `Restart` |
| `UsersProofs` | its theorems |
| `Account` | one account's password, TOTP secret, sessions and tokens: `SignIn`, `GenerateToken`, `TotpRead/Spend/Session`, `SignOut`, `RequestReset`, `DeleteOldReset`, `CreateReset`, `ResetRead/Spend/Write`, `GivesPassword`, `EndSessions`, `PasswordWrite/Session`, `TotpCheck/Write`, `DeleteUser`, `DeleteExpiredTokens` |
| `AccountProofs` | its theorems |
| `ConfigService` | the configuration: `Load`, `MigrateInitUser`, `UpdateMany`, then `UpdateFind/Write/Refresh` per value |
| `ApiTokens` | API tokens: `CreateForUser`, `RevokeForUser`, `Cascade`, `Throttle`, `Validate`, `PersistUsage` |
| `ServerProcess` | what is in the memory of one process, the last two together, with `Restart` |
| `ServerProcessProofs` | the theorems about all three |
| `MC*` | constants for TLC |

`ShareStore <- ShareTasks <- ShareService <- FileService, JobsService <-
ShareSystem` extend one another and share variables. `UploadClient <-
ChunkUpload, S3Upload` zoom in on what `FileService` has as four steps: there
one request per file runs at a time, and chunks are not told apart.
`ShareAccess` stands alone, because visits change only `views`, assigned
addresses and tokens, none of which the share system reads. `ReverseShare` has
create and complete once more, with the guards, the cookie and the link, which
`ShareService` leaves out, and without files, archive and scan, which no link
depends on. `Users` has all accounts and no tokens, `Account` one account and
all its tokens: what they share is that the account goes, and with it its tokens.

Correspondence of state: `db[s]` is the Share row with the ids of its File rows
(`gen` numbers the rows that have had the id, `everCompleted` is history);
`store[s]` has `dir`, the finished files `disk`, the age of each `.tmp-chunk` or
multipart upload in `tmp`, and what is in `archive.zip`. In `S3Upload`,
`session[i]` is `multipartUploads[fileId]`, `parts`, `open` and `object` are the
bucket's. `rev[v]` is the ReverseShare row, `cookie[c]` the browser's
`reverse_share_token`. `users` and `links` are the User and OAuthUser tables;
`user`, `session`, `login`, `reset` the row and the token tables of one account.
`copy` is `configVariables`, `hits` and `usage` are the maps of the throttler and
of the usage service. `req[r]`, `request[r]`, `save[r]`, `job[j]`, `removal[j]`,
`call[c]`, elements of `zips`, `scans` and `writes`, `handler[h]` and `visit[v]`
are continuations: a step name and the local variables still needed.

Choices the reader should know:

* A request that is refused before it has changed anything is no step, or a
  step to "refused".
* A failing mail, and in `ShareSystem` the reverse-share branches of create and
  complete, appear as a request that may end early (`CompleteNotify`,
  `CompleteLock`).
* `update` is modelled for its effect on the expiration; its write of the
  security record is `UpdateSecurity` of `ShareAccess`. `getEditableShareEntity`
  runs more than one check on what is one read.
* Unhandled rejections are logged (`main.ts`), so a background task that rejects
  just ends. A stream of `createZip` that cannot open its file (the directory or
  the file is gone) is another matter: it emits an `error` nobody listens for,
  which may end the process. That is `Crash` where a run has crashes; where it
  has none, the archive is just never finished.
* In `ShareSystem` S3 answers do not fail transiently; in `S3Upload` any does.
  In a bucket, objects are keyed by file name (`Key`, `name`). The catch clause's
  abort and the removal of the session after it are one step (`AbortSession`).
* `ChunkUpload` leaves out the two refusals of `create` no property turns on: a
  disk without room for the chunk, and a share that is completed already.
* The bucket is external: it refuses to complete an upload that is no longer
  open or whose parts do not ascend. It replaces an object at once.
* In `ShareAccess` updates of one share by its owner do not overlap each other.
* In `ReverseShare` uploading, extending and reverting are one step each, and a
  client acts on a share once create has answered; the wipe of a share is one
  step with the look-up of its row. Share ids are used once where `MaxGen = 1`.
* "anyone" among the operations of a workload of `ReverseShare` stands for
  `share.allowUnauthenticatedShares`: `CreateShareGuard` asks `JwtGuard` first,
  which then lets everyone in, cookie or not. In `Delete` a member is an
  administrator; one who is not only lets the share expire (`Expire`).
* In `Users` and `Account` a request slot is used once, and what it creates has
  its id: accounts, links, tokens, secrets. Prisma answers queries over one
  connection (`connection_limit=1`), in the order they were made.
* `Overlapping` (`Users`) and `TotpOverlaps` (`Account`) say whether requests
  that can disturb each other overlap: two deletions of users, two requests
  about one identity, two changes of the TOTP settings. All others always may.
* What an LDAP directory or an OAuth provider answers is an input: `Task` has
  the address, the name or identity and whether it says "administrator".
* `Account` is an account with a password of its own: left out are the sign-in
  and the password check through LDAP, `oauth.disablePassword`, the account
  without a password (`updatePassword` asks it for none) and
  `oauth.ignoreTotp`. The last opens a session as a sign-in without a second
  factor does.
* Of the configuration there are the two periods that are compared with each
  other, and one key for everything `update` refuses. A save has an entry at
  least: one of nothing validates the copy and changes nothing. Left out are a
  `config.yaml` without an `initUser` section (the server does not start), a
  database that fails between a save's queries and listeners that throw.
* `hits` and `let` count calls by the clock reading they came at. The look-up of
  a token and the note of its use are one step.

## The runs

Every bound below is a constant of the `.cfg`; each run takes a minute or two at
most. `tlc -config ShareContent.cfg MCShareSystem` runs one of them; `Share*.cfg`
go with `MCShareSystem`, `UploadS3.cfg` with `MCS3Upload`, the other
`Upload*.cfg` with `MCChunkUpload`, `Access*.cfg` with `MCShareAccess`,
`Reverse*.cfg` with `MCReverseShare`, `Users*.cfg` with `MCUsers`, `Account*.cfg`
with `MCAccount`, `Server*.cfg` and `Config*.cfg` with `MCServerProcess`.

| Run | Shows | Bounds |
|---|---|---|
| `ShareRetention` | `TypeOK`; `SweptIsNotEditable`: what a cleanup run holds is past its editable period | 1 id used twice, 2 requests, both cleanups, moments 0 to 5, crashes |
| `ShareContent` | `RowsHaveBytes` on the local disk | 2 files, 2 requests, the cleanup of unfinished shares (the clock stops before the other one finds anything), 2 background tasks of a kind, moments 0 to 2 |
| `ShareEventually` | `ExpiredIsSwept` on the local disk: what has expired goes, although a run stops at the first share that the other cleanup, or its owner, has deleted | 2 shares, 1 request, an infected file and 1 scan, a run of each cleanup, both of which list the same shares, crashes, moments 0 to 3 |
| `UploadLocal` | `TypeOK`; `UploadEnds`; `UndisturbedIsListed`: what the client takes for uploaded is listed, unless the process died; `FilesAppearWhole` (refinement of `AtomicFiles`) | 2 files of 3 chunks, 6 ids, 2 invocations, 2 faults (lost answers, crashes), a size limit both files together exceed |
| `UploadS3` | `S3TypeOK`; `UploadEnds`; `DoneMeansListed`: what the client takes for uploaded is listed, whatever went wrong; `S3FilesAppearWhole` (refinement of `AtomicFiles`) | 2 files of 3 chunks, 6 ids, 2 invocations, 6 multipart uploads, 2 faults (lost answers, crashes, errors of the bucket) |
| `AccessSteady` | `OpenedByAtMostMaxIps`, `TokensNeedPassword`, `ViewsAreVisits` | 3 visits, 2 addresses, every kind of limit |
| `AccessTokens` | `TypeOK`; `TokenOpensItsShare`; `HolderNotRefused` while the owner changes the address rules | 2 visits, 1 address, id used twice, 2 security records, 2 seconds |
| `ReverseUses` | `TypeOK`; `PaidFor`; `OverdrawnByOverlapOnly` (guests only, `share.allowUnauthenticatedShares` off); `ExpiredLinksGo` (local disk) | 1 link of 1 use, 2 shares, 1 browser (guest or member), that setting on or off, 2 requests at a time, the owner's removal and a run of the job, moments 0 to 2, 3 completions |
| `UsersKept` | `TypeOK`; `SomeoneIsAdmin`; `OneAccountPerIdentity`; `SignedInWhereLinked` | up to 2 accounts to begin with, 3 requests of 8 kinds, 2 addresses, 1 identity, 1 directory name, restarts |
| `AccountSteady` | `TypeOK`; `ResetOnce`; `LoginTokenSpent`; `VerifiedSecretConfirmed`; `ExpiredTokensGo` | 4 requests of each group of kinds that touch the same state, 2 passwords |
| `ServerSteady` | `TypeOK`; `StartsAgain`; `CopyFollows`; `WithinLimit`; `UsageIsRecent` | 2 saves of 1 or 2 values at a time, with and without a `config.yaml`; or 1 token, 2 calls at a time, a limit of 2 in a period of 2, 4 moments; 2 restarts |

The bounds let each interesting case happen: two of whatever can interleave,
one more moment than the longest period, a share id used twice where re-use
matters, a file with a first, a middle and a last chunk where retries matter,
three requests where two disturb each other and a third sees the result.
Requests, runs and visits return to idle where they are not used once, so their
number bounds what runs at once and not what happens in all. `OneDay = 0` in the
content runs lets unfinished shares be swept at once. The workloads of
`ReverseUses`, `AccountSteady` and `ServerSteady` are sets of operations that go
on together; each behaviour has one of them, and operations that touch the same
state share one. `CHECK_DEADLOCK FALSE` everywhere: clocks, generations and
faults are bounded, requests that are made once end, and a client may stop
asking. With `Revs = {v1, v2}`, `Shares = {s1}` and `Requests = {r1}`, and
without `PaidFor`, `ReverseUses` has a run of the job with two expired links,
and `ExpiredLinksGo` holds there, too; both at full size are out of TLC's reach.

`RowsHaveBytes` is claimed as far as the code keeps it: of the first share under
an id (an upload that outlives its share attaches its row to the next one), and
between crashes (a crash between wiping the files and deleting the row leaves
rows without bytes until the next cleanup). In a bucket it fails as soon as two
files of a share have one name: they are one object, and removing one removes
both. `ViewsAreVisits` is likewise checked with the id used once: a visit to a
removed share writes its count to whatever row has the id by then. So is
`PaidFor`, and with one link: which link is charged is up to the cookie.

The upload to a bucket keeps one promise the local one does not: after a
restart its session is gone, so the client begins again and never takes a file
that has no row for uploaded. `FilesAppearWhole` is checked for both with the
client's requests one at a time (no "overlap" among `Faults`), and for the local
disk with appends that a crash leaves out or makes whole (no "torn").

### Fairness

`ShareSystem` assumes that a cron run that can go on does (`WF` on `JobList`, on
wipe and delete per share) and that a scan that has found something goes on:
Node runs the continuation of a settled promise, and cron starts each job for
ever. Clients owe nothing. The process does not crash for ever
(`<>[][~Crash]_vars`): without that no cleanup need ever finish.
`UploadClient` assumes that the server serves each request and the client goes
on sending (the tab stays open); faults are finite by `MaxFaults`.
`ReverseShare` assumes that removals go on and the job is started again
(`WF(RemovalStep)`), and that clients do not for ever delete the share a run
has listed next (`<>[][~DeleteRow]`): a run ends at the first row that is gone,
and a client that always comes first would stop every run there. `Account`
assumes that the hourly job runs (`WF(DeleteExpiredTokens)`), and nothing of
requests. `Users` and `ServerProcess` state no liveness.

### Where code and documents disagree

One run expects a violation of a statement of the repository, which
`PROJECT.json` quotes:

| Run | Violated | How |
|---|---|---|
| `ShareRetained` | `RetainedAfterExpiry` | a reopened share counts as unfinished, and is deleted within its retention period |

Further configurations, each with a hazard of `PROJECT.json` that the code is
exposed to. TLC finds the violation within seconds to a minute.

| Configuration | Violated | How |
|---|---|---|
| `ShareCompleteTwice` | `CompletesOnlyOpenShare` | lock checked before the mails, set after them |
| `ShareSweepS3` | `ExpiredIsSwept` | an empty share cannot be wiped in S3 |
| `ShareCreateMax` | `CreatedWithinMaxExpiration` | "never" is recognised by comparing Date objects with `==` |
| `ShareLateUpload` | `CompletedGainsNoFile` | lock checked before the append, row created after it |
| `ShareSweepRace` | `SweepSparesUnexpired` | expiration extended after the run has listed the share |
| `ShareInfected` | `InfectedIsRemoved` | `.name` of a row that does not exist ends the scan |
| `UploadSilentLoss` | `DoneMeansListed` | expected index past the loop's end after a crash before the rename |
| `UploadOverlap` | `AppendsExpectedChunk` | retry and abandoned request both append |
| `AccessViews` | `OpenedAtMostMaxViews` | lost update of `views` |
| `ReverseOverdrawn` | `UsesNeverNegative` | the guard and the charge are awaits apart |
| `UsersLastAdmin` | `SomeoneIsAdmin` | two deletions each count two administrators |
| `AccountLoginTwice` | `LoginTokenOnce` | the token is read as unused by both |
| `ConfigOverlap` | `StoredIsConsistent` | each save is validated against what the other has not written yet |

And with a few lines of one of these changed:

| Change | Violated | How |
|---|---|---|
| `ShareLateUpload`, `Files = {f1, f2, f3}` | `ArchiveHoldsAllFiles` | archive of the files known at completion |
| `ShareContent`, `Provider = "S3"`, `NameOf <- SameName`, `SYMMETRY RequestSymmetry` | `RowsHaveBytes` | two files of one name are one object |
| `ShareEventually`, `PROPERTIES FindingActedOn` | `FindingActedOn` | a crash between wiping the files and recording the reason |
| `ShareContent`, `Ops <- CrashOps` | `RowsHaveBytes` | a crash between wiping the files and deleting the row |
| `UploadSilentLoss`, `SPECIFICATION FairSpec`, `Faults = {"loss", "lastLoss"}`, `MaxFaults = 1`, no `SYMMETRY` | `UploadEndsAlways` | answer to the last chunk lost: the row exists, every retry fails |
| `UploadLocal`, `"overlap"` added to `Faults`, `SPECIFICATION Spec`, no `PROPERTIES` | `UndisturbedIsListed` | a chunk appended twice stands for the next one |
| `UploadS3`, `Uploads = {u1}`, `h3 = h3`, `Handlers = {h1, h2, h3}`, `Faults = {"loss", "overlap"}` | `S3FilesAppearWhole` | an abandoned first chunk takes the session from its retry |
| `UploadSilentLoss`, `Faults = {"crash", "torn"}`, no `SYMMETRY` | `FilesAppearWhole` | half a chunk is rounded up to a chunk |
| `UploadSilentLoss`, `Faults = {}`, `MaxSize = 3`, `Uploads = {u1, u2}` | `WithinMaxSize` | files under way are not counted |
| `UploadS3`, `Faults = {"crash"}` | `NothingLeftOpen` | an upload whose session is lost is never aborted |
| `AccessSteady`, `MaxGen = 2`, `MaxSecurities = 2`, one invariant at a time | each of the three | a visit acts on what it has read of a share removed meanwhile |
| `AccessSteady`, `Updates <- AddressUpdates`, `MaxSecurities = 2` | `OpenedByAtMostMaxIps` | a visit given a place under the old rules is let in under the new ones |
| `AccessSteady`, `Updates <- PasswordUpdates`, `MaxSecurities = 2` | `TokensNeedPassword` | a token for the old password is signed after the change |
| `ReverseOverdrawn`, `Revs = {v1, v2}` | `PaidFor` | the cookie names another link than the share's |
| `ReverseOverdrawn`, `Shares = {s1}`, `Workloads <- Everything`, `MaxGen = 2` | `PaidFor` | the id is created anew while its completion is under way |
| `ReverseOverdrawn`, `Clients = {c1, c2}`, `Requests = {r1}`, `Workloads <- Open` | `UsesNeverNegative` | two browsers have the cookie of a link with one use left; the guard lets members in, or anyone, so the second creates and completes after the first |
| `ReverseUses`, `Provider = "S3"` | `ExpiredLinksGo` | an empty share of the link cannot be wiped and ends every run of the job |
| `ReverseOverdrawn` | `NoOrphanDirectory` | a share joins a link that is being removed |
| `ReverseOverdrawn`, `Workloads <- Everything` | `ExtendedSharesStay` | the job deletes all shares of an expired link |
| `UsersLastAdmin`, `Tasks <- Demoted`, `Overlapping = FALSE` | `SomeoneIsAdmin` | `update` takes the right away without counting |
| `UsersLastAdmin`, `Tasks <- FirstSignUps`, `Founders = {}` | `OnlyFirstIsAdmin` | two registrations both count no user |
| `UsersLastAdmin`, `Tasks <- Linkings` | `OneAccountPerIdentity` | both find the identity free |
| `AccountLoginTwice`, `Workloads <- Totp` | `VerifiedSecretConfirmed` | verified is set for a secret replaced or removed meanwhile |
| `AccountLoginTwice`, `Workloads <- Passes` | `OldPasswordOpensNothing` | sessions go before the password changes |
| `ConfigOverlap`, `Saves = {a1}`, `Batches <- UpToTwo` | `StoredIsConsistent` | an error or a restart between two values of one save |
| `ConfigOverlap`, `Yamls <- UserFile` | `InitialUserOnce` | with two administrators the initial user is made again, and its address refused |

## The proofs

For any finite or infinite sets of shares, files, users, links, visits, requests
and runs (finite where something is counted), any bounds and any periods, from
the named assumptions on the constants, which are their types unless said
otherwise. In each module a lemma per action or component says once what a step
of one request does to its own continuation and leaves alone of the others; the
invariants are then proved from that. Every inductive invariant was first
checked by TLC as an invariant of the runs of its module.

`ShareSystemProofs`, from `StoreAssumption`, `ServiceAssumption` and
`ConfigAssumption` (nothing stays editable for longer than it is retained):

* `TypeCorrect == Spec => []TypeOK`: one lemma per component (`ServiceTypes`,
  `FileTypes`, `ZipTypes`, `ScanTypes`, `JobTypes`, `CrashTypes`), one step per
  action.
* `SweepSafe == Spec => []SweptIsNotEditable`: a run of `deleteExpiredShares`
  works from a list, so what matters is what it has seen.
  `SweptIsNotEditable` speaks of the present row and is not inductive.
  `SweepInv` adds `SeenPastRetention` (whatever a run has listed and not yet
  deleted was past its retention period, and stays so because the clock never
  goes back: `PastStaysPast`) and `QueueWithoutCurrent` (the share at hand has
  left the queue, so that forgetting it disturbs no other). If row and
  expiration are those that were seen, being past the retention period means
  being past the editable period, by `ConfigAssumption`
  (`SweepInvSuffices`). Take that assumption away and the theorem is false; the
  code enforces it in `validateConfigConsistency` (`StartsTheorem` below is about
  just that).
* `ContentTheorem`: without crashes, and where keys of files differ (in a bucket:
  names), `[]RowsHaveBytes`. Its exceptions must never be taken back: `Doomed`
  has them all (a second row under the id, a row that is gone, a deletion under
  way), and a doomed share stays doomed. `ListedInv`: of a share that is not, no
  listed file, and none that is being removed, is still being uploaded, and no
  remains of it are left to be uploaded on; without this a row could follow the
  removal of its bytes. `BytesInv`: what is listed, or about to be, is on disk,
  unless a removal is about to take the row.

`UsersProofs`, from `UsersAssumption`:

* `UsersTypeOK == Spec => []TypeOK`. `Typed` adds that rows have addresses, that
  a request's step fits its task, and that what a request is about to create is
  not there yet.
* `SignedInTheorem == Spec => SignedInWhereLinked`, whatever overlaps. What a
  sign-in has found or made stays on record until it is answered, or the account
  is deleted and does not come back (`Gone`), or its user has unlinked it
  (`Follows`). For the last, `Erases`: an unlinking takes a link of its own
  account, because ids of links are used once (`LinksApart`).
* `IdentityTheorem`: without overlapping requests about one identity,
  `[]OneAccountPerIdentity`. `Serial` says that what was kept apart at the start
  of two requests is apart all along; `Unlinked` that whoever is about to write
  a link has found the identity free, and that it still is. The only step that
  adds a link is one of a request in such a state (`LinkStep`).
* `SomeoneRemainsAdmin`: without overlapping deletions, and when nobody is
  demoted (`NobodyDemoted`: no update, provider or directory says "no
  administrator"), `[]SomeoneIsAdmin`. What makes it inductive is `Relies`: what
  each request has read of the administrators and acts on later still holds. A
  deletion has seen another administrator, who can only go by another deletion;
  a sign-up that has counted users knows that there is an administrator.

`AccountProofs`, from `AccountAssumption`:

* `AccountTypeOK == Spec => []TypeOK`, tokens going with the account included.
* `ResetTheorem == Spec => []ResetOnce`: `Once` says that a token somebody is
  about to write a password with is gone from the table, that nobody else is
  about to with the same one, and that a token still in the table has set none.
* `LoginTheorem == Spec => []LoginTokenSpent`: `Marked` says that a token that
  has opened a session, or is about to, is no longer unused, and never becomes
  so again.
* `TotpTheorem`: with one change of the settings at a time (`~TotpOverlaps`),
  `[]VerifiedSecretConfirmed`. `Settled` adds that what a change has read of the
  secret is what the row holds until it writes.

`ShareAccessProofs`, from `AccessAssumption`:

* `AccessTypeOK == Spec => []TypeOK`, and two action properties that hold
  whatever the owner does: `HolderTheorem == Spec => HolderNotRefused` and
  `TokenTheorem == Spec => TokenOpensItsShare`. Both are facts about one step
  from a typed state (`AssignIs`, `VerifyIs`).
* For an id that is used once (`OnceInv`): `PlacesTheorem` while the address
  rules stay (`RulesStay`), `[]OpenedByAtMostMaxIps` by `PlacesInv` (who is let
  in, or soon will be, has one of the places, and there are no more places than
  the limit a visit has read, which is the present one); `PasswordTheorem` while
  the password stays (`PasswordStays`), `[]TokensNeedPassword` by `PasswordInv`
  (who is past the checks has given the password the share has now);
  `ViewsTheorem`, `[]ViewsAreVisits`, whatever is updated, by `ViewsInv`: what a
  visit has *read* of `views` is no more than the visits either, or writing it
  back plus one would break the bound.

`ChunkUploadProofs`, from `ClientAssumption` and `UploadAssumption`, begins with
lemmas about the loop and its requests for either service (`LoopInv`): ids of
different uploads stay apart, a client waits for one request at most, and
without "overlap" an upload has one request under way. On these build:

* `ChunkTypeOK`; `ChunkListedTheorem`: without "overlap",
  `[]UndisturbedIsListed`. `QuietInv` ties the length of the temporary file to
  the chunk of the request that appends, and says that a file with all its
  chunks is about to be renamed, unless the request that would was cut off.
* `ChunkWholeTheorem`: without "overlap" and "torn", `Spec => FilesAppearWhole`.

`S3UploadProofs`, from `ClientAssumption` and `S3Assumption`, and the same
lemmas, for which it extends `ChunkUploadProofs`:

* `S3TypeTheorem == S3Spec => []S3TypeOK`, and
  `S3ListedTheorem == S3Spec => []DoneMeansListed` whatever goes wrong: the bucket
  never tells a client of another chunk than its own, and only a row lets the
  last chunk be answered.
* `S3WholeTheorem`: without "overlap", `S3Spec => S3FilesAppearWhole`, so that
  upload to a bucket implements `AtomicFiles`: initial states map to initial states,
  and each step to a step or a stutter. `S3WholeInv`: sessions have uploads of
  their own (`SessionsApart`), and a request or client that goes on finds there
  exactly the parts before its own (`S3Fine`, `ClientFine`).

`ReverseShareProofs`, from `ReverseAssumption`:

* `ReverseTypeOK == Spec => []TypeOK`. `TypeOK` is not inductive alone: that a
  request which is under way has a share goes with it (`Inv`).
* `OverdrawnTheorem == Spec => []OverdrawnByOverlapOnly`, where only guests use
  a link and `share.allowUnauthenticatedShares` is off, for any number of links
  and re-uses of an id. `RoomInv` counts the completions that have passed
  the guard and will charge the link (`Charging`): what remains, less those, is
  at least one less the number of requests.
* `PaidTheorem`: with one link and ids used once, `[]PaidFor`. `Paid` counts the
  completed shares of a link together with the requests that have paid and will
  lock one (`Paying`); `RequestInv` says that the link a completion has read of
  its share stays the share's until then, `ShareInv` that no share is created
  and completed at once, `FreshInv` that nothing refers to a link yet to be made.

`ServerProcessProofs`, from `ConfigAssumption`, `ApiAssumption` and
`ProcessAssumption`, five theorems `Spec => []...`, all from one inductive
invariant, `ProcessInv`; the two halves of it (`ConfigInv`, `ApiInv`) share
nothing but the restart.

* `ServerTypeOK`, for `TypeOK`. That no count exceeds the limit is part of it,
  and needs `HitsInv` below.
* `CopyTheorem`, for `CopyFollows`: in between, the copy may be behind, but then
  some save is about to refresh it (`CopyInv`). An error ends a save only where
  it looks for a row, never between the write and the refresh.
* `StartsTheorem`, for `StartsAgain`. While a save is under way what is stored may
  be inconsistent, so this must be said of what will be stored. `StartInv`: the
  whole batch on top of the database is consistent, and the entries already
  written are in the database (`AppliedUpTo`). Writing one more keeps both
  (`AppliedNext`, `AppliedOver`), and with the last one written the second says
  that the database is what the first speaks of. `Applied` picks the last entry
  of a key, as an object that is assigned to in a loop keeps the last.
* `LimitTheorem`, for `WithinLimit`: `HitsInv` says that the throttler has
  forgotten only what no longer counts now, and has counted nothing ahead of the
  clock, so a stretch that takes in the present moment holds no more than
  what it looks at. Calls are counted as the elements of a set (`Total`), which
  makes their sums a matter of cardinalities (`TotalGrows`, `TotalOneMore`).
* `UsageTheorem`, for `UsageIsRecent`: the last update of a row that is under way,
  or the row if none is, has the time that counts as persisted
  (`PersistedIsWritten`); updates are done in the order they were made.

Each hypothesis is needed: `~Overlapping`, `NobodyDemoted`, `~TotpOverlaps`, no
crash, differing keys, an id used once, `RulesStay`, `PasswordStays`, no
"overlap", no "torn", one link, only guests, no "anyone". For each, a configuration above has the
theorem's property violated without it.

Only model-checked is liveness (`ExpiredIsSwept`, `UploadEnds`,
`ExpiredLinksGo`, `ExpiredTokensGo`): fairness and ENABLED are beyond the prover.
Every invariant and every other action property of the runs is proved.

## Not modelled

* Refresh: `refreshAccessToken` reads a session and answers with a JWT; access
  tokens are stateless and end by their time alone.
* The provider switched while shares exist (`Provider` is a constant), and users
  removed while their shares are created: `Users`, `ConfigService` and
  `ShareSystem` are not composed.
* Owner tokens of anonymous shares: the guard decides from one read of a token
  made for the share.
* Listings of more than 1000 objects; months of different lengths.
* Scopes of API tokens, the handlers of API v1 (they call the share service),
  share recipients, descriptions, names.
* E-mail, LDAP and OAuth protocols (external), rendering, translations, the
  response cache and logo, formatting of lists and links: most of the
  repository's lines are pages, components and dictionaries, which keep no state
  of the kind the properties here are about.
