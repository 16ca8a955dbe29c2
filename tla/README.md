# hsc-auth-api: specifications, model checking and proofs

TLA+ modules of the HSC authentication and match API (a NestJS service over MySQL),
TLC configurations that check them on small instances, and theorems that the TLA+ proof
system checks for every value of the constants.

Paths are relative to the repository's root, with two abbreviations: `nest/` stands for
`src/nest/` and `services/` for `src/services/`. `PROJECT.json` maps every definition of the
modules to the lines it models.

## 1. The system

The service keeps all shared state in one MySQL database (and, for player analytics, on a
file system). It may run as several processes: nothing is kept in memory between requests,
so processes meet only in row locks, unique keys, advisory locks (`GET_LOCK`) and
conditional updates. Every mutating repository method is one transaction, most of them
beginning with `SELECT ... FOR UPDATE` on the row that owns the state. What interleaves is
therefore *transactions*, plus the requests that need several of them, plus the outside
world: the clock, the game server bridge, the edge that delivers match events, Steam.

| Component | State | Operations | Interacts with | Hard about it | What makes it correct |
|---|---|---|---|---|---|
| Match room (`nest/match/match-room.repository.ts`, `competitive-match/`) | room, participants, draft, assignments, veto, bans, competitive match | create, join, leave, cancel, confirm, draftPick, mapVetoBan; reconciliation by any read | identity (eligibility), saga | three windows that elapse silently and are reconciled later by whoever reads; automatic and manual turns race; rooms compete for players; one missing profile rolls the last step back; rooms of older releases | one seat per player, a consented and frozen roster, a fair draft and veto, a faithful match, setup ends |
| Server assignment (`nest/match/server-assignment/`) | assignments, commands | assignNextReadyForBridgeNode | match room, bridge | two polls allocate at once; servers run out | a server serves one match, rooms are served in order |
| Match bridge protocol (`nest/internal/match-bridge/`) | command, lease, result | claim, submit, finalize | bridge (external), match room | leases run out; results come late, twice, under old tokens; resources and rosters change meanwhile | the lease holder answers, command, room and reason agree, results stand, provisioning resolves |
| Match ingress (`nest/internal/match/`) | events under an idempotency key | saveAndProjectSeriesEnd, save | edge (external), match room, saga | early, repeated, misdirected events; requests with one key overlap, wait for each other's uncommitted row or are cut off, before their commit or between commit and answer | what was acknowledged is kept, one request at most is told it was first, and the end arrives |
| Contextual server access (`nest/internal/server-access/`, `nest/player/server-access/`) | none | decide | match room, assignment, identity, membership | six tables read in one decision, which five places of the code take apart from each other | the places agree, and a player is let into one server, while his match is played there |
| Player identity (`nest/player/auth/`) | accounts, email and Steam identities, one-time tokens, link intents, sessions | register, verify, reset, email login, link email, link Steam, Steam login, logout | account status | links followed twice or late; sign-ins in two steps; two linkings race for one identity | identities never move, tokens work once, a reset or a disabling ends sessions |
| Account status (`nest/admin/player-accounts/`) | accounts, sessions | setStatus | identity, profile | races the sign-ins | no session outlives a disabling |
| Membership (`nest/admin/membership/`) | memberships, audit entries | grant, activate, suspend, reactivate, cancel | match room, server access | the effective status depends on the clock, the column does not; administrators race | a standing that moves along few edges, each move audited, and ends for good |
| Player analytics (`nest/internal/player-analytics/`, `nest/player-analytics-worker/`, `nest/messaging/`) | generations, receipts, lock, active pointer on disk; queue | ingest, validate, activate, roll back, collect; publish, consume | RabbitMQ (external) | crashes between file operations, concurrent activations, redelivery | the active pointer names a complete generation, events are not lost |
| Seasons (`seasons.repo.js`, `nest/admin/seasons/`, `services/seasons/`) | seasons | create, patch, activate, close, reconcile | clock | administrators and the timer at once, under an advisory lock with a timeout | one active season, no overlap, closed is final |
| Admin authentication (`nest/admin/auth/`) | magic links, admin sessions, users | request, consume, guard | mail (external), every handler of the back office | find, create session and mark used are three statements; guard and handler are two steps | a followed link is spent, a demoted administrator is cut off |
| Users and news (`nest/admin/users/`, `nest/admin/news/`, `nest/content/news/`) | users, articles | create, update, publish, unpublish, delete | admin authentication | a change of role takes effect on whoever is signed in | what is listed has its date |
| Profile and media (`nest/player/profile/`) | profiles, picture files | first visit, patch, upload, remove, public page | file system, account status | file and row change in separate steps, and requests overlap; slugs and their rules are checked in two places | the row names an existing picture, nothing is left over, a shown slug leads to its page |
| Migration runner (`scripts/migrationRunner.js`) | schema_migrations | up | database | a crash between a file and its record | each file recorded after it ran |
| Schema, audit; bunker, other reads; uploads of the back office; throttling; configuration; deploy scripts | rows or none | reads, checks | - | no interacting state | - |

`PROJECT.json` lists every component with its sources and status, and under `hazards` every
place found in this code where a test would hardly reach, with the properties that cover it.

## 2. The modules

| Module | Models |
|---|---|
| `MatchLifecycle` | abstract: players gather in a room, the full roster is locked, an even line-up of exactly that roster is fixed once, everybody is let go |
| `MatchRoom` | `match-room.repository.ts` and `competitive-match/`: one action per operation and per reconciliation |
| `MatchRoomLegacy` | `MatchRoom` from the lock of the roster on, also from rooms that stopped at the frontier of an earlier release |
| `MatchServer` | `server-assignment.repository.ts`, `match-bridge.repository.ts`, and the projection of `series_end` in `match-ingress.repository.ts` |
| `ServerAccess` | composes `MatchServer` with rosters and identities: `nest/internal/server-access/`, `nest/player/membership/`, `nest/player/entitlements/` and the room's own checks |
| `MatchIngress` | `nest/internal/match/`: overlapping requests under one idempotency key |
| `PlayerIdentity` | `nest/player/auth/` and the status change of `nest/admin/player-accounts/` |
| `SeasonCalendar` | abstract: seasons on a calendar, each change one atomic step |
| `Seasons` | `nest/admin/seasons/` and the timer of `services/seasons/`: workers under an advisory lock |
| `PlayerAnalytics` | `nest/internal/player-analytics/`, `nest/player-analytics-worker/`, `nest/messaging/` |
| `MembershipLedger` | abstract: what a membership is worth, one audited change at a time |
| `AdminConsole` | `nest/admin/auth/`, `users/`, `membership/`, `news/`, and `nest/content/news/` |
| `PlayerProfile` | `nest/player/profile/`, the picture checks of `nest/uploads/`, and the slug of `presentation-reference/` |
| `MC...` | constants and symmetry for TLC |
| `*_proofs` | the theorems, one module for each of `MatchRoom`, `MatchServer`, `PlayerIdentity`, `Seasons`, `PlayerAnalytics`, `MatchIngress`, `AdminConsole`, `PlayerProfile` |

How they compose: `ServerAccess` extends `MatchServer` and reads its state, with the rosters of
its rooms. `MatchRoom` has the effect of the server saga on a room (`Allocate`, `Finalize`, `SeriesEnd`),
`MatchServer` has the saga in full, and `MatchIngress` has the delivery of the event that ends it,
with the room's status as its environment. Three refinements (`ImplementsLifecycle`, `ImplementsCalendar`,
`ImplementsLedger`) tie a detailed module to what it promises.

### MatchRoom

Each repository method holds the room's row lock (`lockRoom`) for the whole of its only
transaction, so each is one action. The variables are the columns: `status`, `creator`,
`members` (participant rows whose `released_at` is NULL), `round` and `confirmed`
(`confirmation_round`, `confirmed_round`), `window` / `draft.deadline` / `veto.deadline`
(a deadline is NULL, RUNNING or ELAPSED: only the comparison with `NOW()` matters), the
draft row with `side` and `pickedAt` (its assignments), the veto row with `bannedAt` and
`bannedBy` (its actions), and `match` (the competitive match with its roster).

* A window elapses (`Elapse`) and nothing happens until a request reconciles it. A command
  that finds an elapsed window commits the reconciliation and then carries on with what it
  finds; both are transactions of their own in the model, in either order with everybody
  else's. A plain read reconciles the same way, which is what drives the liveness.
* `Pick` and `Ban` are what the manual and the automatic turn share; `DraftPick` /
  `ReconcileDraft` and `MapVetoBan` / `ReconcileVeto` differ in who chooses and when.
* A thrown error rolls the transaction back, so it is a disabled action:
  `CanMaterialize` is the set of invariants that `competitive-match.invariants.ts` throws
  on, the Steam `personaname` (`named`) being the one that can fail late.
* Eligibility is looked at when a player creates or joins and not again in the room; it
  changes from outside at any time (`ChangeEligibility`, `RefreshSteamProfile`).
* `Allocate`, `Finalize`, `SeriesEnd` are the saga's effect on a room; `MatchServer` has
  them in full.

Left out: snapshots and the viewer's context (pure reads), the `version` counter (written,
never compared), texts and locale.

### MatchServer

A room has one match, a match one assignment, an assignment one command: all are indexed
by room. The allocator, the claim, the submission and the event projection are one
transaction each; the claim endpoint runs claim, assign, claim, and requests overlap, so
they interleave freely. The bridge is external and may use any token it was ever given,
repeat itself and be late; the edge likewise.

* A lease token is named by the attempt that drew it (each claim draws a fresh one).
* Queue order: `FirstReady` is the order by `ready_at`, `Claimable` by `created_at`. Both
  are locking reads over an index that starts with the status, so a reader waits for
  uncommitted rows ahead of it; the rank of a time stamp is therefore the commit order.
  Equal time stamps fall back to the id in the code and are not told apart here.
* The allocator takes the free server with the smallest key; the model takes any.
* `FinalizePrepareMatchRoom` follows the order of the checks of
  `finalizePrepareMatchRoomOnConnection` (`Verdict`); `CanFinalize` is what it throws on.
* `answeredBy` and `errored` are history variables, read by properties only.

### MatchLifecycle and the refinement

`MatchRoom!ImplementsLifecycle` maps ten room statuses to five phases and the match row to
a line-up. It says that rounds, windows, drafts, vetos and the saga add nothing to the
promise: players enter only while the room gathers, only a full roster locks, and an even
split of exactly that roster goes live, once.

### ServerAccess

A decision is one query and writes nothing, so it is an operator over the state of `MatchServer` and of
what the query finds behind a SteamID64 (`Standing`: linked or not, account, membership and its expiry).
The code decides in five places, and each has its operator: `GeneralDecision`
(`server-access.repository.ts`), `ContextualDecisions` (`contextual-server-access.repository.ts`),
`SeatRefusal` (`eligibilityError` of the match room), `MembershipShown` and `Entitled` (what the player is shown).
`ViewerJoin` is what the room's snapshot makes of it. `FirstRefusal` keeps the order of the early returns.

* `ViewerJoin` asks for a `join_reference` and a `launch_uri` (`launchable`) besides what the contextual check asks, which
  never reads them. Finalization wants both, but the `launch_uri` may be cleared afterwards; then the server still
  admits the players whose room has stopped showing it. `OneWayIn` says so: shown is admitted and launchable.

* `LIMIT 1` picks any active assignment of a server, so a contextual decision is a set; that it is one decision
  follows from `ServerExclusive`.
* The TypeError for a room in an unexpected status is the decision ERROR, which `OneWayIn` excludes.
* `AccessNext` adds to `MatchServer` what `MatchRoom` guarantees: a player sits in one room at a time
  (`OneActiveRoom`, a theorem). A player's second match can then begin only after his first is over.

### MatchIngress

A request looks its key up, inserts, looks again if the insert was a duplicate, projects, commits and answers.
For a `series_end` all but the answer is one transaction, and its uncommitted row (`inserting`) makes other
inserts of the key wait; other events are committed at once. Between any two steps other requests run, and
the process or a connection may be lost (`Crash`). What was not committed is rolled back; after the commit (`STORED`,
`REPEATED`) the row and the room stay and only the answer is lost, so that the edge repeats an event it was never told is kept.

* `areFieldsIdentical` tells a repeated event from another one under its key; the compared fields are the record.
* A refusal (`CanProject` false) rolls the insert back, so an early `series_end` leaves no row and is tried again.
* `accepted`, `answered` and `unheard` are history variables. A key is in `unheard` once the request that stored its row was cut off before
  its answer. Every repetition is then a duplicate: `AcceptedOnce` says that one answer at most is "not a duplicate", and when there is
  none although there is a row.
* The lookup is the first read of its transaction and sees what is committed then; the second one, after a
  duplicate, is `FOR UPDATE` and sees what is there by then. A deadlock between waiting inserts is a request that
  fails, like a lost connection.

### PlayerIdentity

Registration, verification, both resets and both kinds of linking are transactions under row
locks, one action each. Two operations are not: a sign-in looks the account up
(`CheckPassword`, `ResolveSteam`) and inserts the session later (`EmailLogin`,
`SteamLogin`), and `pending` holds the sign-ins in between, which may also be abandoned
(`AbandonSignIn`). Whatever commits in between is what the properties are about.

* Unique keys make each identity's account and each account's identity a function, so
  identities are the variables `email` and `steam`, indexed by account.
* A one-time token is UNISSUED, LIVE, USED or VOID (superseded, or expired). `resets` counts an
  account's passwords, and sessions and reset tokens record the password they date from.
* Guards that look at the caller's session before the transaction starts are
  `HasSignedIn`: the session may have been revoked meanwhile.
* An address stays taken while it is unverified, as in the code.
* `SessionsFollowReset` is about *when a session was opened*. An email sign-in whose password
  was checked before a reset may still open a session after it.

Hashing, OpenID, mail and cookies are external. Nothing here must eventually happen, so there
is no fairness.

### Seasons and SeasonCalendar

A worker (an administrator's request, or the timer) takes the advisory lock and begins its
transaction, reads and decides, writes and commits, and releases the lock: four steps.
Between any two it may fail (`GiveUp`), its connection may die (`Crash`) and time may pass
(`Tick`). `Seasons!ImplementsCalendar` shows that the interleaved workers look like
`SeasonCalendar`, where each change is one step that checks what it needs in the state it
changes: a decision taken earlier still holds when it is written.

* A busy lock answers an error after its timeout and changes nothing: no step.
* `RELEASE_LOCK` is taken to fail only together with the connection, which frees the lock.
* Application and database read one clock. Names and other plain columns are left out.
* The functions of `seasons.repo.js` other than `reconcileExpiredActiveSeason` repeat the
  Nest repository and are called by tests only; they are not modelled.

### AdminConsole and MembershipLedger

A request is IDLE, FOUND or OPENED (following a link), or ADMITTED by the guard. Following a link is three
statements without a transaction: `FindLink`, `OpenSession`, `MarkUsed`. A handler is one transaction, after
the guard's (`AdmitBySession`, `AdmitByKey`); in between anything happens. `Drop` is a handler that refuses or a
process that dies.

* The database's clock is `TimeUp`, `ExpireLink`, `ExpireSession`. A membership's column keeps its status when
  `expires_at` passes; `EffectiveStatus` is `resolveMembershipEffectiveStatus`, and every lifecycle action asks it.
* `LinkSpent` says what the three statements leave: two requests that both found a link each open a session.
  Nobody who comes after the first of them has marked it does.
* Nothing in the code keeps the last administrator from being demoted, and nothing here says so.
* `ImplementsLedger` maps a row to what it is worth: expired and cancelled are ENDED.

### PlayerProfile

The row changes in transactions under the lock of the account, one action each. An upload is three steps, `Upload` (the file), `RecordUpload`
(the row), `CleanUp` (the previous file), a removal is `Remove` and `CleanUp`. Faults are bounded by `MaxFaults`: the process dies,
`unlink` fails, `writeFile` fails half-way, or a commit is applied and answered with an error
(`LoseUploadCommit`, `LoseRemovalCommit`).

* A picture is its declared type, its real format and its chunks; the checks on its bytes are `Accepted`.
* A file's name is drawn afresh (`FreshName`), so names are never reused.
* A refused transaction is a disabled action, with the row it would have inserted.
* After a lost upload commit the row names a file the handler removed (`lost`): `ShownPicturesServe` exempts
  exactly those, which is what the code leaves to a new upload.

### PlayerAnalytics

All shared state is files, so one action is one file operation that another process can see:
`package` (the archive), `receipt`, `dirs` (which of `incoming`, `accepted`, `rejected` has the
generation), `current` (the active pointer), and two `O_EXCL` lock files per generation,
`lock` for its lifecycle and `gate` for the promotion of what an upload extracted. Each upload, publication and delivery is a process with a program counter.
Reads made under a generation's lock are merged with the step that uses them; `Look` and `LinkPackage` split the ones that
are made without a lock, and can be torn.

* An error runs the `finally` that removes the lock (`Fail`). A crash does not: the lock is
  STALE for good, since nothing recognises an abandoned lock (`storage.service.ts:135-159`,
  `222-264`). Every later upload, announcement and delivery of that generation then fails.
  Waiting for a lock is bounded (100 times 10 ms), and giving up is `Fail`.
* The validator and the archive's format are the sets `Valid` and `WellFormed`. The worker's check of the message
  against the receipt cannot fail, because a receipt never changes its archive.
* Retention sorts by age and then by id (`Newer`; `IdRank` is the place of an id in the order of `localeCompare`).
  Two workers must sort alike: with ties in any order, two of them could remove what the other one counts on.
* The broker is external: a single active consumer with a prefetch of one, at-least-once, a
  delivery limit after which a message is dead (every return counts, a lost channel
  included), and nothing takes it back from there. `LoseChannel` returns the message
  while its handler runs on; with a second worker, two handlers can then run at once.
  `overlap` is a history variable that remembers it.
* The properties of the pointer are promised while deliveries do not overlap: activation and retention look at
  the pointer under the lock of *their own* generation. Without `~overlap`, TLC finds
  `CurrentStands` and `NeverOlder` violated: two handlers both read the old pointer, the newer
  one writes first, and the older one replaces it. It takes a lost
  channel with a handler still running on it.
* `incoming` can reappear for a generation that is already decided (a late promotion). It
  is harmless, and `OneVerdict` says so.

## 3. The runs

| Run | Instance | Shows |
|---|---|---|
| `MatchRoom_contention` | 4 players, 2 rooms of 4, 2 maps, 2 rounds | `Seating`, `LockedRosterConsented` and the refinement (`ImplementsLifecycle`) while rooms compete for players |
| `MatchRoom_setup` (`MatchRoomLegacy`) | 6 players, teams of 3, 3 maps, one volatile profile; a room just locked, or left by an earlier release after its draft, its veto or its match | `SetupFair` by hand and by timeout, `RecoveredMatchFaithful` from every frontier, `SetupEnds` although nobody acts |
| `MatchServer_saga` (`ServerAccess`) | 3 rooms, one left prepared by an earlier release, 2 servers on 2 nodes, 2 claims a command, 2 players | `ServerExclusive`, `SagaCoherent`, `FifoService`, `ResultStands`; who gets in: `AccessChecksAgree`, `OneWayIn`; `ProvisioningResolves`, `ReadyServed` |
| `MatchServer_replay` (violation) | 2 rooms, 2 servers | finding 1, `ExactReplayAccepted` |
| `MatchIngress` | 3 requests in flight, 2 edges, 1 room, 5 messages of which four share keys, 2 crashes | `AcknowledgedIsKept`, `AcceptedOnce`, `EndArrives` |
| `PlayerIdentity_safety` | 2 accounts, 2 addresses, 2 Steam ids, 4 tokens, 2 sessions, 1 reset, 2 sign-ins under way | `IdentityModel`, `IdentitiesKept`, `LinksSpent`, `SessionsFollowReset`, `DisablingEndsSessions` |
| `PlayerIdentity_reactivation` (violation) | the accounts of the same module | finding 2, `ReactivationRestoresNothing` |
| `Seasons` | 2 seasons, 2 administrators, 1 timer, 5 instants | `DisjointRanges`, `DecisionsStand`, the refinement (`ImplementsCalendar`), `ExpiredCloses` |
| `PlayerAnalytics_ingest` | 1 generation with a valid, an invalid and a malformed archive, an upload, a publisher, a worker, 1 redelivery | `ReceiptMatches`, `OneVerdict` while archives race for one id; `DecidedInTheEnd` through failures, crashes, lost channels and duplicates |
| `PlayerAnalytics_worker` | 3 announced generations, two of them of one age or all of different ages, 2 workers, 1 kept, 1 redelivery | `CurrentStands`, `NewestKept`, `NeverOlder` |
| `AdminConsole` | 2 users, 1 player, 1 article, 1 link, 2 sessions, 2 requests, 4 audit entries | `LinkSpent`, `DemotionCutsOff`, `DatesTellTheStory`, the refinement (`ImplementsLedger`) |
| `PlayerProfile` | 2 players, 2 kinds of picture, 3 files, 2 requests, 6 sorts of image, 2 faults | `ShownPicturesServe`, `LeftoversExplained`, `PublicPageFound`, `FirstVisitSucceeds` |

**Bounds and why they are enough.**
* *Match room.* `TeamSize` is 5 in the code; two is the smallest size in which a player can leave a room that
  others stay in or be put out of it by a timeout, and three the smallest with picks of both captains, a turn that returns to the first captain and a last
  player placed automatically. Two maps make a veto of one ban, three make the turn pass.
  `MaxRound` = 2 lets a confirmation of an earlier round survive into a later one. `Volatile`
  limits *whose* standing changes, not when; nobody's does in `MatchRoom_contention`, where it would only make players
  unable to create or join.
* *Server saga.* `MaxAttempts` = 2 is the smallest number with a lost lease and a stale token;
  the last lease does not run out, which stands for a bridge that answers some claim. Two servers for three rooms
  leave a room waiting; one player is in the old room and in a new one, so that his way in moves.
* *Ingress.* Three requests: one holds a key, one waits for it and one looks. Two crashes cut any of them off
  at any step, so that a rollback and a lost answer meet. The messages are an event, another text under its key, the same from the wrong edge, an ordinary event
  under that edge's key and a `series_end` that names no match.
* *Setup.* `SeatOrders` limits the orders of the captains' draw to those in which the volatile player is first or
  last; the others are alike up to renaming.
* *Identity.* Two accounts and two of each identity are what a linking needs to race a
  registration and another linking; four tokens allow a superseded, a used and a live one side by
  side. `MaxResets` = 1 gives sessions and tokens of two passwords, `MaxPending` = 2 two
  overlapping sign-ins.
* *Back office.* One membership suffices, since each row is locked apart; two requests race for it and for the link.
  Four entries hold a grant, a suspension, a reactivation and a cancellation.
* *Profiles.* Three files let two uploads replace each other's picture while a third is still shown; two faults
  can follow each other. Files, requests and players are interchangeable.
* *Seasons.* Five instants hold two adjacent ranges, a gap and an end that passes.
* *Analytics.* `Retained` is 5 in the code; with three generations, 1 already makes retention
  choose while the pointer moves. `DeliveryLimit` is 5 in the code; 1 has a first and a last
  delivery, and 0 sends the first failure to the dead letters. `MaxCopies` bounds the copies of a message in the
  queue. `PlayerAnalytics_worker` starts with everything announced (`BacklogSpec`), a
  reachable state, in order to spend its states on deliveries. `PlayerAnalytics_ingest` has one upload at a time; that
  several uploads race changes neither `ReceiptMatches` nor `OneVerdict`, which are proved for any number.

Deadlock is checked in every run except `MatchRoom_contention` (both rooms are over in the end),
`PlayerAnalytics_worker` (a backlog that is worked off, no uploads to follow) and the two violation runs.

**Findings.**
1. `ExactReplayAccepted`: README.md:140 calls the result "terminal idempotente", and a comment in
   the repository (`match-bridge.repository.ts:356`) says that a valid exact replay continues
   into finalization, to heal or check coherence. Once the room is COMPLETED and its
   assignment released, the same replay is answered with an error instead: finalization
   throws on a released assignment (line 463).
2. `ReactivationRestoresNothing`: docs/player-identity-membership-server-access.md:424 says of a
   reactivation "sessões antigas não são restauradas". The Steam callback reads the account's
   status when it resolves the account and inserts the session later without another look
   (`player-steam-auth.controller.ts:421`, `player-session.repository.ts:101`), so a session can be
   inserted after the account was disabled and its sessions revoked. Nothing revokes it, and it
   authenticates when the account is reactivated. `DisablingEndsSessions` says what does hold: only
   such a sign-in leaves a disabled account with a session.

Two observations without a run of their own: README.md:168 says that PREPARED to JOINABLE is not
implemented, but the code makes a prepared room JOINABLE and completes it; and the STALE lock
described under PlayerAnalytics.

## 4. Fairness

* `MatchIngress!Spec`: a request under way gets on (weak: the database answers), and the edge sends what it has again
  and again (strong: it finds a free request infinitely often). `EndArrives` assumes that nobody reuses the key of the
  event; a key that is taken by another event is a conflict for good.
* `MatchRoomLegacy!UpgradeSpec` takes `MatchRoom!Progress`: time passes (`Elapse`) and some client
  keeps reading the room (`ReconcileRoom`): `getById`, `getCurrent` and `listRelevant` all
  reconcile. The service has no timer for rooms: with nobody looking, a room rests. Players
  and captains are under no fairness at all. `SetupEnds` assumes that profiles are
  eventually complete, because a missing personaname undoes the last ban as often as it is
  retried.
* `MatchServer!Fairness`, of `ServerAccess!AccessSpec`: the bridge keeps polling (weak fairness on allocation and claims),
  time passes, the bridge answers within a lease infinitely often if leases keep coming
  (strong fairness: the lease comes and goes), the edge repeats `series_end` until it is
  accepted. `ReadyServed` assumes that no room fails: a FAILED room keeps its assignment,
  and with it the server, for ever; nothing in the code releases it.
* `Seasons!Fairness`: a worker on a living connection gets on or gives up, and releases (weak). The
  timer is a systemd timer that fires every five minutes, so it finds the lock free and gets to its
  decision and its write if it is able to infinitely often (strong). Administrators need not act.
* `PlayerAnalytics!FairSpec`: an operation under way goes on or fails (weak). The reconciliation
  lists everything in `incoming` periodically, so it comes back to every generation, and its steps
  are not interrupted for ever (strong). The broker keeps delivering (strong). Uploads of the
  generation eventually stop: their hold of the lock could otherwise make every announcement give up.
  `DecidedInTheEnd` exempts two ends openly: a message in the dead letter queue, and a STALE lock.

## 5. What is proved

For every value of the constants that satisfies the named ASSUMEs below, whatever the size of the sets and the bounds:

| Theorem | States |
|---|---|
| `MatchRoom_proofs!TypeCorrect` | every reachable state is well typed |
| `MatchRoom_proofs!OneSeat` | nobody sits in two rooms |
| `MatchRoom_proofs!Consent` | a locked roster confirmed the round that locked it |
| `MatchRoom_proofs!Frozen` | a locked roster and a match never change (`[][...]_vars`) |
| `MatchRoom_proofs!SeatsAgree` | an active room seats its creator, a forming room has a free seat, a confirming or locked one has none |
| `MatchRoom_proofs!FairSetup`, `FairSetupAfterUpgrade` | draft and veto are fair and complete, in a room from its creation on and in one that an earlier release left locked |
| `MatchRoom_proofs!RecoveredMatch` | whatever frontier a room stopped at, its match is the one its draft and its veto made |
| `MatchRoom_proofs!Refinement` | `MatchRoom` implements `MatchLifecycle` |
| `MatchServer_proofs!TypeCorrect` | every reachable state is well typed |
| `MatchServer_proofs!Exclusive` | a server is held by one room |
| `MatchServer_proofs!SagaAgrees` | room, reason, assignment, command and result agree |
| `MatchServer_proofs!LastLeaseAnswers` | a recorded result came with the token of the last claim |
| `MatchServer_proofs!StoredProjected` | a stored end is a completed room |
| `MatchServer_proofs!Final` | results and decisions stand (`[][...]_vars`) |
| `MatchServer_proofs!Fifo` | no room is overtaken in the queue (`[][...]_vars`) |
| `MatchServer_proofs!ChecksAgree` | `AccessSpec` keeps `AccessChecksAgree`: the five places that look at a player agree, at every server and moment |
| `MatchServer_proofs!OneWay` | `AccessSpec` keeps `OneWayIn`: a player gets into one server at most, that of his own match in play; a room shows a server exactly when it admits and has a `launch_uri` |
| `PlayerIdentity_proofs!TypeCorrect` | every reachable state is well typed |
| `PlayerIdentity_proofs!IdentitiesUnique` | no address or Steam id belongs to two accounts, and an account exists exactly when it has an identity |
| `PlayerIdentity_proofs!IdentitiesStayPut` | identities never move, verified addresses stay verified |
| `PlayerIdentity_proofs!SecondIdentityLinked`, `OneLink` | a second identity came through a link intent; one usable intent of a kind at a time |
| `PlayerIdentity_proofs!VerificationOnce`, `ResetUsesUpTokens` | a verification token opens at most one session; a usable reset token dates from the password in use |
| `PlayerIdentity_proofs!LinksAreSpent` | the three together: no link serves twice, nor for an account that went on without it |
| `PlayerIdentity_proofs!ResetEndsSessions` | no session opened before a reset survives it |
| `PlayerIdentity_proofs!DisabledSessions` | only a Steam sign-in under way leaves a disabled account with a session |
| `Seasons_proofs!TypeCorrect` | every reachable state is well typed |
| `Seasons_proofs!OnlyOneActive`, `RangesDisjoint` | one active season; no two share an instant |
| `Seasons_proofs!DecisionsHold`, `AutoCloseRight` | a decision still holds when it is written; what the timer closed has ended |
| `Seasons_proofs!Refinement` | `Seasons` implements `SeasonCalendar` |
| `PlayerAnalytics_proofs!TypeCorrect` | every reachable state is well typed |
| `PlayerAnalytics_proofs!ReceiptsMatch` | what was extracted is from the archive the receipt names |
| `PlayerAnalytics_proofs!VerdictsStand` | one verdict, the validator's, in both records |
| `PlayerAnalytics_proofs!PointerStands`, `PointerAdvances` | without overlapping deliveries, the current generation is on disk and is only replaced by a newer one |
| `PlayerAnalytics_proofs!NewestStay` | of any generation gone after its verdict, enough newer ones are kept, overlapping deliveries included |
| `MatchIngress_proofs!TypeCorrect` | every reachable state is well typed |
| `MatchIngress_proofs!AcknowledgedKept` | what an edge was told is kept stays, unchanged, and a kept end has completed its room |
| `MatchIngress_proofs!AcceptedAtMostOnce` | one answer at most says "not a duplicate", with its row there; none does if the first answer was lost |
| `AdminConsole_proofs!TypeCorrect` | every reachable state is well typed |
| `AdminConsole_proofs!CutOff` | nobody who is no administrator gets another request through (`[][...]_vars`) |
| `AdminConsole_proofs!StoryTold` | the dates of memberships and news say what happened to them |
| `AdminConsole_proofs!LinksAreSpent` | a link followed to its end opens no session for a latecomer (`[][...]_vars`) |
| `AdminConsole_proofs!Refinement` | `AdminConsole` implements `MembershipLedger` |
| `PlayerProfile_proofs!TypeCorrect` | every reachable state is well typed |
| `PlayerProfile_proofs!FirstVisit`, `PageFound` | the slug of a first visit is free; a shown slug leads to its player's page |
| `PlayerProfile_proofs!PicturesServe`, `LeftoversAccounted` | a shown file is there and a still picture, lost commits apart; any other file is about to go or was left by a fault |

**Assumptions.** The named ASSUMEs of the modules: NULLs outside the sets they complete, finite
players, maps, rooms and generations, at least two maps, a positive team size, at least one confirmation round, seat orders that number the players, rosters of rooms left by an earlier release that share no player, every server on a node, at least one claim,
administrators distinct from timers, the processes of the analytics distinct from each other, ids told apart by their order, every valid archive well formed,
finite requests and sessions of the back office, a root that is a user, messages of the shape the edges send, custom
slugs that are not reserved, files told apart from other URLs.
TLC evaluates them in the runs. Type invariants are proved and so take no run.

**Argument.**
* *MatchRoom.* `TypeInv` is `TypeOK` and `PickerSided`, that the captain to pick has a side: the
  draft's next turn is well typed only then. `OneSeat` classifies the steps by what they do
  to seats (`SeatMove`): one player sits down who sits nowhere, or seats are
  vacated. `LockedRosterConsented` is inductive together with `TypeOK`, because `Confirm` locks only
  when all the members confirmed the current round. `Frozen` rests on
  `NoEarlyMatch`: a room that can still get a match has none. `SetupInv` adds to the types, room by room, what
  the seats of its status are (`SeatingAt`) and that its draft, veto and match rows are in step (`SetupAt`: every order up to
  the next one was used once, the picks so far alternate and even out, the captain whose turn it is heads no larger side than the other, the
  match has the sides and the map left over). `RoomStep` says that a step changes one room only. The starts of
  `UpgradeSpec` satisfy `SetupInv` too, so one induction serves rooms from their creation on and rooms left by an earlier
  release. The simulation of `MatchLifecycle` follows from `SetupInv` and `NoEarlyMatch`: a completed
  draft splits the locked roster into equal teams, so the match that is made is one `MatchLifecycle` allows.
* *MatchServer.* `StepEffect` says what a step can do to one room's saga; `SagaCoherent` is shown
  inductive from it, with room, reason, assignment, command, lease and result agreeing pairwise. `Fifo` rests
  on `QueueInv`: ranks are bounded by the number of rooms ranked so far, so a rank given now is above all others.
* *ServerAccess.* `AccessSpec` implies `MatchServer!Spec`, so the theorems of the saga carry over. `ChecksAgree` compares
  the five chains of early returns as case distinctions (`FirstRefusal`): the contextual check refuses
  exactly whom the general one refuses, and for the same reason. `OneWay` adds `RostersApart`: two matches being played have no player in
  common, which is what `AccessNext` keeps of `OneActiveRoom`. With it a player's JOINABLE room is unique, and `SagaCoherent` and
  `StoredEndIsProjected` say where its assignment, its command and its end are.
* *PlayerIdentity.* Steps are classified by their effect on tokens, sessions and identities, so
  that each property meets a few kinds of step instead of every action. The invariant adds to
  `TypeOK` that what is used was issued (`Issued`), and `VerifyInv` that a token a verification session came from is out of use.
* *Seasons.* `IInv`: a worker that is not idle holds the lock (`Holder`), what it decided still
  holds (`DecisionsStand`), existing seasons have a range (`Dated`), ranges are disjoint, one season is
  active, and what the timer closed has ended (`ClosedByTimer`). `Holder` makes the rest inductive: nobody else writes between a decision and its write.
  The step simulation follows from the same invariant.
* *PlayerAnalytics.* The invariants are layered: a busy process has a generation, and a delivery that is not settled is being
  worked on (`Busy`, `Settled`); the receipt names the archive before extraction begins and never another (`PackInv`); the verdict
  in the receipt follows the one being reached under the lock (`VerdictInv`); without overlap only one
  delivery is at the pointer, what it is about to activate is newer, and what it is about to remove is not
  current (`CurrentInv`). `NewestKept` needs no such restriction. It becomes inductive when it is said of everything at risk (`KeptInv`):
  whatever some worker is about to remove, or is gone and has its verdict or a worker about to write it, has enough newer
  generations that *nobody* is about to remove. When a second worker keeps what the first one will remove, that
  one's own newer generations take its place: the second worker cannot remove them, as both sort in the same total order.
  All of it holds from an empty store and from any backlog (`Spec`, `BacklogSpec`).
* *MatchIngress.* A request under way carries a well-formed message (`Carrying`). Each is in step with the tables (`InStep`): one that inserted
  holds its key, and no committed row has it; one that found or committed its event has it stored, and projected after the commit; one that stored
  it and has its answer to give finds nobody told or cut off before it. One request stored a key's row (`OneStored`). `OthersKeep` shows that no step
  puts another request out of step; with that, these and the two properties are inductive together.
* *AdminConsole.* `Owned`: an issued link is somebody's, and a request that follows one acts for a user. `StoryTold` is inductive with a form per row (`Told`)
  that the action's allowed statuses keep. `LinksAreSpent` counts: the requests that follow a spent link only leave (`OnlyFewer`), and each session
  opened takes one of them away. The simulation maps a grant and every lifecycle action to one `Change`, and the clock to `TimeUp`
  or a stutter.
* *PlayerProfile.* `Slugged`: a row has its technical slug or one its player chose, and no two rows share one.
  `Pictures`: what is shown was drawn (`Drawn`) and is shown once (`OnePicture`); the file a request saved is not shown yet (`SavedIsNew`);
  the file a request is to remove is not shown any more, lost commits apart (`CleanedIsOld`).

**Only model-checked.** Liveness: `SetupEnds`, `ProvisioningResolves`, `ReadyServed`, `EndArrives`, `ExpiredCloses` and
`DecidedInTheEnd`.
Every safety property of a passing run is a theorem.
Proved without a run of their own: `OneActiveRoom`, `RosterFrozen`, `LeaseHolderAnswers`, `StoredEndIsProjected`,
`TwoIdentitiesWereLinked`, `OneActive`, `AutoCloseJustified`. `ENABLED` and induction over data are beyond the installed provers.

## 6. What is left

Every component whose operations change shared state is modelled. What a further step would take up:

1. The payload of a command (`match-bridge.repository.ts:237`): with rosters of unknown age, a payload that cannot be built
   makes the claims of its node throw.
2. Removal of a generation's directory file by file (`player-analytics-lifecycle.service.ts:90`).

**Not modelled, and why.** Migrations and deploy scripts run by hand before the service starts; what running half a file
again does depends on its SQL. Configuration and wiring happen once, before the first request. The bunker, the schema page and the remaining
lists and summaries are reads of one table or file that nothing else depends on. CSRF, throttling and the parsing of
requests decide on one request alone. `seasons.repo.js` repeats the Nest repository; of it only the timer's part is used.
`PROJECT.json` has the same per component.
