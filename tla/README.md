# A TLA+ development of gpicm-nestjs

`gpicm-nestjs` is the API of MetColab / GPICM: a NestJS program over MariaDB
(Prisma), Redis and MongoDB, in which people register (first as guests of a
device), report posts and incidents on a map, vote, comment, follow each other,
earn achievements, and read weather telemetry that another program writes. This
directory holds TLA+ models of it, the TLC configurations that check them, and
TLAPS proofs.

Paths below are relative to the repository's `src/` unless they start otherwise
(`modules/...` stands for `src/modules/...`).

- [The system](#the-system): components, state, operations, hard behaviours
- [The modules](#the-modules): what models what
- [The runs](#the-runs): what is checked, with which bounds
- [Fairness and assumptions](#fairness-and-assumptions)
- [The proofs](#the-proofs)
- [Where code and words differ](#where-code-and-words-differ)
- [Not modelled](#not-modelled)
- [Plan](#plan)

## The system

One API process (`docker-compose.prod.yml`, service `api`, `restart: always`)
serves HTTP and also listens, as a NestJS microservice, to Redis channels. There
is no other worker: queues, timers and HTTP handlers share one event loop, so
concurrency means *interleaving at awaits*, plus what MariaDB and Redis do
between them.

### Metrics: events, queues, debounced flushes, locks

Posts, comments and profiles store counters that repeat what can be counted in
other tables. They are brought up to date asynchronously:

1. a service commits rows and calls `RedisEventPublisher.publish`
   (`modules/shared/infra/lib/redis/redis-event-publisher.ts`), a
   fire-and-forget `emit` on a pub/sub channel;
2. an async controller (`post-async.controller.ts`, `profile-async.controller.ts`)
   receives the event and adds a BullMQ job whose *job id is the payload*
   (`bull-queue-publisher.ts`); a job with that id still in the queue makes the
   add a no-op, and a failed add is logged and swallowed;
3. the queue's worker calls the processor's `handle()`, which notes in an
   *in-memory map* which metrics of which item are wanted, and clears and sets
   again a *debounce timer*;
4. the timer runs the flush: snapshot the map, clear it, then per item take a
   *Redis lock* with a TTL of one second, `SELECT COUNT` the rows, `UPDATE` the
   counters, release. A refused lock skips the item; a failing query ends its
   refresh; neither is retried.

State: rows, counters, events under way, the BullMQ queue, the map and the
timer, the locals of each running flush, the locks. Three processors have this
shape, with different tables of events, metrics and columns: posts, comments,
profiles.

Hard: two flushes can overlap (the timer does not wait for the previous flush);
events can be lost, deduplicated, or arrive between a snapshot and its counts; a
lease may expire under its holder; Redis runs without persistence; the process
can die with the only copy of the map. Correct means: *a counter that is out of
date has a refresh on its way, unless a failure is to blame; a counter never
goes back; when things calm down it equals its rows.*

### Following and voting

`ProfileService.followUser/unfollowUser` check the row, then create or delete
it, then publish. `PostServices.vote` reads the post joined with the voter's
vote, toggles in memory, writes or deletes the row, publishes, and answers with
the post in memory; readers get the stored counts with an optimistic
correction (`PostAssembler.fromSqlSelect`). State: `profile_follows`,
`post_votes`, and the counters. Hard: check-then-act races, two kinds of id
that are both numbers, answers computed from counters that lag. Correct means:
*answers agree with the rows, settled counters are counts of the rows, a
displayed vote is contained in the displayed counts.*

### Accounts

`modules/identity` and `modules/back-office/users`: guest sign-in by device key,
sign-up (of a guest or of somebody new), sign-in, e-mail verification, edits,
and an administrator's ban / suspend / activate. State: `users`,
`user_credentials`, `profiles`, `user_verifications`. Hard: every update of a
user writes the whole row as it was read, status included; the transaction of a
sign-up covers only one of its three writes. Correct means: *what is visible of
an account is complete; decisions of an administrator hold.*

### Posts, comments and media

`PostServices.create` reads the medias it was given, creates the incident on a
connection of its own inside the callback of `openTransaction`, inserts the post
and its medias in the transaction, and publishes. `MediaService.uploadMedia`
adds a row (`UPLOADING`), transforms, stores the variants concurrently, updates
the row (`ACTIVE`). Deleting a post or a comment stamps `deletedAt`. State:
`posts`, `post_medias`, `incidents`, `post_comments`, `medias`, the blobs, and
the requests in progress. Hard: no transaction spans a database and S3; a post
may be created while its media is being uploaded; edits, replies and removals of
comments check and then act. Correct means: *what is marked ready can be served,
a post appears whole or not at all, the count of comments is the length of the
list, what is removed stays removed.*

Two smaller machines belong to the feed: a *paged list*, whose rows and total
are two concurrent queries per page, and *views*, counted at most once per
cooldown and user by `RateLimitService`, which checks, counts and registers in
three awaits.

### The other components

| component | state | operations | hard part | correct means |
|---|---|---|---|---|
| Gamification (`modules/social/gamification`) | achievements with their criteria as JSON, `profile_achievements`, a lock in Redis per profile | create an achievement; on `post.*` list, read, check, insert | the lease is shorter than a run may be; inserts ignore the transaction; counters move meanwhile | what is unlocked was earned, once; a run that finishes leaves nothing out |
| Policies (`modules/identity/policies`) | policies (written by somebody else), agreements with the accepted content's hash | accept; check against the latest version of each type | three awaits per acceptance, two per check; versions compared as strings | who is told to be up to date has agreed to the newest there was |
| Alerts (`modules/back-office/alerts`) | civil-defence alerts | webhook: fetch a list, deactivate all, upsert; list the open ones | webhooks overlap; the list is fetched before the transaction | readers see one webhook's alerts, never a mixture |
| Incident types (`modules/incidents`) | `incident_types`, `incidents` | create, edit, delete a type; file an incident | an edit reads and then writes the whole row, with a slug computed from the name read; deletions meet incidents being filed | an incident's type stays; a slug is at most one rename behind |
| Avatars (`PATCH social/profile/me/avatar`) | two columns of `profiles` | change, remove | three awaits; the media may not be ready; the columns have different readers | profile and posts show one avatar, that of the last change |
| Telemetry (`modules/telemetry`) | MongoDB collections another program writes; a cache of answers | aggregations; the latest observation of a station | windows and intervals, unsorted documents, nulls; slow queries behind a cache | reports equal their definitions; observations are recent |

`PROJECT.json` lists every component with its status, and under `hazards` the
places in the code where something hard to test can go wrong, each with the
properties that cover it.

## The modules

| module | models |
|---|---|
| `CounterSync` | the promise: counters move forward through counts of committed states; the ones for which this can no longer be promised are known (`abandoned`) |
| `MetricsPipeline` | the pipeline, one action per step, written against `bull-social-post-queue-processor/index.ts` and parameterised by a processor's tables |
| `PostMetrics`, `CommentMetrics`, `ProfileMetrics` | the tables of the three processors: events, which of them a controller listens to, metrics, columns, items, and the rows each event changes |
| `MCPostMetrics`, `MCProfileMetrics` | instances for TLC |
| `ProfileFollow` | following with the rows themselves |
| `PostVotes`, `MCPostVotes` | voting on one post with the rows themselves |
| `UserAccount` | accounts: sign-up, sign-in, verification, edits, administration |
| `MediaUpload` | one upload, from its row over its blobs to `ACTIVE` |
| `PostLifecycle` | posts and comments from creation to removal; `EXTENDS MediaUpload` and interleaves with it |
| `PostListing` | reading the list of posts page by page while posts come and go |
| `ViewCooldown` | counting the views of a post through the rate limiter |
| `Gamification` | criteria, the runs of the engine, the lease |
| `PolicyAgreements` | the newest policies, the check, the acceptance |
| `CivilDefenseAlerts` | the webhook, its transaction, the list |
| `WeatherReports` | the aggregations over rain records, as operators |
| `PartnerObservations` | the latest observation behind `CacheInterceptor` |
| `ProfileAvatar` | the two columns of a profile's avatar |
| `IncidentTypes` | the types of incidents, their slugs, and the incidents that name them |
| `MCPlatform` | one instance of the nine modules from `PostListing` to `IncidentTypes`, which share no state: `focus` names the one that runs |
| `QueryOrder` | `ORDER BY` and `$sort`: `Orders`, all the lists of a set by keys that may be equal, for `PostListing`; `InOrder` and `Ascending`, the one list where no two keys are equal, for `WeatherReports` |
| `MetricsPipeline_proof`, `ProfileFollow_proof`, `PostVotes_proof`, `UserAccount_proof`, `PostLifecycle_proof` | theorems about one module each, for every choice of its constants |
| `Reading_proof` | theorems about `PostListing`, `ViewCooldown` and `WeatherReports` |
| `Platform_proof` | theorems about the six other modules of `MCPlatform`, and about all nine together |
| `SumsAndSorting` | what those two need of sums, rounded sums, sorted lists and division |

### `MetricsPipeline` and the code

| state | code |
|---|---|
| `truth[i][c]`, `stored[i][c]` | *versions*: the number of the committed state of the rows behind counter `c` of item `i`, and the version the stored counter was counted from. Versions rather than counts, because a counter may be right by accident while the refresh that should have made it right was lost |
| `inflight` | events published and not received, per payload |
| `jobs` | the BullMQ queue, keyed by job id: none, waiting or active |
| `toUpdate`, `flushTimeout` | the processor's `postsToUpdate` map and its timer |
| `entries`, `at`, `left`, `read` | locals of each flush: the rest of its snapshot, the current item, metrics still to refresh, counts already read |
| `lock` | the Redis key of each item: free, held by a flush, or left by one that crashed |
| `abandoned` | history, never read by a guard: the counters a failure, a refused lock or an event nobody handles left behind, until a refresh under the lock heals them |

| action | code |
|---|---|
| `Change(e)` | a service commits rows and publishes `e`; an event no controller listens to is gone at once |
| `Deliver(e)` | the controller adds the job |
| `HandleJob(e)`, `FinishJob(e)` | `handle()`, and `removeOnComplete` |
| `FlushStart(f)` | the timer's callback up to its first await |
| `Acquire(f, i)`, `LockRefused(f, i)` | `acquireLock` and `if (!lock) continue` |
| `Count(f, m, c)`, `Write(f, m)` | the counts and the update of a refresh; the counts of `Promise.all` in either order |
| `RefreshFails(f)`, `Release(f)` | `catch` and `finally` |
| `LoseEvent`, `LeaseExpires`, `RedisRestart`, `Crash` | the failures; `Faults` says which kinds a run allows |

The three processors differ only in their tables; the order in which a flush
takes the items of its snapshot is left open (the map's order depends on the
order of the jobs). The retry loop of the lock is one action with both outcomes:
a refusal needs the lock to be held or Redis to fail.

### `ProfileFollow` and `PostVotes`

These keep real rows and real counts, and take the pipeline's promise as given:
an event asks for a refresh of an item (`pending`, `due`), and refreshes of one
item do not overlap. `MetricsPipeline` is where that promise is examined. What
they add is *what* is counted, and what requests answer: `FollowersOf`,
`FollowingOf`, `RefreshedFollowers` and `RefreshedFollowing` are the where
clauses of the repositories (the refresh stores the two counts in each other's
column, and `Shown`, the profile's assembler, swaps them back); `Toggle`,
`Recounted` and the `Shown` of `PostVotes` are the functions of the post's
entity and assembler. `balance` in `ProfileFollow` is a
history variable. A vote's delete fails when there is no row, and then so does
the request, as in the code.

### `UserAccount`

A request is a record of the step it is about to take and of what it has read.
Every action that reads is a handler up to its first write; `Write` and `Decide`
are the whole-row `usersRepository.update`. In a sign-up, `SaveUser` and
`InsertCredential` are committed at once, because the repositories take
`this.prisma.getConnection() ?? tx`, and only `InsertProfile` waits for
`Commit`. `Fail` ends any request at any step: a failed query or the death of
the process (which is all requests failing one after the other with no step
between). `Locked` is the effect of MariaDB's foreign-key and unique-key locks
of an uncommitted profile. A user's role is not kept: the API writes no other
role than `USER`. `decided` and `overlapped` are history variables.

### `MediaUpload` and `PostLifecycle`

| state | code |
|---|---|
| `media`, `blob` | rows of `medias`; files of a media, absent, partly written or whole |
| `upload` | the request of each media: its step, the blobs left to store, the sources in memory |
| `post`, `incidents` | `posts` with their `post_medias`; the posts whose request has created an incident |
| `creating`, `announced` | the request that creates each post; the published `post.created` |
| `deleting` | deletions that passed the controller's check and have not written yet |
| `comment`, `commenting`, `removing` | `post_comments`, and the requests between a read of a comment and its write |

| action | code |
|---|---|
| `StartUpload`, `ProcessImage`, `BeginBlob`, `BlobStored`, `BlobFails`, `Activate`, `UploadFails` | `uploadMedia`; after a failure `Promise.all` has rejected while the other writes go on |
| `StartCreate` | the controller and `create` up to the transaction: `findManyByIds`, `PostFactory`, the cover |
| `CreateIncident` | `IncidentsService.create`, committed at once |
| `InsertPost`, `InsertMedias`, `CommitPost`, `AnnouncePost`, `CreateFails` | the transaction, and the event after it |
| `CheckDelete`, `DeletePost` | the controller's check, `postRepository.delete` |
| `StartComment`, `AddComment`, `StartEdit`, `EditComment`, `StartRemove`, `RemoveComment` | `PostCommentService`, each read and its write |
| `Crash` | the process dies: requests and their writes end, transactions roll back |

`IsAdmin(u) == TRUE` is what `user.isAdmin` is worth when the method is not
called. What the code does and a reader may not expect: an incident stays when
the post's transaction fails; `toSqlInsert` never stores the incident's id; a
`RAW` post stays `PUBLISHING` (requests may ask for one, but the enum of the
column in `schema.prisma` has `INCIDENT` only: these rows are more than a strict
database lets in); `addComment` never looks at the parent; a removal
takes replies with it, but only one level; a media whose request died stays
`UPLOADING`. The properties are stated around these, not against them.

### `PostListing` and `ViewCooldown`

`SelectRecords` and `CountRecords` are the two queries of `Promise.all`, in
either order; `TurnPage` is the reader, who follows `PaginationMetadata`.
`WhereClauses` keeps the missing parentheses of the tags' clause, and `Total`
counts deleted posts, as the code does. A row's `at` is the second it was
published in: `toSqlInsert` cuts `published_at` to whole seconds. Since nothing
else is ordered by, `OrderBy` is the set of all orders by that second, and each
query answers in any of them, another one for the next page. `PublishPost` takes
any second, since the time is set before the row is inserted. So `NoPostIsMissed`
promises a post *or one of its second*, and `NoPostTwice` excepts posts that
share a second with another post of the query: `LIMIT` and `OFFSET` over ties
may skip one and repeat the other. `present`, `repeated`, `countFirst` and
`grown` are history.

In `ViewCooldown`, `AllowView`, `IncrementViews` and `RegisterAction` are the
three awaits of `runIfAllowed`; `Seconds` is the rounding of the key's TTL;
`met`, history, says that two runs overlapped.

### `Gamification`, `PolicyAgreements`, `CivilDefenseAlerts`

`Parsed`, `Rejected` and `Readable` are what is read back of the stored JSON:
`fromJSON` refuses a criterion that has *no other* attribute than the required
ones. `ListMissing`, `FilterEligible`, `CheckExists`, `InsertUnlocked` are the
awaits of `AchievementEngine`; `Refused` is the unique index; `RefreshCounter`
is what the metrics pipeline does to the profile's counters meanwhile. `earned`
is history.

`Key` is the string `findLatestPolicies` compares, digit by digit, built by
`SUBSTRING_INDEX` and `LPAD`; `Newest` is the order meant. `ReadPolicy`,
`ReadAgreement`, `NothingToAccept` / `UpsertAgreement` are the awaits of
`acceptUserAgreement`; `Publish`, `EditContent`, `Withdraw` are the writer of
policies, who is not part of this program.

`FetchAlerts`, `InactiveAll`, `Upsert`, `CommitAlerts`, `WebhookFails` are the
webhook. A list that breaks the contract is taken for an empty one, and then
every alert becomes inactive. `latest` is history.

### `WeatherReports`, `PartnerObservations`

Each method of a repository is an operator written after its pipeline
(`Matched`, `MatchStage`, `IntervalStart`, `Point`, ...), in the order of the
stages and with MongoDB's treatment of nulls and missing fields; one action per
method asks for it on every small collection and keeps the answer in `report`.
Stored rain is a whole number of small units, `Fine` of which are a tenth of a
millimetre: readings are `number | null`, and nothing makes them whole tenths.
Answers are rounded where the code rounds: `Rounded` is `$round: [_, 1]`, half to
even, once for each interval of a series and once for an aggregate; `ToFixed` is
`parseFloat(_.toFixed(1))` of the three windows of the rain report. Hence the form
of `SeriesAddUp`: two series of one window, or a series and the aggregate, may
differ by half a tenth for each rounding (two hours of 0.25 mm are 0.2 and 0.2
in the series and 0.5 in the aggregate), and agree where readings are whole
tenths; the numbers of readings always agree. A document's `acc` is the stored
`rainVolumeAcc`, null or the sum of its hours. `RainWindowsNest` and `RainIsExact`
are stated for documents that all have it (`Accumulated`): with null, which
`?? 0` takes for no rain, a day's windows need not nest.

`PartnerObservations` is the one report with a state: `cached`, the entry of the
interceptor for the URL, and the requests that found none.

### `ProfileAvatar`, `IncidentTypes`

`ReadProfile`, `FindMedia` and `WriteAvatar` are the guard, the query and the
update of `PATCH /me/avatar`. Both columns of `avatar` are kept because they have
different readers (the profile's assembler reads the sources, posts and comments
the URL) and because `AvatarColumns` writes them differently: a removal clears
the URL, and its `undefined` leaves the sources. So a removed avatar is still on
the profile, and comes back to the posts with the next change to a media that is
not ready, which writes back what the guard read (`AvatarHeld`).

`Entity` is the constructor of `IncidentType`, which computes the slug whatever
it is given; `FromRow` builds an entity with it, and `Edited` sets the name after
that. So a rename stores the slug of the old name, and a name that is free may be
refused for it: after `Flood` was renamed, a new `Flood` fails until the first
type is edited once more, and if its new name has been taken meanwhile, each of
its edits fails. `internalId` and the description are data; the unique index on
the former is one more reason of `EditFails`.

## The runs

| run | module / cfg | shows | bounds |
|---|---|---|---|
| `post_safety` | `MCPostMetrics` | `NoLostUpdate`, `NoForgottenEntry`, `ImplementsCounterSync` with every kind of failure | 1 post, all 4 events, 3 columns, 2 flushes, 2 changes per counter |
| `post_comments_count` | `PostMetrics` / `PostCommentsCount` | *violation*: with no failure `commentsCount` does not follow removals | 1 post, 1 flush |
| `comment_convergence` | `CommentMetrics` | `Convergence`: calm implies up to date; `NoRegression` | 1 comment, 2 flushes, 3 changes; lost events, expired leases, crashes |
| `profile_follow_events` | `MCProfileMetrics` | `FollowsSettle`: one job and one flush refresh both ends of a follow | 2 profiles, 1 flush, follow, unfollow and a comment event in between |
| `follow_rows` | `ProfileFollow` | `AnswersMatchRows`, `ShownCountsAreRight` | 2 profiles, 2 requests |
| `votes` | `MCPostVotes` | `ShownVoteIsCounted`, `SettledCountsAreCurrent` | 2 profiles, 2 requests, user ids shifted by one |
| `own_vote` | `MCPostVotes` / `OnlyOwnVote` | *violation*: a vote can delete somebody else's row | 1 request |
| `accounts` | `UserAccount` | `ProfileHasCredential`, `ActiveHasProfile`, `BanHoldsUnlessOverlapped` | 2 users, 1 e-mail, 2 requests |
| `ban_undone` | `UserAccount` / `BanHolds` | *violation*: a request in progress undoes a ban | 1 user, 2 requests |
| `posts` | `PostLifecycle` | `ActiveIsServable`, `AttachedMediaIsServable`, `CreationIsAtomic`, `CountMatchesListing`, `RemovedForGood` | 1 media (an image of 2 variants, or a file), 1 post, 2 comments, 2 users |
| `delete_others` | `PostLifecycle` / `DeletionsAllowed` | *violation*: neither author nor administrator, and yet the deletion passes | as `posts` |
| `platform` | `MCPlatform` | one part after the other, see below | see below |

| part of `platform` | shows | bounds |
|---|---|---|
| `WeatherReports` | `RainWindowsNest`, `RainIsExact`, `SeriesAddUp`, `PointsAreBounded` | days of 2 hours and a long window of 2 days, every set and order of documents, with and without an accumulated volume; units of half a tenth (`Fine = 2`) and readings of 1 unit, 2 or null, so that ties of the rounding occur; 4 times of readings and bounds of windows; windows just below and above each change of granularity |
| `PartnerObservations` | `ObservationIsRecent` | 2 requests, window 3, cache 1, latency 1, 8 ticks |
| `CivilDefenseAlerts` | `AlertsOfOneWebhook` | 3 alerts (open, not yet, soon over), 2 webhooks, 2 ticks |
| `Gamification` | `UnlockedWasEarned`, `FinishedRunUnlocksAll`; `UnlockedOnce`, with the types | 2 achievements, 2 counters of 0 or 1, 2 events, 4 offers |
| `PolicyAgreements` | `CheckedAgainstNewest`, `AnsweredConsentStands` | 1.9.0, 1.10.0 and a policy of another type, 2 contents, 2 acceptances, 1 check |
| `ViewCooldown` | `CooldownHolds` | 3 views, cooldown of 3 half seconds, 6 ticks |
| `PostListing` | `NoPostIsMissed`, `NoPostTwice` | 3 posts in 2 seconds, so that there are ties, pages of 1, filters of no tag, and of two tags and an author |
| `ProfileAvatar` | `ShownAvatars` | 2 medias (an image, a file), 3 changes |
| `IncidentTypes` | `SlugsFollowNames`; `IncidentsHaveTypes`, with the types | 2 types, 3 names of 2 slugs, 2 edits, 1 incident |

Why the bounds are enough. `MaxVersion` is the only bound of `MetricsPipeline`:
it caps the commits per counter and the undelivered events per payload. Losing
an update takes two commits: one that is counted, and one that arrives while the
first is being counted. Undoing one takes three jobs: a flush with an old count,
another that writes a newer one, and the first again; `comment_convergence`
allows three commits, `post_safety` four over its two kinds of rows.
Two flushes are the overlap the lock is there for: a holder, and one that
waits, is refused or takes an expired lease. Items share neither lock nor
counts; one map, one timer and one job couple them, which
`profile_follow_events` checks with two. The theorems then remove all of these
bounds for the safety properties. In `ProfileFollow` and `PostVotes` two
requests race for one row, which is what their checks and keys are about, and
nothing is capped: the state spaces are finite by themselves. Two requests in
`UserAccount` give every reader of a row one late writer.

Uploads touch only their own media and creations only their own post, so that
one of each meets everything it can meet; two comments are a comment and its
reply, in every order of edits and removals. A mixture of alerts takes two
webhooks, an achievement that is inserted twice two runs, an older agreement
written last two acceptances. Of views the third is needed: one that counts, one
that registers late, and one that trusts the key. A page of one post makes every
publication move every page, and a page end among any two posts of one second. Days of two hours keep what the rain report
depends on: an hour before and after the cutoff's, a first document that is or
is not the cutoff's day, and any order. The real widths are used where the
numbers matter (`Granularity`, the calendar of `IntervalStart`). Three changes of
an avatar are a first one, a removal, and one that writes back; two edits of a
type are a rename and the edit that makes up for it.
All modules have theorems for all bounds; see [The proofs](#the-proofs).

`CHECK_DEADLOCK FALSE` is used where a bound or the nature of the part makes the
system stop: commits in the pipeline, requests that are named by what they
create or are a given number in `PostLifecycle` and `MCPlatform`.
`ProfileFollow`, `PostVotes` and `UserAccount` are checked for deadlock.

## Fairness and assumptions

Weakly fair in `FairSpec` are the delivery of an event, the worker taking and
finishing a job, the timer, and the steps of a running flush: NestJS, BullMQ and
Node's event loop keep all of them going and none waits for a condition that
somebody else can take away for ever (a lock that is held ends in a refusal).
Requests and failures are not fair. `Convergence` needs requests to stop, since
every handled job re-arms the timer: under a steady stream less than the delay
apart no flush ever starts.

Assumptions about what is not in `src/`:

- BullMQ ignores an `add` whose job id is still in the queue, removes completed
  jobs (the options ask for it), runs one job at a time (`concurrency: 1`) and
  puts a stalled active job back to waiting after a restart;
- Redis pub/sub delivers at most once, to the patterns a controller declares;
- Redlock's release deletes the key only when it still holds the lock's value;
- a `SELECT COUNT` sees exactly the committed rows at some moment of the query;
- MariaDB: unique indexes hold across transactions; an `UPDATE` of all rows keeps
  them locked until its transaction ends (`CivilDefenseAlerts.Locked`); a
  transaction that is open when the process dies is rolled back;
- a blob store answers for a file that is only partly written (the local one
  does; S3 does not, which is one of the outcomes);
- `CacheInterceptor` stores an answer by URL when the handler ends, and no errors;
- `Latency` in `PartnerObservations`: the time from a query to the end of its
  request is bounded. The code sets no bound; the property is stated with it;
- the calendar (`CalendarAssumption`): months begin at least 28 days apart and years
  365, and every moment that is asked about is in one of each;
- no two documents of a station have one day and no two readings one time, in the
  collections the other program writes;
- that program stores in `rainVolumeAcc` the sum of the document's hours, or null
  (`Accumulated` excludes the latter where it is said so);
- sums of doubles are exact. What is computed in binary may differ from it by the
  last bit, and a tie of `$round` or `toFixed` then falls to either side;
- `AckBeforeFlush`: the timer, 0.5 s to 6 s after the last `handle()`, does not
  fire before BullMQ has marked that synchronous job as completed. Without it an
  event dropped because its job is still *active*, although its flush has
  already counted, would be lost.

## The proofs

`MetricsPipeline_proof` holds six theorems, for every choice of items, tables,
flushes, faults and bounds that satisfies `TablesAssumption` and
`ValuesAssumption`:

| theorem | statement |
|---|---|
| `TypeCorrect` | `Spec => []TypeOK` |
| `Inductive` | `Spec => []IInv` |
| `NothingLost` | `Spec => []NoLostUpdate` |
| `NothingForgotten` | `Spec => []NoForgottenEntry` |
| `NeverBack` | `Spec => NoRegression` |
| `Implements` | `Spec => ImplementsCounterSync` |

`NoLostUpdate` is not inductive. `IInv` adds what each hand-over needs:

- `CleanFlush`: a flush between items carries no metrics or counts over, so
  `Acquire` starts from nothing;
- `ActiveJobScheduled`: what an active job asked for is still in the map, so the
  event that `Deliver` drops for its sake is covered; this is where
  `AckBeforeFlush` is used;
- `NoForgottenEntry`: the map is never left without a timer;
- `HolderIsSafe`: a lock's holder about to write an old count knows of another
  refresh on its way, and never writes a count older than the stored one. Both
  parts rest on the lock: nobody else writes while it is held, and losing it is
  an abandonment;
- `FromThePast`: counts are not ahead of rows, which makes "differs" mean
  "behind".

The proof of the inductive step splits `Next` into the write, the two restarts
and the rest (`NextSplit`). `DeliverKeeps`, `FlushKeeps`, `ChangeCovers` and
`QuietKeeps` say that a counter on its way stays on its way: each action that
takes the refresh from one place (event, queue, map, snapshot, current item) has
put it into the next. `WriteKeeps` and `RestartStep` treat the others.
`NeverBack` and `Implements` follow from `IInv` before the step.

`UserAccount_proof` holds five, for every set of users, e-mails and requests
that satisfies `NamesAssumption`:

| theorem | statement |
|---|---|
| `AccountInductive` | `Spec => []IInv` |
| `AccountTypes` | `Spec => []TypeOK` |
| `ProfilesAreComplete` | `Spec => []ProfileHasCredential` |
| `ActiveUsersAreComplete` | `Spec => []ActiveHasProfile` |
| `BansHold` | `Spec => []BanHoldsUnlessOverlapped` |

Rows alone do not carry the induction, because a request writes what it read
earlier. `IInv` therefore says what requests hold:

- `WellFormed`: the status and e-mail held fit the step, and credentials and
  tokens belong to rows that exist;
- `CommitsWithCredential`: when the transaction of a sign-up is about to end, the
  credential is in place, and nothing removes one;
- `WritesActiveWithProfile`: who is about to write `ACTIVE` knows of the profile,
  by `FindProfile` or because the row was active when it was read;
- `HeldAreBanned`: once a ban nobody overlapped is written, a request that holds
  the user's row has read `BANNED` itself or is an administrator's.

`StepInv` has one case per action; `SaveUser`, `Write` and `Decide` are the ones
that use the last two.

`ProfileFollow_proof`: `FollowInductive`, `FollowTypes`, `AnswersAreTrue`
(`AnswersMatchRows`) and `ShownIsCurrent` (`ShownCountsAreRight`), for every set
of profiles and requests. A settled profile's counters are current only because
of what held while it was being refreshed: `CountsInv` says that for a profile
nothing is about to refresh *again* (`Quiet`), the running refresh has counted
current numbers, or none. A row that is committed after a count makes its
profile not quiet until another refresh has begun.

`PostVotes_proof`: `VotesInductive`, `VotesTypes`, `ShownIsCounted` and
`SettledIsCurrent`. `CountsInv` is the same argument for the two counts of one
post; `AnswerInv` says that the post a request holds contains its vote, which
`Recounted` preserves because taking a vote away and adding one are one step on
the same numbers.

`PostLifecycle_proof`: first about uploads alone (`UploadsInductive`,
`ActiveMediaIsServed`). `UploadInv` counts what a request holds and what is left
together: while no write has failed they are the type's aliases, so that when
nothing is left everything is held. Then `LifecycleImplementsUploads`
(`Spec => MediaSpec`): posts and comments never touch a media, and what is
proved of uploads holds of the whole. `LifeInv` carries the rest:

- `CreationInv`: a post is in the table exactly when its request has committed;
  its medias and type are the request's; an incident precedes its post;
- `AttachedInv`: a request that was not refused holds `ACTIVE` medias, and stays
  so, because no row leaves `ACTIVE`. The code never asks for the status; what
  carries the argument is that only `Activate` gives a row its sources;
- `DeletingInv`, `CommentInv`: what is about to be deleted is in the table, what
  is about to be added is not.

From them `PostsAreWhole`, `AttachedIsComplete`, `RemovalsLast`,
`CountAgreesWithListing` and `LifecycleTypes`. `NamesAssumption` (some variant
has a name `getVariant` looks for) is needed for covers and thumbnails.

`Platform_proof` treats six modules, each with an invariant of its own, and then all
nine together:

- `CivilDefenseAlerts`: `AlertsInductive`, `NeverAMixture`. The active rows are
  those of the list that committed last; the rows an open transaction sees are
  those it has upserted (`CallInv`).
- `PartnerObservations`: `NeverTooOld`. What a slow query holds was recent when
  it ran, and `Latency` bounds how long ago that was (`FoundInv`); the cache adds
  its time to live to that (`CachedInv`).
- `PolicyAgreements`: `PoliciesInductive`, `PoliciesTypes`, `ConsentStands`. Two
  acceptances of one policy that are under way at once have both met another
  (`OverlapsAreMet`); what one alone has found is what is on record
  (`FoundOnRecord`). `ChecksInductive` and `ChecksAreRight` are about the check:
  it holds the newest policies there were when it began, and agreements only grow
  until it ends (`AgreementsGrow`). What makes "newest" the query's answer is that
  padded parts compare as strings the way their numbers do (`KeysCompareParts`,
  down to the digits), *when the versions of a type have equally many parts*. The
  two theorems have this as a hypothesis, `VersionsAlike`, and need it: for a short
  version `SUBSTRING_INDEX` repeats the last part, so 2 is compared as 2.2.2 and
  comes after 2.1.0. The code writes no policies, so nothing in it decides
  whether the hypothesis holds.
- `ProfileAvatar`: `AvatarInductive`, `OneAvatarIsShown`. What
  a change holds is what it read or what it found (`HeldInv`), and what one alone
  has read is still in the table (`AloneInv`). That posts show no other avatar than
  the profile (`PostsFollow`) needs neither: it is inductive by itself.
- `IncidentTypes`: `IncidentTypesInductive`, `TypesStay`, `SlugsAreClose`. An edit
  under way holds the entity that was built from the row it read (`WrittenSlug`),
  however old that row is by now.

- `Gamification`: `GamificationInductive`, `GamificationTypes`, `NeverTwice`,
  `AlwaysEarned`, `FinishedIsComplete`. What is stored is read back whole
  (`StoredIsRead`) and never changes, so a run's list stays valid (`ListedStays`);
  what passes the filter was earned at that moment (`FoundIsEarned`, from
  `DueIsEarned`); and each listed, due achievement is unlocked or still to do
  (`NothingLeftOut`). The lease appears nowhere in the invariant: the properties
  do not depend on it, the unique index carries them.
- the composition: `EachPartRunsAsAlone` shows that every behaviour of `MCPlatform`
  is one of each part, because a step of one part leaves the others' variables
  alone; `PlatformTypes` and `PlatformIsSafe` (with `VersionsAlike`) collect what
  follows, which is every property of the `platform` run.

`Reading_proof` treats the parts that answer readers.

- `ViewCooldown`: `ViewsInductive`, `ViewsAreApart`, `ViewsTypesHold`. A run that met
  no other is `Alone` until it registers, is therefore `CountedLast`, and from then
  on `Protected` by the key it left; `SecondsCover` (rounding up never shortens)
  keeps the key for the whole cooldown.
- `PostListing`: `ListingIsComplete`, `ListingTypes`, `NoPostIsMissedHolds`,
  `NoPostTwiceHolds`. `ListingInv` counts `Ahead(i)`: the selected posts of a second
  strictly before that of `i` in the reader's order. They stand before `i` in *every*
  order the database may answer in, whichever it takes for which page. A post that was
  there from the beginning, while none of its second has been shown, has at least as
  many of them as the pages read so far have taken; and while a total is known that is
  not older than its rows, it knows of a page for that post (`StillToCome`). A post
  that was shown and is `AloneInSecond` has fewer (`Passed`), so no later page holds
  it again. `PageOfSelected` is where both meet a page of rows. A publication only adds
  to `Ahead` (`PublishingPushesBack`), which keeps the first and ends the second
  (`grown`); a deletion only takes away (`DeletingDrawsNearer`), which keeps the
  second and ends the first (`present`).
- `WeatherReports`: that an answer is the one computed on what was read is a lemma
  (`ReportsInductive`); the theorems are about the computation. `WindowsAddUp` groups
  readings by interval twice, coarsely and finely, and both sums are the sum over the
  window (`GroupsAddUp`). `RoundedIsNear` says that a rounding moves a sum by half a
  tenth at most and leaves whole tenths as they are, `SumsStayNear` that such errors
  add up over the points and no further. `RainNests` compares the three windows
  document by document (`PartsNest`); `toFixed` keeps the order (`ToFixedGrows`).
  `RainExactly` splits a window at the hour of its cutoff: an hour `h` of a day is
  since the cutoff's hour exactly when the code adds it, which needs the first
  document to be the only one of the cutoff's day, and so the order of days
  (`DaysPartsAreExact`, `DayPartsAreExact`). Both are about documents that hold the
  sum of their hours. `PointsStayBounded` counts interval starts: integers that lie
  `d` apart within `d * k` are `k + 1` at most (`SpacedAreFew`).

`SumsAndSorting` holds the lemmas about data. The provers cannot instantiate the
library's induction theorems, whose parameter is an operator; but `WFMin` speaks of
sets, and from it follow `NatsBySteps` (a set with 0 and all successors has all
naturals) and `SetsBySteps` (the same for the subsets of a finite set). With these,
`FoldingUnfolds` shows that the `CHOOSE` of the community modules' fold has the value
it is meant to have for every finite set, and everything about sums follows
(`SumTakes`, `SumOfUnion`, `SumOfGroups`, `SumOfList`). `RisingListExists` and
`InOrderLists` do the same for sorting: `InOrder` lists its set, each element once,
by rising keys. `OrdersList` and `OrderPlaces` say of `Orders`, where keys may be
equal, what all of its lists have in common: keys rise along them, and at the
place after as many elements as have smaller keys than `x` there is `x` or one of
an equal key. `SumsStayNear` and `SumsOfMultiples` are about sums of rounded terms.

`DrainedIsCurrent`, in `MetricsPipeline_proof`, is as much of `Convergence` as the
prover can say: when nothing is under way, what is not abandoned is up to date. That
the pipeline empties once requests stop is left to fairness.

Only model-checked: `Convergence` and `FollowsSettle` (liveness under fairness, and
`ENABLED`). Every other property of a passing run is a theorem, from the assumptions
on the constants that the modules name and, for `CheckedAgainstNewest`, `VersionsAlike`.

## Where code and words differ

- `post_comments_count`: the post processor has an entry for
  `post-comment.removed`, but `PostAsyncController` has no handler for it.
- `own_vote`: `vote()` passes a user id where the repository takes a profile id.
- `ban_undone`: the whole-row update of a user writes back a status read before
  a ban.
- `delete_others`: the controller's check tests `user.isAdmin`, a method, without
  calling it, so "You are not allowed to delete this post" is never said.

`PROJECT.json` gives the lines and the quotes under `findings`.

## Not modelled

- *The clock of the pipeline.* Delays, the TTL and the lock's retries are
  nondeterminism in `MetricsPipeline`; relations between them (the profile
  queue's 500 ms delay against the lock's 1000 ms TTL) cannot be stated.
- *Tokens and passwords*: hashing and JWTs are libraries; the expiry of a
  verification is a comparison with the clock.
- *Read-only listings and summaries* of users, followers, incidents and
  locations, e-mail, logs: no state of their own. Locations and the log of
  accesses are single inserts nobody reads back.
- *Code without a caller*: `PostRepository.update`, `ProfileService.updateProfile`
  and `deleteProfile`, the policies' `add` and `delete`.
- *Validation, throttling, formatting, the wiring of NestJS modules*: framework
  code; inputs are taken to be valid.
- *Pixels*: an image is the set of its variants.
- *A double click on a vote*: both requests toggle the vote they read. This is in
  `PostVotes`, but no property speaks of it: the code promises neither outcome.
- *The list's other orders*, by counters that move under the reader: pages may
  repeat or skip any post. `PostListing` is about the two orders by date.
- *Lists of stations, interpolated maps and temperatures* of the telemetry: a query,
  its `$sort` and an answer without state. Maps are limited before they are sorted,
  so which ones come when there are more than the limit is the database's choice.

## Plan

Done: everything in [The modules](#the-modules).

Left, in this order:

1. `DebounceLock`: the timer, the TTL and the retries with a clock, and under
   which of the three queues' delays the lease can expire under a live holder.
2. `CounterSync` in place of `Gamification.RefreshCounter`, to ask whether an
   event's run sees the counter that the event is about.
3. The expiry of verifications, with a clock, which is what `Accounts` lacks.
4. That steps of the pipeline under `Quiet` bring it nearer to `Drained` (a measure
   over events, jobs, the map and the flushes that each fair step lowers), as far
   as it can be said without `ENABLED`.
