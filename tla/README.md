# Verification of the volunteer-event platform

TLA+ modules, TLC configurations and TLAPS proofs kept beside the code of the platform:
`apps/front` (React), `apps/gateway` (NestJS), `packages/database` (Prisma, MySQL 8.0),
`packages/contracts`, and the Java services `ms-auth`, `ms-chat` and `ms-notification`,
which live elsewhere and are modelled only as this repository uses them (*external* below).

- Run a model: `tlc -config MCParticipationConcurrent.cfg MCParticipation`
- Check the proofs: `tlapm ParticipationProofs.tla`, and the seven other `*Proofs` modules

`PROJECT.json` lists the runs, the lines of code behind each definition, the hazards, the
findings, and for each property a plausible bug that breaks it. Operators commented as
"Variant" are those bugs; no specification uses them.

## 1. What works, and what does not

| | |
|---|---|
| Proved, for any number of users, rows, requests, connections and acts | Every invariant and every action property the passing runs check. *Participations*: rows keep status and dates in agreement and change only by requests of their two parties; a commit whose row nobody else wrote, and any first request, follows the lifecycle; an accept or cancel leaves the slot's status exact unless what overlapped it changed the slot row or who else is accepted; only a commit that another overtook is anything else than one call served alone. *Their events*: every commit is announced or known to be lost; only the other party is told, in the order of each topic. *Catalog*: no orphans; whatever is created, changed or deleted lies in an event of the caller; slots are written inside their event. *Session*: token and cookie are one user's once the handler of the newest answer has run; no request waits on a refresh that nobody answers. *Discussion*: no gap on the screen, nothing taken off it, each typing signal has its timer. *Bell*: the badge misses nothing while the stream is read, an open list shows what was marked. *Home page*: the pages share the events out, no empty page stays. *Screens*: no settled page shows less than the tab's own changes, three stated exceptions aside. |
| Model-checked only | Liveness: commits are notified, requests settle, messages arrive, the stream comes back, the search settles, forms are released. |
| Disagreements found | Four, in section 6: overlapping decisions, the refresh of an expired token, the notifications marked read in a closed menu, the map of the home page. |

## 2. Inventory

### The components

**Participations** (`gateway/src/participation`, tables `Participation` and `Slot`).
State: one row per volunteer and slot (`status`, `decision_at`, `cancelled_at`), the slot's
`status` and `max_participant`. Operations: `create` (or rejoin after a cancellation),
`transition` (ACCEPT, REJECT, CANCEL), each one interactive transaction;
`getMyParticipations` reads. Hard: transactions overlap on a pool of 5 connections, at
REPEATABLE READ, with plain SELECTs: the guards speak of a snapshot and the UPDATEs of the
last committed rows; `syncSlotStatus` counts in the snapshot; the organizer edits the slot
with no transaction at all. Correct when rows follow the lifecycle, the slot's status
says whether it is full, and only the two parties act.

**Participation events** (`gateway/src/kafka`, called by the former after COMMIT).
State: none in the gateway; three topics keyed by recipient; the inbox of each user
at ms-notification (external). Hard: send after COMMIT, retries, redeliveries, a crash
between the two. Correct when each commit is announced to the other party, in the order
of its topic, or its loss is known. (A repeated event is dropped by the `eventId` the
gateway gives it: the consumer's doing, so no property here claims it.)

**Events, missions, slots** (`gateway/src/event`, `mission`, `slot`). State: rows linked
by foreign keys with cascade, `unique_event` and `unique_address`. Operations: create,
update, cancel, remove; each is a chain of separate statements and awaits (geocoder),
with no transaction. Searches and detail reads. Correct when nothing is
orphaned, only the organizer writes, and slots lie inside their event. (That an event exists
once is the work of `unique_event` alone: the check in front of it adds nothing.)

**Front session** (`front/src/features/auth`, `shared/utils/axios-client.ts`, `App.tsx`)
with the **gateway's authentication** (`gateway/src/ms-auth`). State: access token in a
store, refresh cookie, promise of the shared refresh, parked requests. Three independent
refreshers (AuthProvider, App's query, the interceptor), sign-in, sign-out. Hard: the
browser applies the cookie of an answer before any handler of the page runs, and handlers
run in another order than the cookies came. Correct when the token and the cookie end up
one user's and each refused request is replayed or fails.

**Event discussion** (`front/src/features/chat`; relay `gateway/src/ms-chat`; server
external). State: STOMP client, messages merged from the live subscription and the
history, typing signals with timers. Hard: reconnections, dead sockets, frames in any
order. Correct when the tab shows the room without a gap and nothing typed is lost.

**Notification bell** (`front/src/features/notification`, relay
`gateway/src/notification`). State: unread badge and list, two entries of the cache; the
event stream with its controller, retry timer and connections; the menu; two mutations.
Hard: pushes race the fetches of the count and of the list; the stream ends by a cut, an
expired token, a refused connection or a hidden tab, and each has its own way back.
Correct when the badge misses nothing while the stream is read, an open list shows
what was marked, and the stream always comes back.

**Event search and home page** (`event.service.ts` findAll, `front/src/pages/Home.tsx`).
State: filters, debounced search, the city's coordinates, page number, cached answers by
key with the previous one as a placeholder; on the gateway, a list and a total read by two
statements. Correct when the pages partition what a search finds, the page ends on one that
exists with the answer to the filters, and the map shows what the list shows.

**Front query cache** (`front/src/**/use_*.service.ts`, `QueryKeys.ts`). State: cached
lists, events, missions, slots and own participations, each with its request under way
and its staleness; each mutation removes and invalidates some keys. Hard: changes overlap
with each other, with the refetches they await and with the pages left meanwhile. Correct
when the user sees his own changes on any path through the screens, and no form stays locked.

**Settings** (`front/src/features/settings`, `gateway/src/settings`). State: sections
cached whole, a form opened on them. Hard: a save races the GET of the same section.

**Members' area** (`event.service.ts` findMembers). Reads the membership, then awaits
ms-auth: the answer may be stale.

Others: service clients and relays (stateless), application shell of the gateway (wiring,
pipes, exception filters), contracts (types), front pages and widgets (rendering), the
delivery pipeline (shell steps over SSH), and folders that hold placeholders only.

### How they interact

- front → gateway: HTTP calls with the token as bearer and the cookie; 401 parks the call
  on one shared refresh (`axios-client.ts`), the replay goes through the same interceptor.
- gateway → MySQL: Prisma; transactions only in ParticipationService.
- SlotService and the cascades of MissionService and EventService write the slots that
  ParticipationService reads: shared state without a common lock.
- gateway → Kafka → ms-notification → event stream → notification bell.
- front ⇄ gateway ⇄ ms-chat: a socket relayed without being read; ms-chat asks the
  gateway's `findMembers` who may subscribe.

### Hazards

`PROJECT.json` lists 40 of them at their lines. They fall in five groups: guards on
snapshots (participations), checks and writes apart (catalog), independent refreshers
(session, event stream), at-least-once delivery (events, chat), and cached answers beside
fresh ones (bell, home page, screens, settings). Those without a property carry the reason:
either the code does not prevent what is described and no document says it should, or the
module is in the plan.

## 3. Modules

| Module | Models | State ↔ code |
|---|---|---|
| `Participation` | `ParticipationService.create/transition` on shared tables | `participation`, `slot`: committed rows; `pc`, `call`, `snap`: requests, arguments and snapshots of open transactions |
| `ParticipationLifecycle` | what callers who come one at a time are promised (abstract) | `status`, `slot` |
| `ParticipationEvents` | `DomainEventPublisher` and its consumer; EXTENDS `Participation` | `queue` (a partition per topic and key), `inbox`; `sent`, `done`, `lost` are history variables |
| `EventCatalog` | Event, Mission and Slot services | `event`, `mission`, `slot` rows; `req`: what a handler has read and will write |
| `AuthSession` | one tab: store, cookie, refreshers, requests; the gateway's guard | `page`, `cookie`, `token`, `appMay` (App's query may fetch), `flight` (auth calls: sent, then answered until their handler runs), `req`; `newest`: history, what became of the answer that changed the cookie last |
| `EventChat` | `useEventChat`, the connection, ms-chat (external) | `link` (what the client believes), `session` (what the server holds), `up`, `down` (frames), `room`, `member`, `shown`, `typing`, `timers`, `out` (fate of each draft) |
| `NotificationBell` | `useNotificationStream`, the badge, the list and the menu; fetch-event-source, the cache and ms-notification are external | `badge`, `list`: cache entries (data, request, staleness); `es`: the stream's controller, its timer and the open connections an earlier token left behind (`old`); `conn`, `wire`: the connections and what they carry; `stored`: the service's rows; `told`, `blurred`: history |
| `EventSearch` | `EventService.findAll` as an operator on a table: filters, distance, order, page (no actions) | `status`: the events of the table; `Facts`: what a filter reads of each |
| `HomePage` | `Home.tsx` over `EventSearch` | `form`, `debounced`, `page`; `profile`, `geocoded`: the coordinates asked for; `cache`, `lastKey`: answers by key and the placeholder |
| `EventScreens` | the hooks of events, missions, slots and participations, the pages that use them, and the gateway's answers | `me`: organizer, volunteer or both; `table`: versions of what each screen reads, who is alive, the participation's status; `cache`: five kinds of entries; `page`; `mutation`: the changes under way; `acked`, `late`: history |
| `ParticipationProofs`, `ParticipationEventsProofs`, `EventCatalogProofs`, `AuthSessionProofs`, `EventChatProofs`, `NotificationBellProofs`, `HomePageProofs`, `EventScreensProofs` | theorems about the modules of those names (section 5) | |
| `MC*` | model values, symmetry, input sets for TLC | |

### Granularity

- **Participation.** A transaction is two steps. `...Reads` takes the snapshot and applies
  the guards. `...Commits` performs the writes: they act on the last committed rows, hold
  their locks until COMMIT, and everything else the transaction reads comes from its
  snapshot, so they take effect together. A refused call changes nothing and is a
  stutter. `TransactionFails` stands for any failing statement (unique key, missing row,
  deadlock, timeout), `Crash` for the death of the process. `SlotUpdate` and `SlotRemove`
  are the organizer's edits and the cascades. Only whether the two dates are set is kept.
- **ParticipationEvents.** `Committing` couples a commit with the obligation to send;
  `Sent`, `SentUnacknowledged` (the broker has it, the producer does not know and
  sends again) and `SendFails` are the outcomes of a send. `ConsumeUncommitted` is a
  redelivery.
- **EventCatalog.** A handler's reads are one step and its write another: what the reads
  meet besides the row itself (owner, parent) never changes, and ids are never
  reused, so reading them one by one would give nothing new. Anything may happen in
  between, deletion of the parent included. Only fields that a check reads are kept; OPEN
  stands for DRAFT and CLOSED as well. An update of an event may carry any subset of the
  form's fields, as the DTO allows; the front sends them all.
- **AuthSession.** An answer takes two steps. The browser applies the `Set-Cookie` of its
  headers; later JavaScript runs the handler, which writes the store and settles the
  promises without interruption. Between the two, other calls leave with the new cookie and
  the old token, other answers arrive and are handled first, the body is lost, or the page
  is left. A handler's other effects are part of it: signing in makes App's query fetch
  again, signing out makes it a new one. A call
  carries the bearer of the moment it was sent: none, live, old (a newer one is stored) or
  expired. `UpstreamFails` says whether ms-auth and the network may fail.
- **EventChat.** The server handles a session's frames in order; frames to the tab arrive
  in any order, which is weaker than the socket gives, since ms-chat's broker promises
  less. `EventDiscussion` is keyed by the event, so `Reopens` is an unmount and a mount.
- **NotificationBell.** A callback of the stream and what it does to the cache are one
  step; the awaits inside it (the count that `onopen` reloads, the refresh after a 401) are
  not. fetch-event-source's controllers are kept as they are, with the stream that an abort
  leaves behind because its `onopen` is still awaited. A new token's run
  disposes of the one before, which aborts the latest controller only: an older connection
  still open stays (`old`), with its old bearer, and may deliver, close or be refused. An
  answer is read at one time and arrives at another.
- **EventSearch, HomePage.** The gateway's two statements run at once: a change of the table
  may fall between them for any request under way (`TableChanges`). A render and its
  derived values follow each change at once; the clamp is an effect of its own, before
  anything else happens. Places are numbers on a line.
- **EventScreens.** A row is the number of changes this tab made to it, so an answer is older
  than a change when its number is smaller. Each `onSuccess` is a list of key sets in the
  order the code awaits them. Changes overlap, `MaxChanges` at once: a button that is
  disabled while its change is pending (`Locking`) is so only as long as its page is mounted,
  and the others (deletions, the participants' dialog, signing up, the edition of a mission)
  are not disabled at all. A refetch that two changes await is awaited by both; one that is
  cancelled for a newer one is awaited as that one. The user may be the organizer, a
  volunteer, or an organizer who takes a place, which no code forbids. The tab starts on any
  page, freshly opened or with every page visited before.

## 4. Runs

| Run | Question | Instance |
|---|---|---|
| `participation_concurrent` | What holds however transactions overlap, fail or die while the slot is edited? | 2 users, 1 slot, 3 requests, 2 connections, sizes 1-2 |
| `participation_events` | What do users hear when sends fail, are repeated, or the gateway dies? And, since nothing overlaps there, is the service its one-call-at-a-time specification? | 2 users, 1 slot, 2 requests, 1 connection |
| `catalog` | What do two calls at a time make of the catalog? | 2 events, 1 mission, 1 slot, 2 dates, organizer and stranger |
| `auth_session` | Do the refreshers leave the tab in one session, each request settled? | 2 users, 1 request beside the notification stream, 2 auth calls under way when the page or the user adds one |
| `event_chat` | Is the discussion shown without gaps, do typing signals end? | 2 users, 3 messages, history of 2, 1 draft |
| `notification_bell` | Does the badge miss nothing, does an open list show what was marked, does the stream come back? | 1 notification, 2 connections, 2 faults of any kind |
| `home` | Are the pages a partition, and does the page end on one that exists with the right answer? | 2 events, pages of 1, one filter of each kind, 2 acts, 1 change of the table |
| `screens` | Does the user see his own changes wherever he goes and however they overlap, and is every form released? | organizer, volunteer or both, 2 acts, 2 changes at once, 1 act of the other party or lost call |
| `participation_stale_guard`, `auth_refresh_expired`, `notification_bell_marks`, `home_map` | The findings of section 6 | the smallest instance that shows each |

### What they show

- *Participations.* Under any overlap: rows keep their dates in agreement
  (`DatesMatchStatus`) and change only by their parties (`OnlyPartiesChangeRows`). A commit
  follows the lifecycle if nobody else wrote its row since it read it; a first request does
  in any case, so of two of them the second never undoes a decision on the first
  (`FreshCommitFollowsLifecycle`). An accept or cancel leaves the slot's status exact if the
  slot row and who else is accepted are as it read them (`SyncIsExact`). What the comment of
  `create` promises ("all check pass ... important for the count of the current
  participants") and what `fromStatuses` says of transitions do **not** survive overlap;
  `OnlyOvertakenCallsStray` says how far it goes: a commit whose row and places are still as
  read is one call of `ParticipationLifecycle`, whatever else overlaps. `LifecycleSpec` is
  checked where nothing overlaps, with one connection; the theorem `NotOvertakenRefinement`
  has it for any pool under the condition that no commit was overtaken.
- *Events.* A commit is announced or known to be lost and never both
  (`EveryCommitAccounted`), nobody but the other party is told (`OtherPartyNotified`), order
  holds within a topic (`NotifiedInTopicOrder`; across topics it does not, in spite of
  `kafka.topics.ts:2-4`), and each commit is handled unless lost (`CommitsAreNotified`).
- *Catalog.* Foreign keys and cascades repair what checks apart from writes cannot
  (`NoOrphans`). Ownership checked statements earlier still protects, creations of missions
  and slots included (`OnlyOrganizerWrites`), since neither owner nor parent ever changes.
  Slots are written inside their event unless it moved meanwhile (`FreshSlotInsideEvent`).
- *Session.* However cookies and handlers interleave, once the handler of the answer that
  changed the cookie last has run, the token is nobody's or the cookie's
  (`TokenMatchesCookie`). It fails, and the property says so, in three cases: before that
  handler runs; when the body of that answer is lost on the way to a handler that leaves the
  store alone (App's query, sign-in, sign-out); and when the handler of an older answer runs
  after it. A reload or a failed restore or shared refresh ends all three, and nothing else
  must: the page may act as one user while its cookie would restore another. No request
  stays parked or loops (`EveryRequestSettles`).
- *Discussion.* After both subscriptions are answered the tab shows the latest messages
  (`CaughtUp`): subscribing before asking for the history is what makes it true. Nothing
  shown disappears (`ShownStays`), each typing signal ends (`TypingEnds`), and on a
  connection that holds each latest message is shown in the end (`StoredIsSeen`).
- *Bell.* While the latest stream is read the badge counts every unread notification
  (`ListeningMissesNothing`): it may count too many, when a push meets the count that holds
  it already, but never too few, except for a notification that slips between the answer of
  a count and its arrival, which the property leaves out (`blurred`). An open list comes
  back to what was marked (`OpenListShowsMarks`), and the stream is never down for good
  (`StreamComesBack`), two streams at once and the survivor of a new token included.
- *Home page.* Order by date then id makes the pages a partition (`PagesPartition`, checked
  for every search the page can reach and every table), the clamp leaves no empty page
  (`NoEmptyPage`), and the page settles on the answer to its filters (`SearchSettles`).
- *Screens.* A page whose query is idle shows at least the changes the tab was told of
  (`ReadYourWrites`), with three exceptions, all of which the code allows. First, an answer
  read before the change was acknowledged that the cache does not ask for again (`late`).
  Second, the page of a mission or a slot that went with its event or its mission
  (`Forgotten`): `useDeleteEvent` (`use_event.service.ts:104-107`) and `useDeleteMission`
  (`use_mission.service.ts:69-72`) remove the key of what they delete and forget those of
  what goes with it, so browsing back shows the dead record from the cache. Third, the
  missions of an organizer who took a place, which changes of an event, a mission or a slot
  do not refresh. So the lists of keys are **not** complete; these are the keys they lack
  (hazards at `use_slot.service.ts:53`), and no document promises more. A cancellation that a
  volunteer confirms on a list that is up to date is refused only when the organizer came
  first, as long as no call was lost and no other change of the participation overlaps
  (`OwnCancelOvertaken`); a list being reloaded still shows the old rows and offers what was
  cancelled already. Every change releases its form, whatever fails among the refetches it
  awaits (`MutationSettles`).

### Bounds, and why they are enough

- `Requests`: in `Participation` each is served once. Two overlapping calls are what every
  hazard there needs; the third lets a call commit and finish between two others. The
  tables start with any rows earlier traffic could have left, so long histories are not
  needed to reach rare rows.
- `PoolSize`: 5 in the code. Two is the least that overlaps. The run of the events has one,
  because sends, retries and deaths of two calls overlap as they are, and because the
  one-call-at-a-time specification is only implemented without overtaking. The theorems hold
  for every size.
- `MaxPlaces` 2: a slot can be empty, partly full, full and over-full with two volunteers.
- `Dates` {1, 2}: equal, before, after; a shortened event needs no more.
- `MaxCalls` 2: a third auth call comes from the shared refresh of a refused request or from signing in, which
  wait for no room. (With 3 the run also passes, in 1,125,867 states.)
- `Requests` of `EventCatalog` are reused without limit; two at a time overlap.
- `HistorySize` 2 of `MaxMessages` 3: a message can leave the history, and the gap between
  history and live messages can exist.
- `Drafts`, one: its fate does not depend on another's.
- One notification is enough for each race of the bell: pushes are counted, and each is
  handled alone; the run of section 6 has two. Two connections: the latest and one
  that an abort or a new token left behind. The one case that needs a third (the latest
  aborted while it awaits the count, an older one open) makes a new token's stream wait for
  room; the proofs hold for any number. Two faults: a fault during the way back from another.
- `MaxActs` and `MaxChanges` 2 in `EventScreens`: two changes that overlap, or a change and
  the page left or reached meanwhile, from a cache that already holds every page; with one
  act of the other party, or one lost call, in between. A place stays free, so that
  participating is never refused for lack of one. The safety properties are proved for any
  number of acts, changes and events.
- Pages of one event, two events: a page that ceases to exist, and one to go back to.
- A lost acknowledgement happens once per event: the second repetition is handled as the
  first.

Symmetry is used for requests, volunteers and events (never for the organizer), and in no
run that checks liveness. `CHECK_DEADLOCK FALSE` everywhere: requests, acts and faults are
bounded, and a system that nobody calls rests.

### Fairness, and why the code justifies it

- `ParticipationEvents`: the gateway goes on with what awaits a settled promise (weak
  fairness of send-or-fail and of commit-or-rollback), the consumer keeps polling. No user
  owes a call, no send owes success, no process owes its death.
- `AuthSession`: an HTTP call is answered or fails, for the shared refresh and for each
  request. Nothing else: tokens need not expire, users need not sign in.
- `EventChat`: the server handles its frames, the tab handles those it received, timers
  fire. The network owes nothing: `StoredIsSeen` supposes a connection that holds.

- `NotificationBell`: requests are answered, timers fire, a refresh succeeds or fails, the
  stream's answers are handled. Strong fairness for the arrival of the count only, since
  opening the menu again and again asks for it anew.
- `HomePage`: timers fire, effects run, requests are answered; failures are bounded by
  `MaxChanges` and owed by nobody.
- `EventScreens`: a call is answered and what awaits it goes on; no act of a user is owed.

## 5. Proofs

### Participations (`ParticipationProofs`)

From the assumptions stated in `Participation` (`Users` and
`Requests` finite, `OrganizerOf` a function from slots to users, `PoolSize` and
`MaxPlaces` positive):

| Theorem | Statement |
|---|---|
| `TypeCorrect` | `[]TypeOK` |
| `GuardsAlwaysHeld` | `[]GuardsHeld` |
| `DatesAlwaysMatch` | `[]DatesMatchStatus` |
| `FreshCommitFollowsLifecycleHolds`, `OnlyPartiesChangeRowsHolds`, `SyncIsExactHolds`, `OnlyOvertakenCallsStrayHolds` | the action properties of those names |
| `NotOvertakenRefinement` | `Spec` and no commit ever overtaken imply `LifecycleSpec` |

*Argument.* `TypeOK` says besides types that an open transaction has its call and its
snapshot. It does not say that the guards were applied, and a commit no longer tests
them; the strengthening is `GuardsHeld`: the guards of an open transaction hold of its
snapshot. It is inductive with `TypeOK`, because a snapshot and a call never change while
the transaction is open. `DatesMatchStatus` is inductive with `TypeOK` alone: a commit
writes one of four rows, each with dates that match. The action properties follow from
`GuardsHeld` once the lemmas `CommitCases` and `CommitWrites` say which action a commit is
and what it writes; a first request also needs that no row is inserted over another
(`FirstIsFirst`). For `SyncIsExact`, when the places are still as read, what the transaction
counts is the table after its own write (`PlacesView`). A commit that nobody overtook
has, besides, guards that are true of the tables, since they are true of the snapshot: it is a step of
`ParticipationLifecycle` (`FreshCommitRefines`, `StepRefines`). Nothing is supposed of the
number of connections.

### Participation events (`ParticipationEventsProofs`)

| Theorem | Statement |
|---|---|
| `EventsKeepParticipation` | `ESpec => Spec` |
| `EventTypeCorrect` | `[]ETypeOK` |
| `EveryCommitAccountedHolds`, `OtherPartyNotifiedHolds`, `NotifiedInTopicOrderHolds` | the invariants of those names |

*Argument.* Each step of the events is a step of `Participation` or leaves it alone, so its
theorems carry over. The events are typed because a request under way asks for what its
actor may do (`CallsAllowed`, an invariant of `Participation`), which also gives the
recipient: `AllToOtherParty` says it of the queues as well as of the inboxes, and is
inductive. `EveryCommitAccounted` is not: it does not say that what is on its way is what
reached the broker, nor that a request that has not committed is in no account. `Accounts`
says both. The lemmas `EventCases`, `BrokerWrites` and `ConsumerWrites` reduce the actions
to an event that reaches a partition and one that is handled. The order of a topic is not
the order of its queues, where a retried event may stand behind later ones. `OrderInv`
says what they do keep: whatever was first sent before an event that waits has been handled or
waits before it, and whatever was sent before an event that was handled has been handled. It
rests on the eventId naming one event (`SentAreCommits`), without which ignoring a
repetition could skip another event.

### Catalog (`EventCatalogProofs`)

From `Dates` a set of naturals and inputs of the right shape:

| Theorem | Statement |
|---|---|
| `CatalogHolds`, hence `CatalogTypeCorrect`, `NoOrphansHolds` | `[](CTypeOK /\ NoOrphans)` |
| `ChecksAlwaysHeld` | `[]ChecksHeld` |
| `OnlyOrganizerWritesHolds`, `FreshSlotInsideEventHolds` | the action properties of those names |

*Argument.* Types and the absence of orphans need each other: the handlers read the event
above a mission without asking whether it is there. The action properties need
`ChecksHeld`: what a handler has checked stays true of what it writes, however many
statements later, because a row never changes hands and an id is never given out again
(`OwnersStay`, `StillTheirs`). For a mission or slot that is created, it says it of the
parent named in the call, which the foreign key makes a live one.

### Session (`AuthSessionProofs`)

| Theorem | Statement |
|---|---|
| `AuthTypeCorrect` | `[]AuthTypeOK` |
| `TokenMatchesCookieHolds` | `[]TokenMatchesCookie` |
| `ParkedIsAlwaysAwaited` | `[]ParkedIsAwaited`, the safety half of `EveryRequestSettles` |

*Argument.* Token and cookie are written at different times, so the invariant follows the
newest answer: `NewestIsCookie` says that until its handler has run, it brings the user
whose cookie the browser holds. `AnswersMakeSense` says that the answers of refreshes and
sign-ins bring a user and that of a sign-out nobody, and `LoadingIsQuiet` that a page that
loads awaits nothing. The three are inductive together with the property (`SessionInv`). The
actions are sorted by what they do to the pair (`StepKinds`): an answer `Delivers` a cookie,
a handler `Writes` the store, `Empties` it or `Abandons` it, and everything else keeps the
session as it is. `ParkedIsAwaited` needs the types, which say that a call under way keeps a
bearer, and so stays under way, when it ages.

### Discussion (`EventChatProofs`)

From `Me` a user, a history of at least one message, and drafts that are not taken for
subscriptions (`DraftsAssumption`):

| Theorem | Statement |
|---|---|
| `ChatInvariance`, hence `ChatTypeCorrect`, `TypingAlwaysEnds` | `[]ChatInv`, with the types and `[]TypingEnds` |
| `NoGapOnceCaughtUp` | `[]CaughtUp` |
| `NothingShownIsLost` | `ShownStays` |

*Argument.* `CaughtUp` speaks of a tab with nothing on its way and says nothing of the others;
`Covered` does: once the session is subscribed and its request for the history served, each
of the latest messages is shown or named by a frame on its way. It is inductive because
`SUBSCRIBE_room` is always followed at once by `SUBSCRIBE_history` in the queue to the server
(`InOrder`): no message can fall between the two. `TypingEnds` is inductive as it stands.

### Bell (`NotificationBellProofs`)

From finitely many notifications and marks that are no data (`BellMarks`):

| Theorem | Statement |
|---|---|
| `BellInvariance`, hence `BellTypeCorrect` | `[]BellInv`, `[]BellTypeOK` |
| `NothingMissed` | `[]ListeningMissesNothing` |
| `MarksAreShown` | `[]OpenListShowsMarks` |

*Argument.* The badge is compared with what the latest stream still carries. It only stays
enough because a stream is read after the count that its `onopen` awaits: `BadgeOK` says that
a connection waits for the count only while the count is under way, that an answer on its way
counts every unread notification unless one slipped past it (`blurred`), and that the unread
ones the stream does not carry are at most the badge. A push moves a notification from the
stream to the badge, by one each (`Missed`). For the list, `ListOK` says it of the
answer on its way as well as of the rows shown: a mark cancels the request it overtakes.

### Home page (`HomePageProofs`)

From `PageSize` positive, finitely many numbered events with integer dates
(`DatesAreNumbers`), and an empty entry that is not an answer (`HomeConstants`):

| Theorem | Statement |
|---|---|
| `HomeInvariance`, hence `HomeTypeCorrect` | `[]HomeInv`, `[]HTypeOK` |
| `PagesShareOut` | `[]PagesPartition` |
| `NoEmptyPageStays` | `[]NoEmptyPage` |

*Argument.* `Before` is a strict total order, because ids are unique (`BeforeOrders`), so the
ranks of what a search finds are `1 .. N`, each once (`RankIsOneToOne`, `RankReachesAll`); skip and take cut that
interval in pages, and a number is in exactly one of them (`OnOnePage`, from the division lemma
`Quotient`). An answer computed from one state of the table is empty only if its total is
zero or its page is past the last one (`AnswerOK`, kept for every key of the cache); the
clamp looks at the same total.

### Screens (`EventScreensProofs`)

From bounds that are naturals and marks that are not answers (`ScreenConstants`):

| Theorem | Statement |
|---|---|
| `ScreensInvariance`, hence `ScreensTypeCorrect` | `[]ScreensInv` (`ShapesOK`, `EntriesOK` and `MineOK`), `[]ScreensTypeOK` |
| `OwnWritesAreRead` | `[]ReadYourWrites` |
| `CancelOnlyOvertaken` | `OwnCancelOvertaken` |

*Argument.* The lemma `ChangeCovers` is where the lists of keys are: it goes through the
changes and shows that each `onSuccess` invalidates or removes every query that reads what the
change writes, those of `LeftOut` apart (the exceptions of section 4 that lie in the lists);
without one of the other keys it fails. `EntryOK` then says of each query that what is known
counts the acknowledged changes, or is marked, on its way, owed a refresh by the rest of some
change's `onSuccess` (`Owed`), or left out; that an answer on its way counts them or is known to be
late; and that a page which observes a marked query has asked for it: the mark alone would
not bring a new answer. `MineOK` follows the participation of a volunteer who has lost no
call: what is shown as active still is, unless the other party acted, or a change that ended
it is under way, and what a cancellation was sent from is told apart from what came after.

### Only model-checked

Liveness, which these provers do not reach: `CommitsAreNotified`, `EveryRequestSettles`
(its safety half is proved), `StoredIsSeen`, `StreamComesBack`, `SearchSettles`,
`MutationSettles`. The findings of section 6 are counterexamples of TLC.

## 6. Where the code and its own words disagree

1. `participation_stale_guard`: two transitions of one row that overlap both pass the
   guard; an accepted request is then rejected or a cancelled one accepted
   (`participation.service.ts:304` has no condition on the status).
2. `auth_refresh_expired`: the interceptor sends the expired token with the refresh call,
   the guard refuses it, and the replay announced in `auth.guard.ts:19-20` never happens.
3. `notification_bell_marks`: a mutation answered after the menu is closed only marks the
   list invalid; a notification pushed next clears that mark, and the menu reopened within a
   minute shows as unread what was marked read. `use-notifications.ts:103` says that both
   mutations refresh the list.
4. `home_map`: the gateway sends `coordinates`, `EventMapper.ts:28` reads
   `coordinates_lat` and `coordinates_lon`, and the map of the home page is always empty;
   `create-map-geoapify.md:9` says that it shows the events of the circle.

Others are known and listed among the hazards, with no run of their own: a place requested on a
slot that has become full or closed (create's comment asks that all checks pass, which only
a call that was overtaken breaks: `OnlyOvertakenCallsStray`); two topics that a user hears
in the order opposite to the one they were sent in; the page of a mission or slot that went
with its event, shown from the cache; an event shortened away from its slots; a message published on
a connection that is dead but still counted as open.

## 7. Not modelled, and why

Geocoding beyond its answers, e-mail, forms' fields, layout, translations and labels: no
state of their own. The bodies of messages and notifications: nothing depends on them. The
Java services beyond what the front and the gateway expect of them. The throttle of the
typing signal, which only others see. Milliseconds of dates. Settings, whose sections are
read and saved whole: two hazards, one module, in the plan. A second tab, which shares the
cookie but not the token, and requests that remember who sent them: in the plan. The age of
the membership answer in `findMembers`. The delivery pipeline, shell steps outside the
program.

## 8. Plan

Done: `Participation`, its lifecycle and events; `EventCatalog`; `AuthSession`; `EventChat`;
`NotificationBell`; `EventSearch` and `HomePage`; `EventScreens`; the proofs of section 5, which
cover every safety property of the runs.

Next, in this order:

1. An abstract specification of the bell or of the screens (a cache that a reader may find
   stale only while a refresh is under way), with the refinement proved.
2. `Settings`: a section cached whole, saved with `setQueryData` while a GET is on its way,
   and a form that keeps the values it was opened on.
3. A second tab in `AuthSession`; requests with an owner.
4. `MembersArea` with `EventChat`: the age of the membership answer.
