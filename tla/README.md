# A TLA+ development of the Ksat task board

This directory models the application in `src/`: the task transactions that `apps/api`
runs against PostgreSQL, the stores, caches and processes around them, and the parts of
`apps/web` that keep state. TLC checks the models on small instances, and TLAPS proves
most of their safety properties for every size: those of the task transactions, of board
access, of the files, of the other parts of the backend that keep state, and of the web
client. Paths below are relative to `src/`.

## 1. The system

`apps/web` (React, TanStack Query) talks HTTP to `apps/api` (Express, Prisma), which
keeps its state in PostgreSQL at READ COMMITTED, caches in Redis and stores attachment
bytes in S3. A worker process (`worker.ts`, BullMQ) deletes orphaned objects.
`packages/contracts` holds the Zod schemas that both sides parse.

| Component | State | Operations | Hard parts | What makes it correct |
|---|---|---|---|---|
| Task writes (`modules/tasks/tasks.repository.ts`, `tasks.service.ts`) | `task`, `task_dependency`, `board.nextTaskSequence`, `task_schedule`, `schedule_occurrence` | create, update (edit, move, archive, complete), delete, generate the next occurrence, `task-restore.ts` | several statements per transaction at READ COMMITTED, two kinds of row lock taken in both orders, optimistic versions, retry on P2034 | acyclic prerequisites, dense numbering, no lost edit, gate respected, one unforked series, an answer for every request |
| Cycle search (`wouldCreateCycle`) | stack and visited set of one call | search | arbitrary edge order, repeated pushes | right answer, termination |
| Recurrence (`recurrence.ts`) | none | floating time and back, `nextOccurrence` | clock changes, exhausted rules | every date once, later instants, bounded search |
| Lists (`filtersWhere`, `cursorWhere`, `lib/*ursor.ts`, the other repositories) | none | filter, sort, page | pages read while rows move | an untouched row appears once |
| Attachments (`modules/attachments`) | `attachment`, `object_cleanup`, S3 objects | upload, list, content, remove | two stores without a common transaction, size limit read before the insert | a row has its object, removed objects go, overrun bounded |
| Cleanup worker (`attachments.cleanup.ts`, `worker.ts`) | BullMQ jobs | start, sweep, process | retries, crash between two stores | completed means deleted, pending settles |
| Invitations (`modules/invitations`) | `board_invitation`, `board_membership` | create, revoke, preview, accept | serializable transactions with retries, expiry | one pending per address, none for a member, one membership per acceptance |
| Boards and list cache (`modules/boards`) | `board`, Redis page per user | create, update, list | read-fill racing write-invalidate | a stale page has a known cause and a TTL |
| Rate limiter, auth storage (`lib/rateLimiter.ts`, `auth/storage.ts`) | Redis, bounded memory | consume; get, set, delete, take, increment | Redis failing in the middle of a window | bounded bursts, no lock-out, nothing withdrawn comes back |
| Process (`server.ts`, `shutdown.ts`, `health.ts`, routes) | socket, pools, requests under way | start, probe, serve, stop | draining beside closing, timeouts, lazy Redis | every request ends, the process exits |
| Seeds (`seed.ts`, `seed-volume.ts`) | the tables, a plan | seed, reseed | crashes, reruns over users' rows, no API checks | sound rows, counter above them |
| Web task page (`useTaskMutations.ts`, `TaskBoardPage.tsx`, `TaskModal.tsx`) | query cache, snapshots, dialogs | optimistic edit, rollback, refetch, reload, create with files | overlapping mutations, stale versions, partial failure | converges to the server, no lost update, no duplicate |
| Web search (`useTaskBoardSearch.ts`, `taskBoard.ts`) | URL, field, debounce timer | type, filter, navigate, clear | timer against navigation | filters kept, field follows the URL, same filters as the server |
| Web repeat picker (`recurrenceRules.ts`, `RecurrenceField.tsx`, `CustomRecurrenceDialog.tsx`) | due date, rule | preset, custom, pause, move the date | month ends, fifth weekdays | the rule follows the date |
| Web board settings, members, attachments (`BoardEditPanel.tsx`, `RosterSection.tsx`, `AttachmentField.tsx`) | cached lists, forms | save, invite, cancel, upload, remove | refetches crossing saves | converge to the server |
| Web session (`AuthScreen.tsx`, `RequireSession.tsx`, `InvitationPage.tsx`, `UserMenu.tsx`, `AppShell.tsx`) | cookie, session store, cache | sign in, sign out, switch, accept | late answers of the previous person | nobody sees another person's cache |

Interactions: web → API by requests that carry the version the client was last shown;
API handlers → each other only through table rows and row locks; attachments → worker
through `object_cleanup` rows (`ObjectOutbox` is the interface both are held to);
invitations and boards → each other through memberships and the cache keys they
invalidate; seeds → API through the rows and the counter they leave; the client's own
filters and repeat rules → the server's, of which they must be copies.

`PROJECT.json` lists each component with its status, and the hazards of the code at
their lines, those that no property covers included.

## 2. Modules

| Module | What it is |
|---|---|
| `DependencyGraph` | the prerequisite graph as a set of pairs: reachability and acyclicity by closed sets (nothing recursive), and the rewriting of one task's edges |
| `CycleSearch` | `wouldCreateCycle` as a loop with a stack, over any edge order |
| `TaskBoard` | the task transactions on one board, statement by statement |
| `TaskLedger` | what the task API promises: each operation at one instant |
| `TaskBoardInvariant` | the inductive invariants, by named parts |
| `BoardAccess` | boards, memberships, invitations and the cached board list, as handlers over Postgres and Redis |
| `ObjectOutbox` | what the table `object_cleanup` promises of the object store |
| `Attachments` | upload, content and removal over S3 and Postgres; the worker appears as `ObjectOutbox!Clean` |
| `CleanupWorker` | the worker and its queue; the API appears as `ObjectOutbox!Enlist` |
| `OutboxWorker` | the worker alone, as an implementation of `ObjectOutbox` |
| `FileService` | both processes over one bucket and one table, each in place of what the other's module assumes |
| `RateLimiter`, `AuthStorage` | the two users of Redis that must live without it |
| `ApiServer` | the API process: start, the guards and calls of every route, readiness, shutdown |
| `TaskList`, `BoardPages` | the lists of the API page by page, and the client's own filters; a page is the first rows that follow the cursor, found by their order alone, with nothing sorted |
| `Recurrence` | wall-clock times, instants and series over a clock change |
| `RecurrenceRules` | the repeat picker of the task form |
| `TaskClient`, `CreateForm`, `BoardSearch` | the task page: cache and mutations, create dialog, search field |
| `BoardPanel`, `Roster`, `AttachmentPanel` | board settings, pending invitations, attachments of a task |
| `BrowserSession` | one tab while people sign in and out |
| `Seeds`, `VolumePlan` | both seeds on one board, and the planning loop of the second |
| `Services` | rate limiter, authentication storage, seeds and plan side by side, with their constants |
| `WebClient` | the parts of the web client, the lists, the series and the repeat picker side by side, with their constants |
| `MCTaskBoard`, `MCTaskAnswers`, `MCAccess`, `MCServices`, `MCClient` | inputs, start states and composition of the runs |
| `DependencyGraph_proofs` | graph facts |
| `TaskBoard_proofs`, `TaskBoardSafety_proofs`, `TaskBoardSeries_proofs` | theorems about the task transactions: types and locks; the safety properties and the refinement; series and gate |
| `BoardAccess_proofs`, `FileService_proofs`, `WebClient_proofs` | theorems about the module of that name and its parts |
| `Services_proofs` | theorems about the parts of `Services`, and about `CycleSearch` |

Operators whose comment starts with "Slip" are not the program. Each is a plausible
mistake in the definition after it, and each property of the runs is known to fail when
that definition makes the mistake.

### TaskBoard and the code

A handler of `Txn` is a request running one interactive Prisma transaction. `pc` names
its next statement; `req` is the parsed request, `seen` what the handler's local
variables hold, `held` its row locks, `tries` the attempt counter of
`retryOnWriteConflict`. The tables are `task`, `edges`, `nextSeq`, `series` and
`occurrences`; a row that does not exist yet has `seq` (or `start`) 0.

| Code | Actions |
|---|---|
| `createTask` / `createForMember` | `SubmitCreate`, `CheckCreate` (dependencies, gate), `TakeSequence` (board row), `CommitCreate` |
| `updateTask` / `updateForMember` | `SubmitUpdate`, `ReadExisting`, `ReadEdges`, `LockBoardGraph`, `CheckCycle`, `CheckGate`, `WriteTask` (the versioned `updateMany`), `GenerateNextOccurrence`, `CommitUpdate` |
| `deleteTask` / `deleteForMember` | `SubmitDelete`, `ReadVisible`, `Remove` |
| `task-restore.ts` | `Restore` |
| early returns, failed statements, timeouts, a crash of the API | `Answer`, `Abandon` |
| P2034 and `retryOnWriteConflict` | `BreakDeadlock`, `MayRetry` |

Writes become visible at commit, so the values a handler writes after its versioned
write are decided in earlier steps (`seen`) and applied together in `CommitUpdate`.
Within that step the schedule goes through the code's order: schedule input, archive,
generation (`EditedRow`, `CommittedRow`). The lock that a statement takes is taken in
the step of that statement, so lock orders are those of the code.

`wouldCreateCycle` appears in `TaskBoard` as the question it answers (`Reaches`).
`CycleSearch` has the loop itself, and the theorem `SearchIsCorrect` says that the two
agree; that is what joins the two modules.

Data that is left out: names, descriptions, priorities, assignees, wording. The
recurrence rule is the one that fires at every instant from its start to `Horizon`:
ended rules, early and late completions and rescheduling all occur with it, the
calendar does not. An instant and the due date made of it are the same number.

### The other modules and the code

| Module | State | What an action is | What is left out |
|---|---|---|---|
| `BoardAccess` | `version`, `role`, `invitation` are the tables, `cache` the Redis page of each user; `pc`, `req`, `seen`, `tries`, `targets` the handlers | one statement of a handler, from the route's request to the invalidation after the commit; `Begin` is the first read of a SERIALIZABLE transaction and `Serializable` its commit check, `Conflict` the retry on P2034 and P2002, `Owed` the invalidation a dead handler leaves undone | tokens, mail, names, previews |
| `Attachments` | rows, objects, `cleanup` rows; each handler's statement, key and sum | one await; a failing call may have had its effect; `Die` loses the request, `Toggle` is a deletion or restore of the task around it | file types, names, bytes |
| `CleanupWorker` | the process, `batch` of a query, `job` and `tries` of the queue | one await of the start, the sweep or a job; `Thrown` is BullMQ's retry or final failure, `Recover` its treatment of stalled jobs | backoff times |
| `RateLimiter` | Redis and memory buckets with seconds left, calls that fell back, an observer's window (`watch`) | one call of `consume`, its fall-back, one second | header values |
| `AuthStorage` | values at keys in Redis and in each process | one operation with Redis answering, failing, or failing after it worked; `Take` and `Taken` are the two halves of `getAndDelete` | expiry times |
| `ApiServer` | the process, its socket, Redis client and pools; `todo[c]` is what a request still has to do, read off its route | one guard or call of a request, a probe's dependency, a signal, one closing resource | bodies, problem details |
| `TaskList` | tasks, a query, the pages read so far | one page, its refusal, or another user's write between two | names are ranks, days count from the viewer's |
| `BoardPages` | the same for boards, members, invitations, attachments | the same | everything but order and filter |
| `Recurrence` | the rule's wall-clock times, the clock change, the series so far | one next run | the rule's syntax: a rule is the set of times rrule yields |
| `RecurrenceRules` | due date and rule of the form | one pick: date, preset, custom rule, pause | rule texts |
| `TaskClient` | `server`, `cache`, the refetch, mutations in `slots`, edit and delete dialogs | one callback of a mutation or query, one click, one answer of the server, another person's save | a task is its version, column and one note |
| `CreateForm` | the form's files, the submissions under way (`run`), each with what it began with | staging, submit, each answer, closing and opening | field values |
| `BoardSearch` | URL, history, field, timer, the captured updater, the skip flag | one keystroke, filter, navigation or timer, with the effects that follow it | labels |
| `BoardPanel`, `Roster`, `AttachmentPanel` | the server's rows, the cached list, forms and requests | one callback, click or answer, other people's writes | wording |
| `BrowserSession` | cookie, session store, path, cached owners, requests, one save of a task or a board | one answer, click or navigation | credentials |
| `Seeds` | tasks, edges, counter and account of one board; the seed's statement | one statement of a seed, a crash, a user's create or edit | texts |
| `VolumePlan` | the rows planned so far | one turn of the loop, every draw a choice | who, when and names |

History variables, where a property needs one, say so at their declaration: `touched`
(`TaskBoard`, lists), `raced`, `excused` (`BoardAccess`), `leaked`, `unanswered`
(`Attachments`), `watch`, `gone`, `since`, `seen` and `pages` (the web lists), `mixed`,
`halved`, `lost`, `overlapped`. None guards an action but as a bound (`tasks` in `CreateForm`, `watch` in
`RateLimiter`).

### Assumptions about what is around the code

- PostgreSQL at READ COMMITTED: a statement sees what is committed when it starts;
  `updateMany` is one `UPDATE` whose predicate is evaluated again under the row lock;
  row locks last until the transaction ends; a rollback leaves nothing; waiters of a
  lock are served and a cycle of waiters is broken by aborting one of them. At
  SERIALIZABLE a transaction whose reads have changed aborts.
- Prisma fetches the relations of a row by separate statements, so the task row and its
  edges are two reads (`ReadExisting`, `ReadEdges`).
- A client names a version that the server once showed, the current one or an older one.
- Memberships are never removed (no code does), so the membership predicates of a
  transaction agree; a caller who is refused is a case of `Abandon`.
- Redis and S3 calls either answer, or fail before or after their effect. Redis runs a
  script at once and drops a key at its TTL. An ioredis client connects on its first
  command and may lose and regain its connection.
- BullMQ keeps a job under its id until it is removed, retries up to `attempts`, and
  hands stalled jobs to the next worker once. TanStack Query runs one fetch of a query at
  a time, `cancelQueries` drops its answer, `invalidateQueries` starts a new one.
- Prisma fetches no enum by `lt`: its filters of an enum are equality and membership, and
  anything else is rejected when the query runs.
- rrule yields at most one wall-clock time a day in increasing order; a browser runs the
  effects of a render before the next event.

Two reads of `TaskBoard` are merged where the merge hides nothing: the existence check
with the read before it (rows never disappear), and the creation's gate with its
existence check.

## 3. Properties and runs

Every run terminates with the full state space. Bounds are named in the modules and
configurations: `MaxVersion` (no request names a row that has reached it), `Horizon` (time
and the end of each rule), `MaxTries`, `MaxEdits`, `MaxCrashes` and the like, and the
request sets. Deadlock is checked in `Access`, whose
handlers and clocks never stop. It is not in the others: with all identifiers used, versions
at their bound, the clock at the horizon, the last page read, the process exited or
the plan written, the model rightly stops; that nothing gets stuck before is stated by
the liveness properties. Symmetry is used in safety runs only, over identifiers that no
definition orders.

**Parts.** Components that share no state are checked by one run: `MCAccess`,
`MCServices` and `MCClient` have a variable `part` that the initial state chooses and no
step changes; the part in play takes its own steps and the others rest where their
fairness asks for nothing. So each part is explored exactly as it would be alone, and its
properties are those of its module. `MCAccess` extends `FileService`, `MCServices` extends
`Services` and `MCClient` extends `WebClient`, so what a run checks is what the theorems
speak of, at the constants of its configuration. The board page takes two of the twelve
parts of `MCClient`: `page` is one task on two columns with both dialogs, whose note another
person may rewrite (`OthersWrite`), and `filtered` (the instance `Filtered`) is two tasks
that everybody drags between a column in view and one that the filters hide (`DraggedOnly`).

What the components share is composed for real: `BoardAccess` has boards, invitations,
memberships and the cache in one state; `Attachments` and `CleanupWorker` each run against
the other side as `ObjectOutbox` describes it, `ImplementsOutbox` shows that the worker
keeps to it, and `FileService` puts both together in the proofs. In `Access` the worker of
`FileService` rests and the outbox stands for it.

The inductive invariants of the proofs in `BoardAccess_proofs`, `FileService_proofs`,
`Services_proofs` and `WebClient_proofs` imply the properties of these runs. `TaskRaces`
checks `FullInv` itself, the invariant of the task transactions.

| Run | Properties | What it shows, and why the bound is enough |
|---|---|---|
| `TaskGraph` | `DependencyGraphAcyclic`, `DecisionsStillCurrent`, `SequenceDense`, `ImplementsLedger` | 3 tasks, 2 handlers. Two half-cycles need two tasks and two handlers; a third task lets cycles and numbering interleave with creation |
| `TaskRaces` | `RecurringTaskHasDueDate`, `ArchivedSeriesPaused`, `FullInv`, `GateHonoured`, `CommitsAreOperations` | 2 handlers from three boards that earlier requests built (`RacingInit`): a recurring task and an open, settled or removed prerequisite, each edited once, so that stale and current versions exist. Each request does one thing (`Focused`), versions up to 3: every pair of operations overlaps |
| `TaskSeries` | `CurrentIsLatest`, `OccurrencesUnique` | 3 tasks, 2 schedule rows, horizon 3, versions up to 4: two generations, early and late, reopened and completed again, re-anchored, removed and re-attached. One handler: the order of requests is the question here, their overlap is that of `TaskRaces` |
| `TaskAnswers` | `TypeOK`, `RequestsAnswered` | a completion locks task then board, an added prerequisite board then task; the deadlock is reached, broken, retried and exhausted (`MaxTries` 2 for the code's 5) |
| `Access` | `OnePending`, `NoPendingForMember`, `MembershipGranted`, `RevokedStaysRevoked`, `StalePageExplained` | 2 users, 2 invitations, 2 handlers: two invitations to one address race with a revocation and an acceptance; a listing spans an edit; a user joins and lists her boards between the reads of an edit and its commit |
| | `ListedHasContent`, `NothingForgotten`, `OverrunBounded` | 3 keys, 2 handlers, files of the size of the limit: two uploads overlap while a third is removed |
| `Services` | `BurstBounded`, `NoLockout` | 2 keys for one bucket of memory, limit 1, window 2: eviction, sweep, a window half in Redis and half in memory |
| | `WithdrawnStaysAway` | 2 processes, a session key and a rate-limit key, 3 values |
| | `ImplementsOutbox`, `CleanupSettles` | 2 objects against a batch of one, 2 attempts, one crash |
| | `EveryRequestEnds`, `ExitsAfterSignal` | one connection on every route, with signals, a lost Redis and hanging dependencies |
| | `AnswerDecidesAcyclicity`, `SearchEnds` | every acyclic graph of 4 tasks, every set of added prerequisites, every order: paths of length 3 and shared suffixes occur |
| | `SeededBoardSound` | 2 planned rows, 3 rows of users, any sequence of runs, crashes and edits, the counter set back below users' rows included; plans of 3 tasks with a window of 2 |
| `Client` | `ScreenReconciled`, `NoLostUpdate` | 2 mutations, a refetch, both dialogs and another person on one task; two tasks on a filtered page; 2 invitations; 2 files with a page of one; 4 saves of a board |
| | `CreatedOnce` | 2 files, each of which may fail, and 2 submissions, of one content or of two, in one dialog or in two |
| | `FiltersKept` | 3 texts, one with a space to trim, 2 filter settings, history of 3 |
| | `ListedExactlyOnce`, `ClientMirrorsServer` | 3 rows with equal keys and missing dates, pages of 1 with 2 writes between them, and of 2 with one (`FewArchived`, `PagesOfTwo`); every filter at its boundary |
| | `EveryDateOnce` | 3 days of 6 slots, the clock going 2 forth, back or not at all, every rule of one time a day; the next run is later for every instant and guess |
| | `RuleFollowsDate` | every frequency and end, and 6 dates: a month's end, a leap day, a fourth, fifth and last weekday |
| | `SessionFollowed` | 2 people, the links, an invitation, a save of a task or a board that outlives its reader |

`GateHonoured` is worth reading twice. The gate of the code does not lock prerequisites,
so a dependent can be committed In Progress over a prerequisite that was reopened in
between. The property says that this is the only way: a blocking prerequisite at the
commit was changed by another commit after the handler had passed its gate.

Several properties name the exceptions the code has, so that everything else is excluded:

- `ListedHasContent`: an insert that commits without an answer is compensated by deleting
  the object of a live row. `NothingForgotten`: a death or a failed compensation leaks an
  object, and no sweep looks for it. `OverrunBounded`: `docs/architecture.md:395` says
  50 MiB per task; racing uploads pass it by a file each.
- `StalePageExplained`: a stale page is one whose invalidation is owed or lost, or that a
  listing stored after the commit it had not seen, or that a user stored who joined after
  an edit had read the members to tell and before it committed (`boards.repository.ts:110`).
- `CleanupSettles`: a job that used up its attempts keeps its id, and a sweep that such
  rows fill may pass over the others.
- `ExitsAfterSignal`: a Redis client that was connected by a late request, or refused to
  quit while lost, keeps the process alive.
- `CreatedOnce`: a creation whose answer was lost can be submitted twice, and so can one
  under way, by Ctrl+Enter, which does not ask whether the dialog is busy
  (`TaskModal.tsx:276`). The edit dialog has the same key: `TaskClient` leaves a second
  save of one dialog out, which `NoLostUpdate` does not depend on, as such a save carries
  the same version as the first.
- `ClientMirrorsServer`: an archived task under a status filter, and the blocking filter.
- `ListedExactlyOnce`: a list of attachments whose cursor row was removed ends there. A list
  of tasks by priority ends with its first page (`PageRefused`), so of that sort it says only
  that this page is in order.
- `EveryDateOnce`: a wall-clock time that the change skips and that moves across midnight
  takes another date (`LeavesItsDay`), whatever `docs/architecture.md:361` says of dates
  that remain stable; only a change around midnight can do it.
- `ScreenReconciled`: an attachment list read that crossed the closing of the dialog.
- `SessionFollowed`: data is kept by a lost answer to a sign-in, and put back into a cleared
  cache by a save that began before: a failed one of a task restores its snapshot
  (`useTaskMutations.ts:181`), a successful one of a board caches its answer
  (`BoardEditPanel.tsx:69`, `CreateBoardDialog.tsx:82`). Two links lead to the list of
  boards: one to the settings page, which is not among the destinations
  `AuthScreen.tsx:20` keeps, and the header's `Log in`, which names none
  (`AppShell.tsx:57`), so that it loses an invitation.
- `SeededBoardSound`: a user whom a crash left without credential, a row whose number
  a task of a user had taken, and the counter, which a rerun of the demo seed sets back
  below the numbers of users' tasks: the comment at `seed.ts:497` speaks of the demo rows
  only, and only of them does it hold. The next creation then violates the unique key and
  rolls back, and so does every one after it.

### Disagreements with what the repository says

Each is a run that TLC finishes with a counterexample.

- `StaleDelete` / `StaleRemovalNeverWins`: `packages/contracts/src/tasks.ts:207` says a
  stale removal cannot win. `deleteForMember` reads the version and then updates by id
  alone, so an edit that commits between the two statements is removed unseen.
- `BlockingFilter` / `BlockingFilterApplies`: `README.md:212` lists `blocking` among the
  query parameters. `routes.ts:105-123` rebuilds the parsed query without it.
- `SearchField` / `SearchFollowsUrl`: `useTaskBoardSearch.ts:114` says the field follows
  back, forward and cleared filters. Clearing while the search is empty leaves the skip
  flag set, and the next step back to a search leaves the field empty.
- `PriorityPages` / `NextPageAnswered`: `README.md:211-212` documents pages and the sort
  `PRIORITY`. The clause of its second page compares an enum by `lt`
  (`tasks.repository.ts:219`), which Prisma rejects, so the page ends in an error. The
  tests page by two other sorts.
- `SeededSchedule` / `PlannedRecurringHasDueDate`: `docs/architecture.md:357` says a
  recurring task must have a due date. The volume plan attaches schedules to undated tasks.

### Fairness

`TaskAnswers`: strong fairness of a handler's next statement stands for PostgreSQL
serving the waiters of a lock in turn: a handler that is enabled again and again, because
the lock is released again and again, gets it. Weak fairness of `BreakDeadlock` is the
deadlock detector. `OutOfIds` belongs to the model, not to the code: a handler that needs
an identifier when the model has none left is abandoned. Nothing is assumed of clients,
of the clock or of `Abandon` otherwise.

`Services`: the clock ticks (`RateLimiter`); the worker's process is restarted, its timer
fires, calls to the store end, and the queue takes waiting jobs in turn, hence strong
fairness of `Take` (`CleanupWorker`); a step of a request, a probe's timers, the end of
closing once nothing is open, the shutdown timer and the exit happen (`ApiServer`), while
a client need not send, and a dependency need neither answer nor close; the loop of the search goes on
(`CycleSearch`). No fairness is assumed of failures or of their absence.

The other runs check safety only: what a web client shows after a last answer depends on
the network, so `ScreenReconciled` speaks of pages at rest instead of pages to come.

## 4. Theorems

Constants are assumed to satisfy the `ASSUME`s of the modules, which the runs evaluate;
the sets of tasks, schedules, handlers, users, invitations, objects, keys, columns and
files may be of any size, infinite ones included. The assumptions:

- `ConstantsAssumption` (`TaskBoard`): the board is not a task, NULL is no identifier,
  bounds are natural numbers, requests come from the contract's sets.
- `OwnerAssumption` (`BoardAccess`): the owner is a user, requests name known roles, and a
  transaction is tried at least once.
- `FileAssumption`: the limits of a file and of a task's files are natural numbers, and
  there are finitely many handlers, at least one.
- `ServicesAssumption`: limits and sizes are natural numbers, and users' rows are not
  those a seed plans.
- `ClientAssumption`: filters show some of the columns; there is a name and a description;
  trimming a text gives one that may be searched; a page has at least one row; null and the
  marks for a missing date or filter are no values of the fields they stand for.
- `ClockAssumption`: a day has at least one slot, the clock changes by less than a day, and
  `MAX_ATTEMPTS` passes of `nextAfter` reach over what a change repeats.
- `CalendarAssumption`: the dates of the form are days of the calendar 2027 to 2099, for
  which `Leap` is right; the mark for a missing part is no date, number or set of weekdays.

| Theorem | Statement |
|---|---|
| `Inductive`, `TypeCorrect`, `FullInductive` | `Spec => []IInv`, `[]TypeOK`, `[]FullInv` |
| `GraphStaysAcyclic`, `NumbersDense`, `WinnersAreCurrent` | `Spec => []DependencyGraphAcyclic`, `[]SequenceDense`, `[]DecisionsStillCurrent` |
| `RecurringTasksKeepDueDate`, `ArchivingPauses`, `SeriesNeverFork`, `OccurrencesNeverRepeat` | `Spec => []RecurringTaskHasDueDate`, `[]ArchivedSeriesPaused`, `[]CurrentIsLatest`, `[]OccurrencesUnique` |
| `GateAlwaysHonoured` | `Spec => GateHonoured`, an action property |
| `BoardImplementsLedger`, `CommitsAreAtomic` | `Spec => ImplementsLedger`; `IInv /\ [][Next]_vars => CommitsAreOperations`, from every board that the invariant allows |
| `NextOccurrenceIsNext` | the next occurrence is the earliest instant after the anchor |
| `AddPrerequisitesAcyclic`, `AddPrerequisitesCycle` | when new prerequisites keep a graph acyclic, and when they do not |
| `SearchIsCorrect`, `AnswerDecides` | the cycle search answers reachability, hence acyclicity |
| `AccessInductive`, `OneInvitationPending`, `MembersAreNotInvited`, `MembershipsAreGranted`, `StalePagesExplained`, `RevokedIsFinal` | the invariant of `BoardAccess`, and `OnePending`, `NoPendingForMember`, `MembershipGranted`, `StalePageExplained`, `RevokedStaysRevoked` |
| `ContentStays`, `LeaksExplained` | `Files!Spec => []ListedHasContent`, `[]NothingForgotten` |
| `WorkerImplementsOutbox` | the worker's steps are those of `ObjectOutbox`: `ImplementsOutbox` |
| `OverrunAlwaysBounded` | `Files!Spec => []OverrunBounded` |
| `TogetherAsAssumed`, `FilesAccountedFor` | the API beside the real worker is a behaviour of `Attachments`; with both, the three properties hold and completed objects stay away |
| `BurstAlwaysBounded`, `WithdrawnNeverRead` | `Limiter!Spec => []BurstBounded`, `Storage!Spec => []WithdrawnStaysAway` |
| `PlanAlwaysObeysApi`, `SeededBoardAlwaysSound` | the plan of the volume seed keeps to the API's rules; both seeds: `[]SeededBoardSound` |
| `ScreensReconcile`, `UpdatesNeverLost` | `Page!Spec /\ Members!Spec /\ Files!Spec => []ScreenReconciled`, `Page!Spec /\ Panel!Spec => NoLostUpdate` |
| `ContentCreatedOnce`, `FiltersSurviveSearch`, `SessionAlwaysFollowed`, `FilterTestsAgree` | `[]CreatedOnce`, `FiltersKept`, `[]SessionFollowed`, `[]ClientMirrorsServer` of the parts of `WebClient` |
| `PagesListOnce` | `[]ListedExactlyOnce`, from the initial states of both list modules and from any rows, filters and sort (`AnyTasks`, `AnyRows`) |
| `SeriesHasEveryDateOnce` | `Series!Spec => []EveryDateOnce`, and the next run is later for every instant that there is (`ResumesLater`) |
| `RulesFollowDates` | `Picker!Spec => RuleFollowsDate`, an action property |

Each action is shown to preserve each part of the invariant, first for the acting handler
and then for the others. None of the properties is inductive by itself; what each needs
beside it is the substance of its proof.

### The task board

The properties speak of committed tables, and what protects them is what a transaction
under way may still rely on. `IInv` adds:

- `LocksExclusive`: a row lock has one owner.
- `TargetInv`, `DepsInv`: rows and versions that were named exist for good.
- `ReadInv`: as long as the version that was read is the current one, so are the status
  and the edges that were read. Every commit that changes them counts the version up.
- `OwnInv`: from the versioned write to the commit the row is locked and its version is
  the requested one; with `ReadInv` this is `DecisionsStillCurrent`.
- `BoardInv`, `ReserveInv`: a drawn number is still the next one because the board row
  is locked until it is used; this is `SequenceDense`.
- `ReachInv`: after the cycle check nobody else's commit can make the task reachable,
  since edges are only added under the board lock, or leave a task that did not exist;
  removals only help. With `AddPrerequisitesAcyclic` this is acyclicity.
- `RecurInv`: a successor is decided only by a completion whose schedule stays attached.

The refinement maps the tables to themselves; all steps but the commits, `Remove` and
`Restore` stutter. That uses `IInv` only, so it holds on any board in order, with
transactions under way (`CommitsAreAtomic`), not just from the empty one.

`FullInv` adds `SeriesInv`, about schedules. No code takes a lock on a schedule row: what
keeps a series in order is the row lock on the task it is attached to.

- `HistoryInv`: schedules and occurrences belong to tasks that exist, and an unused
  schedule row has no history.
- `RequestInv`: what the contract refuses never gets to a transaction.
- `DueInv`: a request that clears the due date has seen that there is no schedule, and
  that stays true as long as the version it read is current, since whoever attaches a
  schedule edits the task. This is `RecurringTaskHasDueDate`.
- `FreshInv`: the instant decided for a successor is later than everything its series has
  generated, and stays so until the commit; hence `OccurrencesUnique` and, as the
  schedule moves to the successor in the same commit, `CurrentIsLatest`.
- `GateInv`: past the gate, an open prerequisite is one that was opened since.

### Board access

`AccessInv` is the type invariant and four properties of the tables and the cache, with
what they rest on: a board has its owner from the start, and no invitation before it
exists (`Founded`); a handler edits and invites on a board, accepts for its own address and
owes no invalidation but when one is ahead, and an edit about to commit tells all the members
it has read (`HandlerInv`); a listing under whose
statements nothing changed has read the page of now (`ListingInv`). A SERIALIZABLE
transaction commits on rows that are as it read them, which makes its decision one about
the tables at the commit: the rest is that each decision keeps the tables' properties
together, since an invitation is created where none is pending and for no member, and an
acceptance ends the invitation and founds the membership at once.

### Files

`FilesInv` adds to the two properties that keys are generated fresh and so belong to one
upload (`KeysExclusive`), that an upload before its insert has its object and neither a
row nor an outbox entry (`UploadsOwnTheirObject`), and that a key is enlisted only by the
removal of its row (`EnlistedHaveNoRow`); the last is why the worker, which may take any
enlisted object at any moment, never takes the content of a row. For the worker,
`JobsOnPendingRows` says that an active job's row is pending and that a job past its
deletion finds no object; since the queue runs one job per id and nobody completes a row
but its job, it survives retries and crashes. `JointInv` is both together: each process is
shown to keep what the other's module assumed, which closes the circle of the two modules.

`OverrunBounded` is about a sum over a set of rows. `TotalOf` counts it as the cardinality
of the set of all their bytes, so that facts about finite sets stand in for an induction
(`BytesOfOne`: a file's bytes are as many as its size). `LimitInv` adds `RoomForReady`: among
the uploads that have read a sum with room for them and not inserted yet, there is one
whose file fits beside the total and a largest file for each of the others, within the
limit and a file for each handler but one. The last upload to read its sum is such a one;
an insert turns an allowance into bytes, and everything else only makes room.

### The other backend parts

- `LimiterInv`: what the watched window has let through is at most what the buckets still
  count plus what each store may yet let through, where a store's bucket either ends
  within the window or outlives it (`FromRedis`, `FromMemory`), plus a limit per eviction.
- `SessionsInRedis`: no process keeps a session value in memory, a value has one key, and
  values are numbered as they are written, so a withdrawn one has no place to come from.
- `SeedInv`: the rows written so far are those the statement the seed is at implies
  (`RunInv`), and the rest are users' (`RowsInv`), whose numbers nothing bounds by the counter
  after the demo seed.
- `PlanInv`: a prerequisite is an earlier task, so with an order on tasks there is no cycle;
  only open live tasks have one, or repeat.
- `SearchInv` (of `CycleSearch`): what is visited is reachable, and what the visited tasks
  need is visited or pending; when nothing is pending, the visited set is closed.

### The web client

- `PageInv` (`UpdatesNeverLost`): everything the page may send a version from (cache,
  refetched list, snapshots, form, reloads) is *genuine*: not newer than the saved
  row, and with its note if it is of the same version. A snapshot that is rolled back stays
  genuine however old it is, because the server only moves on (`Later`). The dialog waits
  for the one save it has under way (`DialogWaits`). `PanelInv` is the same for a board.
- `ScreenInv`, `RosterInv`, `AttachedInv` (`ScreensReconcile`): a list that was read is
  from after the last success whose invalidation it answers, and so is one that is shown
  while nothing is under way and the last refetch succeeded.
- `OneReader`, `RouteInv` (`SessionAlwaysFollowed`): there is one person for whom all was
  read that is cached, on its way or held by a save, but a save from before the cache was
  cleared (`ReadFor`), unless a sign-in has succeeded that the tab has not heard of, or one
  of the exceptions has happened; and the destination survives the detours over the
  sign-in screen.
- `CreateInv`: content that has become a task or stored a file has a submission past its
  creation, a lost answer or an overlap in its past; without an overlap it has at most one
  submission. So that one's end is what leads from there to other content, and submissions
  of earlier content or of closed dialogs count for nothing.
- `SearchInv` (of `BoardSearch`): URLs in the history are records with a filter, so a
  change of filter pushes an entry. `ListInv`: the types of rows and
  queries, on which the two filter tests are compared case by case; `FilterTestsAgree`
  starts from any of them.
- `ReadSoFar` (`PagesListOnce`): of the rows nobody wrote, those that match and are not
  after the cursor have been read, once and in order, and no other. It is stated for an
  order given as a set of pairs and used for both modules. A page moves its rows to the
  side that was read (`PageAppends`, from `FirstOf` alone); a write keeps the sides of
  the others because what is after a row after the cursor is itself after the cursor
  (`Upward`, `WritesKeepPlace`), wherever the row under the cursor went. An attachment's
  cursor is looked up in the table, so there the invariant needs `PlaceKnown`.
- `SeriesInv` (`SeriesHasEveryDateOnce`): the due dates are those of the times up to the
  instant the series has reached, in order (`Dated`, `Done`). The change of the clock is less
  than a day and times are a day apart, so a time and its reading after a wrong guess
  lie on the same side of the next one. From an instant that the series has reached the
  first pass of `nextAfter` settles (`FirstPassSettles`); from any other the passes outlast
  what the clock repeats (`PassSettles`).
- `PickerInv` (`RulesFollowDates`): with a schedule there is a due date, and its rule has a
  frequency and days that the editor reads. `RuleMoves` goes through the frequencies: what
  `RetargetRule` writes, that it belongs to the series of the new date (a fifth weekday of
  a month is its last), and that the editor reads it back as it was written; and since no
  two presets are the same rule (`PresetsDiffer`), the one preset that matched before is
  the one that matches after.

## 5. Model-checked only, and not modelled

Every safety invariant, action property and refinement that a run checks is also a
theorem. Only TLC checks the liveness properties `RequestsAnswered`, `SearchEnds`,
`CleanupSettles`, `NoLockout`, `EveryRequestEnds` and `ExitsAfterSignal`: progress under
fairness needs ENABLED, which is out of the prover's reach. What `ApiServer` promises is of
this kind only, so it has no theorem.

Not modelled:

- Parsing, problem details, `openapi.ts`, environment and mail: stateless, or pure I/O.
- Better Auth, BullMQ, rrule, Prisma and TanStack Query themselves: libraries, modelled as
  far as this code relies on them.
- Rendering, focus, menus, labels and notices. One race of notices is known: an error is
  overwritten by another move's success (`Toast.tsx`).
- The paged list of boards, the focus of the board creation dialog and the reading of all
  members: no state beyond what the other pages show; `useBoardMembers.ts:40` is listed as a hazard.
- The dependency picker: requests of `TaskBoard` name any set of prerequisites, but the
  round trip that drops an edge to a hidden, soft-deleted task is only listed as a hazard.
- The seeds' random data (members, profiles, names, the sizes of the boards), and the one
  schedule of the demo.

## 6. Plan

1. **Done.** Task transactions, dependency graph, cycle search, abstract ledger; safety
   proofs and refinement.
2. **Done.** Attachments, worker and outbox; boards, invitations and cache; rate limiter,
   authentication storage, process; lists; recurrence; the web client; the seeds.
3. **Done.** Proofs of the series invariants and the gate, of `BoardAccess`, of the two
   processes over the files, of rate limiter, authentication storage, seeds and plan, of
   the lists, the recurrence and the repeat picker, and of the web client.
4. **Next proofs**: safety lemmas under the liveness properties of `ApiServer` (what may
   still be open when the process exits); the client's steps as operations of an
   abstract optimistic cache.
