# Vulpes backend: verification project

TLA+ models of the Vulpes backend (NestJS, Prisma 7, PostgreSQL, Redis), the TLC
runs that check them on small instances, and proofs, checked by TLAPS, that the
most important properties hold for every value of the constants.

Contents: 1 inventory, 2 how the models read the code, 3 modules, 4 runs,
5 disagreements found, 6 proofs, 7 what is not modelled, 8 plan.

## 1. Inventory

The backend serves HTTP requests. A request is a handler that awaits: a query, a
transaction, a hash, a mail. Between two awaits every other request may run, and
several processes of the server may share the database. State lives in
PostgreSQL (every table of `prisma/schema.prisma`) and in Redis (the nonces of
the encrypted bodies); the process keeps none. No handler locks anything: only
the unique keys and foreign keys of the schema and the `$transaction`s, at READ
COMMITTED, stand between two requests.

| component | state | operations | interacts with | what makes it correct |
|---|---|---|---|---|
| Auth, guards | `User` | signup, login, JwtStrategy, RolesGuard, authorization helpers | every route | one account per address; rights at the time of the guard |
| Users | `User` | change of email by a link, status, deactivation, change of password, listing | Audit, Emailer | addresses unique; the trail tells the changes |
| Reset password | `ResetPasswordOrder`, `User.password` | request, verify, confirm | Emailer, Users | an order works until it was used, and once |
| Professor permission | `ProfessorPermissionRequest`, `User.role` | create, respond | Storage, Emailer, Audit | a promotion happens and is recorded once |
| Class | `Class` | create (with a drawn code), update, delete, by code, by pages | cascades to all below | only managers write; a code leads to one class |
| Class students | `ClassStudent` | create, delete | Class, Audit, requests | the trail replays to the roster |
| Permission requests | `StudentClassPermissionRequest` | create, approve, reject, cancel | Class, Class students, Audit | only the student or a manager ends a request |
| Tasks | `Task` and its params and tests | create, update with `syncTaskClasses`, delete (soft or hard) | Class tasks, Submissions, Audit | history of submissions survives; links as wanted |
| Class tasks | `ClassTask` | create, delete, `createMany` | Tasks, Class, Lists | linked by managers; private tasks stay private |
| Lists | `List` | create with tasks, update, delete | Class tasks, Class task lists | its entries are the wanted tasks |
| Class task lists | `ClassTaskList` | create, delete | Lists, Class tasks | an entry stays within one class |
| Submissions | `Submission` | create (limit of the list), feedback | Lists, Tasks, Audit | limit; references exist |
| Audit | `AuditEvent` | record, in the transaction of the caller | all of the above | the trail equals what happened |
| Encrypted body | Redis keys `enc:nonce:*` | open an envelope, claim its nonce | Redis, the password routes | an envelope is opened once while its nonce lives, which it does a bounded number of times |
| Dashboards | none | the figures of a list and of a task, in two or three reads | Lists, Class tasks, Class students, Submissions | figures agree with the rows and with each other |
| Bug reports | `BugReport` | create with screenshots, update | Storage | a report shows the files of its request |
| Storage | files by URL, outside of the database | uploadFile | Bug reports, Professor permission | no file without a row but by an error |
| Pagination | none | skip, take, totalPages | every listing | no row that stays is skipped |
| My tasks, catalogues, other listings | none | reads | | what is shown to whom |
| Institutions, Emailer, HTTP shell | none | reads, I/O | | |

Hard behaviours: check-then-act over several awaits (membership then request,
count then insert, address then insert, rights then write); cascades that delete
rows under a call in flight; handlers that write in several statements without a
transaction (list creation, `syncTaskClasses`, reset confirmation) and may stop
half way; uploads of one request that end in any order and outlive its failure;
a page and its total read by two statements; the `before` of an audit event read
outside its transaction; tables without unique keys; resent, slow and lost claims of
a nonce, and a Redis that comes back empty. `PROJECT.json` lists each hazard at its line.

## 2. How the models read the code

* **One step per statement.** A single Prisma statement is a step, and so is an
  `audit.transaction` whose statements do not depend on a read another
  transaction could overtake: unique keys, foreign keys and row locks make it
  commit as a whole or not at all. The one transaction that decides by a read of
  its own, `respond`, is two steps, with the row lock of its first UPDATE
  (`AuditedUpdates!RowFree`).
* **A call is a record in a slot.** `call[k]` holds what the handler has in its
  local variables and the await it is at. The number of slots is the number of
  requests served at the same time. Every operation a slot can begin may begin
  in any state, with any of the inputs its DTO lets through.
* **Every call may fail** at every await (`Fail`, `RefuseWrite`): the connection,
  the mail, the process. What was committed stays. A crash is the failure of all
  calls at once, which leaves the same states.
* **Rows are members of small sets.** A uuid is never drawn twice. Texts, names,
  dates and hashes are left out, or are model values where a property compares
  them (passwords, addresses, comments).
* **Fairness only where an answer is awaited.** `EncryptedBody!FairSpec` and
  `Uploads!FairSpec` ask for weak fairness, slot by slot, of a handler that can run
  on (`GoOn`): Node runs what is ready, a statement or a command ends or breaks
  off, and both models count the breaking off as going on. `Uploads` asks it also
  of storage, which answers or refuses every upload (`EndUploadOf`). No fairness
  makes Redis answer rather than lose the answer, and none makes a call fail. The
  other specifications state no fairness: no handler there waits, retries or polls,
  and all their properties are safety properties.

## 3. Modules

| module | models | state | actions |
|---|---|---|---|
| `Roster` | abstract: what classes, memberships, requests and their trail promise | `status, members, pending, audit` | Open, Join, Leave, Ask, Withdraw, Close, one per committed change |
| `Enrollment` | `class`, `class-student`, `student-class-permission-request` | Roster's and `call` | Begin, LoadClass, CheckMember, CheckRequest, one Write per operation, RefuseWrite, Fail |
| `Submissions` | `submission.service.ts` create, task deletion, limits, cascades | `task, rows, limit, subs, trail, submit, deletion` | ReadEntry, CountSubmissions, Insert; ReadTask, CountTaskSubmissions, SoftDelete, HardDelete; RemoveRow, SetLimit |
| `Coursework` | tasks, links, lists and entries: creation, `syncTaskClasses`, removal | `open, task, flags, published, links, lists, entries, call` | one per statement of the eight operations; DeleteClass, DeleteTask from outside |
| `ResetPassword` | reset orders and changePassword | `password, owner, orders, mailed, known, sets, spent, call` | one per statement; VerifyLink |
| `AuditedUpdates` | the updates with `changedFields`: email, status, deactivation, role, feedback, flags | `value, trail, links, call` | Guard, FindEmail, Read, FindPromoted, Write, AskPermission |
| `SingleUse` | abstract: a token that is good once in each of a bounded number of lives | `spent, lives, uses` | Use, Waste, Expire, Forget |
| `EncryptedBody` | the window and the nonce of an envelope; Redis | `now, stamp, key, copy, opened, losses, lives` | Arrive, Claim, LoseAnswer, Unavailable, Open, Refuse; LoseKeys and Tick from outside |
| `Uploads` | bug reports and requests for promotion with their files; storage | `stored, flying, reports, asked, call, left` | BeginReport, BeginAsk, Land, Break, Validate, InsertReport, InsertAsk, UpdateReport, Fail |
| `ClassDirectory` | creation of a class with its code; the pages of the classes | `rows, born, told, call, reader` | BeginCreate, DrawCode, FindCode, Insert, Fail; DeleteClass; BeginWalk, ReadRows, ReadTotal |
| `Dashboards` | both `getDashboardData`: columns, rows and figures | `open, members, rows, subs, moves, call, answer, past` | Load, ReadColumns, FindLink, ReadMembers, ReadSubmissions; the other requests from outside |

Two abstract specifications say what a component promises, and the detailed ones
implement them, as a PROPERTY of a run and as a theorem:

* `Enrollment` EXTENDS `Roster` and implements it. The refinement mapping is the
  identity on the rows and the trail; a call in flight is a stutter, and each `Write`
  is the `Roster` action that the code's authorization must justify: `Join` asks for a
  manager, which `WriteApprove` has only because the class was read, and the rights
  checked, awaits before.
* `EncryptedBody` implements `SingleUse`, the token a nonce makes of an envelope:
  `Envelope == INSTANCE SingleUse WITH` the envelopes for tokens, those whose key is in
  Redis for the spent ones (`Spent`), and those opened or about to be for the uses
  (`Uses`). A claim that wins is a `Use`, a claim whose answer is lost a `Waste`, a tick
  that ends keys an `Expire`, a Redis that comes back empty a `Forget`. The nonce does not
  make an envelope good for one use: it lives for TTL from its claim, while the window
  reaches TTL to both sides of a timestamp that the client sets, and no time limit holds
  for the claim. What the two numbers do give, for every such client, is a bound on the
  lives of an envelope, `MaxLives == 1 + (2 * TTL + MaxDelay) \div (TTL + 1)`, and one use
  or waste in each: 2 if claims are made at once, 3 if they take up to TTL.

`Coursework` takes the deletion of a class and of a task as one step each, since
`Enrollment` and `Submissions` have the awaits of these two.

History variables (named so in the modules) record what no column holds:
`Coursework!published` and the field `ok` of a linkTask call (whether the catalogue
offered the task), `ResetPassword!sets` and `spent`, `EncryptedBody!opened`,
`losses` and `lives`, `Dashboards!past`, `Uploads!left` (the URLs of calls that ended with an
error), `ClassDirectory!told` and the fields `had` and `lost` of its reader, and the
fields `seen`, `began` and `missed` (the columns a call has read that have changed
since) of a call.

`MCEnrollment`, `MCSubmissions`, `MCCoursework`, `MCAuditedUpdates` and
`MCDashboards` give the functions among the constants their values and name the
symmetries. Operators named after a definition with a suffix and the comment "Mutant" are plausible
bugs: each breaks one of the properties, which shows that the property can fail.

## 4. Runs

Passing runs (module, configuration):

| run | shows |
|---|---|
| enrollment (`MCEnrollment.cfg`) | two calls of the eight operations by a professor, another professor, an administrator and a student, one class: no row of a dead class (`RowsBelongToLiveClasses`), the trail replays to the roster (`TrailReplaysToRoster`), who ends a request had the right to (`WithdrawalsAuthorised`), `Roster` is implemented (`Spec`) |
| submissions (`Submissions.cfg`) | two submissions and two deletions of their task, a list that gets its limit, removed rows: references exist (`RefsExist`); a student exceeds the limit by less than the number of slots (`OvershootBounded`); one final event per task (`DeletionTrail`); a hard delete detaches only direct submissions its count could not see (`LateSubmissionsOnly`) |
| coursework (`Coursework.cfg`) | two calls of two professors, two classes: an entry ties a link and a list of one class (`EntriesWithinClass`); links are made only by managers and lost only by right (`LinksByManagers`, `LinksRemovedByRight`); never-published tasks are linked only by their creator or an administrator (`PrivateTasksStayPrivate`) |
| coursework_alone (`CourseworkAlone.cfg`) | one call at a time, with an administrator, duplicate links and two lists: the list holds each wanted task once (`TasksAddedAreInTheList`), an update leaves the task in exactly the wanted classes (`UpdateReconciles`), and only a task that the catalogue did not offer is linked twice (`DuplicatesAreUnoffered`) |
| encrypted_body (`EncryptedBody.cfg`) | an envelope with any timestamp, also one that is ahead by the whole window, two copies at a time, lost answers, slow claims, one restart of Redis: it is used once or wasted while its key lives, and has `MaxLives` keys at most until they are lost (`EnvelopesUsedOncePerLife`: `SingleUse` is implemented), and every copy is answered however many answers are lost (`EveryCopyAnswered`, under `FairSpec`) |
| reset_password (`ResetPassword.cfg`) | two users, two orders, two calls that may stop anywhere: a spent order stays spent, an order leaves only after use |
| audited_updates (`AuditedUpdates.cfg`) | all eight updates; signups, changes and confirmations of an address and answers to a request overlap (`Racing`), the others come one at a time: addresses are unique (`EmailsUnique`); a promotion is recorded once, as it happened (`RoleTrailExact`); the trail of every column is exact, but for the end of a call that was outrun (`TrailExact`) |
| dashboards (`Dashboards.cfg`) | one dashboard of a list or a task, with up to two other requests between its reads: cells show the newest submission by its client's `submittedAt`, the figures of two loops agree, nobody and nothing is shown that was not there during the call |
| uploads (`Uploads.cfg`) | two requests with up to two files each, whose uploads end or fail in any order, before or after the request: a row's URLs lead to its files, place by place (`RowsLeadToTheirFiles`); a file without a row is of a request that was answered with an error (`OrphansAreOfErrors`); every request is answered (`EveryCallAnswered`, under `FairSpec`) |
| class_directory (`ClassDirectory.cfg`) | two creations of classes and a client who reads all pages, while classes are deleted: a code leads to the class whose creator was told it (`CodesLeadToTheirClass`); no class that was there is skipped, but for a deletion or a tie of `createdAt` (`NothingSkipped`) |

Bounds. Two slots are the smallest number at which calls race; every hazard of
the list is a race of two (the overshoot, which grows with the slots, is proved
for any number). One class, one task or one list suffices where the property
speaks of one and the actions on another do not touch it; `Coursework` has two
classes because its hazard is to mix two. `MaxTrail`, `MaxSubs`, `MaxSets`, `MaxRows`,
`MaxClasses` and `MaxEvents` stop new calls, never a call that has begun, once the history is long
enough for every operation to have followed every other; `LinkIds`, `ListIds`
and `EntryIds` bound the rows: two links are enough for the duplicates, and two lists
with three entries for a task that is deleted between the inserts of its list and of
its entries, and for a list that is not the one of the call. In
`EncryptedBody` there is one envelope, since keys of different nonces meet in `LoseKeys`
only, and the clock ends at `Horizon` = 2 TTL + MaxDelay: every claim of a client whose
clock is TTL ahead fits in, and so do the three lives that `MaxLives` allows for TTL =
MaxDelay = 2 (with one life less TLC refutes the property: the bound is reached). `Uploads` has four URLs, two for each
of two requests, of which a failed request keeps its own for good, and two rows.
`ClassDirectory` has three classes for pages of two, so that a walk takes two pages,
and three codes for two attempts, so that a creation can run out of attempts and two
can draw one code. `EncryptedBody`, `Uploads` and `AuditedUpdates` are checked
without deadlock detection, because the model, not the code, stops: at `Horizon`, with
all URLs drawn, and at `MaxEvents`. `Dashboards` follows one call to its answer, from every
state of the rows with at most `MaxSubs` submissions, so it too stops;
`MaxMoves` = 2 changes between the reads, since a torn answer needs one change
before a read and one after. In `Submissions` the largest limit is 1, so that three
submissions show the overshoot of two slots and none beyond it. `Racing` leaves out
of `AuditedUpdates` the overlap of the updates whose only hazard is to be outrun,
which the theorem `TrailErrsOutrun` covers for any overlap.

Symmetry is used on slots, deleters and the students of a dashboard only, which
are interchangeable, and in no run that checks liveness.

## 5. Disagreements between the code and what it says

Each is a run that TLC must find violated; the counterexample is the story.

* task_history (`HistoryKept`): the count before a deletion ignores submissions
  made through a class or a list; they lose the task they were sent to.
* reset_password_twice (`OrdersSetOnce`): password and order are written in two
  statements. TLC's trace has two confirmations that both find the order; one that ends
  between its two statements, and a second one, would do as well.

Behaviours the models contain and no run singles out: two submissions at once pass
the same count and exceed the limit of a list (`OvershootBounded` says by how much); a
student enrolled between the checks and the insert of his request is a member with a
pending request; for lack of a unique key the 409 for a task that is linked already
can never be answered, and a second link is stored; `tasksAdded` counts a task that
was unlinked between two statements; `syncTaskClasses` also removes links to classes
of others; the envelope of a client whose clock is ahead, or whose claim is late, outlives
its nonce and is opened again (`MaxLives` says how often); a resent SET NX takes its own
key for a replay; two changes
of one column at once record a `before` that was not the value any more.

## 6. Proofs

Theorems are in `EnrollmentProofs`, `SubmissionsProofs`, `CourseworkProofs`,
`AuditedUpdatesProofs`, `SingleUseProofs` (of `EncryptedBody` and `ResetPassword`),
`UploadsProofs`, `ClassDirectoryProofs` and `DashboardsProofs`; `PROJECT.json` names the
ones to know. They state every safety property of the passing runs, and hold for every
set of users, classes, slots and so on that meets the named assumptions of the
modules: tables are functions on the right sets, the kinds of ids are disjoint,
`None` is not a row, bounds are natural numbers, and sets that are counted or drawn
from are finite (`Slots` in `Submissions` and `ClassDirectory`; the tasks and ids of
`Coursework`; the students, entries and instants of `Dashboards`).

* **Enrollment.** `RosterInv` (types, live classes, alternation, replay, actors) is
  inductive for `Roster` as it stands. `Enrollment` does not repeat it: `CallInv`
  says of a call at its write that the class was read and the rights checked
  (`AccessChecked`), that no two calls open one class (`OpeningOnce`), and which
  operations start at the write (`DirectWrites`). From it every step is a step of
  `Roster` or a stutter (`EnrollmentImplementsRoster`), and the invariants of
  `Roster` follow for `Enrollment`.
* **Submissions.** `OvershootBounded` is not inductive alone: a call between count
  and insert carries the limit it read, so `SubmitShape` ties a call at its insert
  to an entry, and `LimitsStay` says a null limit is a legacy one. The counting
  argument is over the finite sets `Stored` and `Admitted`: an insert moves a call
  from one to the other, a count adds one below the limit. `LateInv` bounds `seen`
  by what is stored and says the direct submissions it has seen are none when the
  deletion goes hard. `DeletionTrail` is inductive as it stands: a task whose row is
  there has no "removed" yet. `ReferencesExist` is by the cascade.
* **Coursework.** What a call has seen to at each await (`CallFits`): whoever is about to
  add links manages the classes he adds to (`TaskFits`), a linkTask at its insert may use
  the task (`ClassFits`), and a call with ids of rows in hand has rows of one class
  (`RowsFit`). Such knowledge could go stale in four ways, and the lemma `CallsKept` says
  why it does not: classes never change hands, links and lists never change class,
  `published` only grows, and an id in hand is never drawn again (uuids). Every action is
  then one lemma that gives the invariant and `ByRight`, from which the invariants and
  the three action properties follow. The properties of coursework_alone are theorems
  for a single slot, the hypothesis under which they say anything: `AloneInv` adds
  what a call that is alone knows of the rows themselves, that what it is about to link
  is not linked yet, what `syncTaskClasses` has removed and has still to add, and that a
  list is empty until its entries come. Trying this proof showed the earlier form of
  `TasksAddedAreInTheList` false with two lists, which its run did not have: it took any
  change of the entries for the insertion of the call, and the deletion of a task, which
  comes from outside, may take the entries of another list.
* **AuditedUpdates.** What a call knows of its columns between its read and its
  transaction (`ValueFits`): what it read is still the value, unless `missed` says not.
  Hence the diff it writes is the change that happens, or the call was outrun
  (`TrailErrsOutrun`). `AddressesApart` is by the unique key, and needs that no two signups
  are of one account. `RolesRecordedOnce` assumes one request, as its property says: the
  answers to it take its row lock, so the role is read where it is written.
* **EncryptedBody.** No assumption ties the clock of a client or the delay of a claim to
  the window: the theorems are for every timestamp that line 76 of
  `encrypted-body.service.ts` admits and every `MaxDelay`, and the bound is stated in
  TTL and `MaxDelay`. `ClaimsInTime`: a copy waiting for its claim arrived within TTL of the
  timestamp, on either side, and waits at most `MaxDelay`. `KeysApart`: the first key ends
  no earlier than the timestamp, and each further one TTL + 1 later than the one before,
  because SET NX writes it only when that has ended. So the n-th key of an envelope needs
  (n - 1) (TTL + 1) <= 2 TTL + MaxDelay (`NewLife`), and `MaxLives` counts those n
  (`MaxLivesBound`). `OpenedByKeys` counts the openings, done and due, by the keys.
  With them every step is a step of `SingleUse` or a stutter (`EnvelopesAreTokens`), and
  the handler runs at most `MaxLives` times per period between losses of the keys
  (`OpeningsBounded`).
* **Uploads.** The URLs of the rows, of the requests being served and of those that
  failed are kept apart (`UrlsApart`), and an upload without a request writes to the
  third kind only (`StraysAreLeft`): it cannot replace a file of a row.
* **ClassDirectory.** The codes are by the unique key and the answer of the insert.
  `NothingSkipped` is not inductive: the place of a class in the order of the pages is the
  number of classes newer than it, which creations only raise, so a class not seen yet
  is at or after the offset of the next page while nothing is deleted.
* **ResetPassword.** `Fits` says what a call at each await knows of its order: that
  it is there or spent, and that a late confirmation is still at its first read.
  The sets only grow (`Monotone`), so other calls keep it.

* **Dashboards.** No step follows the last read, so an answer is what the repositories
  compute from rows that are still there (`Answered`), and the figures are facts about
  that computation. `Remembered` and `ReadsFit` say what is left of the rows that were
  there at the start and how much of them the call has read; with `Answered` they are
  inductive. `GroupFits` is the bridge: in an order from the newest to the oldest, the
  first place of a group is that of the newest submission to the cell, and the group is
  as large as the set of them. The rest are figures. Sums and the `reduce` of the
  hardest task are recursive functions, so that each fact about them (there is one, it
  splits, it is bounded by its terms, the sum of the rows counts the cells, the first
  lowest rate is kept) is proved from a smallest counterexample, by the library's
  theorems that proper subsets and the numbers are well-founded: its induction theorems
  cannot be used. The two loops count the same cells because both count one relation
  (`CountedByRows`); scores are quotients of integers (`QuotientReaches`), for weights
  that only have to be positive.

Proved and not run, since another property of the run implies them or the proof says
more than a small instance: `OpenedWithinLives`, and `TrailAlternates` and
`TrailActorsAllowed` of `Roster`.

Only model-checked: the liveness of `EncryptedBody` and `Uploads`, which is out of the
prover's reach, and the two disagreements of section 5. No module has a RECURSIVE
operator; `Hardest` and the folds of the community modules are recursive functions.

## 7. Not modelled

* Reads that change nothing, but for the dashboards, the pages of the classes and the
  catalogue of linkable tasks: My tasks, the other catalogues and listings with their
  filters. The filters say whose rows are shown in one query each; there is nothing
  between two statements to go wrong. In the dashboards floats are exact, and two
  submissions never carry the same instant.
* The names of classes and users, the params and tests of a task, dates of a list (no
  code reads them), texts, what a DTO refuses.
* The mails themselves; they are calls that may fail. A mail that fails after the commit
  of `respond` leaves a decision that stands, which no model tells apart. What storage
  holds is modelled, its network is not: an upload ends or fails.
* Cryptography, hashing, the signing and expiry of tokens: a link is followed or not.
* login changes no row.
* Roles are constants in `Enrollment` and `Coursework`; only `AuditedUpdates` changes them.
* Institutions are two reads.
* The promotion race with changed addresses: two requests whose addresses belong in
  turn to one user, answered while the address changes, record two promotions
  (audited_updates has one request, and `RolesRecordedOnce` assumes one).

## 8. Plan

Done, in the order of their weight: Roster and Enrollment, Submissions,
Coursework, ResetPassword, EncryptedBody with SingleUse, AuditedUpdates, Dashboards,
Uploads, ClassDirectory; the proofs of all their safety properties.

What could come next:
1. What My tasks, published and the reads of a list show to whom, over the rows of
   `Coursework`, as `Offered` does for the linkable tasks.
2. Roles and deactivation that change under a call of `Coursework`.
