# StateAI backend: TLA+ models and proofs

StateAI is a FastAPI/SQLAlchemy service over PostgreSQL: a CRM for estate
agencies, with AI agents that analyse contacts, a sales pipeline, automation
that turns CRM events into notifications and tasks, and Renova, a separate
workspace for renovation cases.  This directory models the parts of it where
requests, scheduler runs, restores and crashes interleave, checks the models
with TLC and proves what matters most with TLAPS.

- [The system](#the-system): its components, their state, operations and hazards
- [Modules](#modules) and the [plan](#plan)
- [How the models are built](#how-the-models-are-built), then one section a module
- [Runs](#runs): what each checks, its bounds and fairness
- [What the code does and its documents do not say](#what-the-code-does-and-its-documents-do-not-say)
- [Proofs](#proofs), [Not modelled](#not-modelled)

Files: `X.tla` is a component, `MCX.tla` instantiates it for TLC, `*.cfg` is one
run each, `XProofs.tla` holds theorems.  `PROJECT.json` lists the components,
the runs, the hazards at their lines, the source lines behind every definition,
and for every property a mutant: a plausible bug, defined in the module right
above the operator it replaces, that the property must catch.

## The system

Every HTTP handler is synchronous and runs in a thread pool over its own
database session; several server processes may run.  PostgreSQL is at READ
COMMITTED and the code takes no row locks, so between any two statements of one
handler any other handler may commit.  The automation runs in a background
thread of the server (`app/automation/scheduler.py`); backups and restores are
processes of their own.  All data belongs to an organization, and every
repository query filters on it.

| Component | State | Operations | Talks to |
|---|---|---|---|
| **AI run reservation** `app/services/agent_execution_service.py`, `app/api/routes/ai.py` | `agent_executions`, two partial unique indexes | begin (idempotency, active run, cooldown, limits, insert), run, complete, latest, human action | contacts, lead context, gateway |
| **Agents and providers** `app/ai/` | none | one call, with a timeout, that answers or fails | lead context, Ollama or Anthropic |
| **Lead context, fingerprint** `app/services/lead_context_service.py` | none (reads) | assemble, fingerprint (counts and latest timestamps) | every CRM table |
| **Opportunity pipeline** `app/services/opportunity_service.py` | `opportunities` | create, update (stage, close, reopen) | activities, audit, tasks |
| **Automation** `app/automation/` | `notifications`, follow-up markers in the audit log | six detectors, create notification, create follow-up task, scheduler | tasks, appointments, requirements, opportunities, members |
| **Tasks, appointments, activities** `app/services/task_service.py`, `appointment_service.py`, `activity_service.py` | `tasks`, `appointments`, `activities` | create, update, delete, completion stamps, outcome activity | audit, automation, lead context |
| **Organization membership** `app/services/organization_*`, `onboarding_service.py` | `organizations`, `users`, `organization_invitations` | sign up, invite, revoke, accept, change role, deactivate | every authorization check |
| **Renova cases** `app/services/renova_case_service.py` | `renova_cases` | create, update, assign, archive, move on the operations map | audit, follow-ups, chat |
| **Renova follow-ups** `app/services/renova_follow_up_service.py` | `renova_follow_up_activities` | enter and edit calls and reminders; a summary derived from them | cases |
| **Renova chat** `app/services/renova_chat_service.py`, `app/renova_chat/` | conversations, numbered messages | ask: classify, resolve, read, store a turn; rate limit | cases, language model |
| **Backup and restore** `app/backup/`, `scripts/` | files with checksums | snapshot, verify, prune; plan and apply a restore | the database, audit |
| **Properties, buyer requirements** | their tables, features, locations | create, update, delete | matching |
| **Buyer matching** `app/services/matching_service.py` | none | search in SQL; analysis by criteria | requirements, properties |
| **Contacts, interests, features** | their tables | CRUD with an audit entry in the same commit | everything that references a contact |
| **Audit log** `app/services/audit_service.py` | `audit_logs`, append-only | log (in the caller's transaction), list | every service |
| Dashboard, calendar connections, extraction and quick notes, infrastructure, migrations, seeds | read-only, stubs or libraries | | |

What is hard in each, and what makes it correct:

- **AI run reservation.**  Check-then-insert guarded by unique indexes whose
  losers look again; a reservation committed before a call of up to minutes;
  clients that retry; a contact deleted meanwhile, which takes its rows out of
  the index (`ON DELETE SET NULL`); a process that dies in between.  Correct:
  one provider call at a time for a contact and agent, one execution per key,
  every client told the truth, every reservation given back, limits and
  cooldown respected.
- **Opportunity pipeline.**  A PATCH decides from the row it loaded and writes
  the columns it changed; a win commits twice.  Correct: stage, closing time
  and reason agree; timeline, tasks and audit log tell the same story.
- **Automation.**  Deduplication by a read and an insert without a constraint;
  a run lives through many commits while its entities change or vanish; any
  exception ends the run of the organization.  Correct: nothing is notified
  twice, and everything that lasts is notified eventually.
- **Tasks, appointments, activities.**  An appointment and its outcome are two
  commits; the start is checked against the end as loaded; completion stamps
  are set once.  Correct: notes of a completed appointment become history, and
  dates agree with one another and with the status.
- **Lead context.**  A fingerprint of counts and latest timestamps, taken when
  the provider has answered, stands for the context the agent was given before.
  Correct: a fingerprint that still holds means that what carries a stamp is
  what the agent was given; for the rest of the context it is false, see below.
- **Membership.**  Signing up and accepting invitations race for the same
  account; only the primary key of `users` decides; access is changed by PATCHes
  that compare with what they loaded.  Correct: an organization has its founder
  as only owner, an account is where its invitation says, and the audit log
  tells the access it has.
- **Renova cases.**  Any status may follow any other; the operation, the
  archive flag and the final offer are derived from other columns at each write;
  advisors may only keep or take cases.  Correct: a live accepted case is on the
  operations map, the log tells the row, each write restores the rules.
- **Renova follow-ups.**  Attempts are numbered from a read; events are entered
  late and edited.  Correct: the summary is about what happened last.
- **Renova chat.**  Messages are numbered from a read, cases are reassigned
  between turns, a question refers to the answer before it.  Correct: whole
  turns in order, answers only from cases in the caller's scope.
- **Backup and restore.**  Killed runs, rename before checksum, names that two
  runs of one second share, pruning, a plan applied later than it was made.
  Correct: a restore works from a whole file, fills holes only, and what it
  overwrites can be had back, if no other run took the name of its safety copy.
- **Matching.**  Two implementations of "fits".  Correct: they agree but for
  what the search leaves to the analysis.

`PROJECT.json` lists every hazard at its line, with the properties that are
about it.

## Modules

| Module | Models | Proofs |
|---|---|---|
| `AgentExecution` | the reservation and the run of one AI analysis | `AgentExecutionProofs` |
| `ExecutionLedger` | what it promises; `AgentExecution` implements it | `AgentExecutionProofs` |
| `OpportunityPipeline` | one deal under overlapping PATCHes | `SalesProofs` |
| `Automation` | detectors, deduplication, follow-ups, the scheduler | `AutomationProofs` |
| `RenovaAccess` | who sees a case and where it is shown; shared by the next three and `Backup` | |
| `RenovaCase` | one case: status, operation, archive, offer, assignee, log | `RenovaProofs` |
| `RenovaFollowUp` | extends `RenovaCase`: its history of calls, composed with the requests that change the case | `RenovaProofs` |
| `RenovaChat` | one conversation over the cases | `RenovaChatProofs` |
| `Membership` | accounts, organizations, invitations | `MembershipProofs` |
| `Roster` | what it promises; `Membership` implements it | `MembershipProofs` |
| `Backup` | the folder, snapshots, restores over cases and follow-ups | `BackupProofs` |
| `Agenda` | appointments, tasks, activities, the fingerprint | `AgendaProofs` |
| `Matching` | requirements, properties, search and analysis | `SalesProofs` |

## Plan

Done: all of the above.  What is left, in the order of its worth:

1. The protected columns of a Renova case and its INE images: two more writes
   and a read with an audit entry.
2. An abstract specification of the notifications (each event told once to each
   recipient) that `Automation` implements as long as runs do not overlap.

## How the models are built

A request is a process; `pc[r]` or `req[r].pc` names its next step.  One step is
what happens between two points where another transaction can be seen: a query,
or a flush that ends in a commit.  From its first UPDATE to its commit a
transaction holds the lock of the row, so that part is one step.  Local variables
a later step uses are kept with the request; anything read there and used later
can be stale, as in the code.  The ORM's UPDATE names only the columns whose
value differs from the one loaded; `Flushed`, `Updated`, `Written` and
`Rewritten` are that rule, each in its module.  A crash is `Lose`, `Die`, `Kill`
or `Fail`: the process stops, its open transaction is gone, what it committed
stays.  Payload, text and layout are abstracted to what the properties tell
apart.

### AgentExecution

Models `POST /ai/{agent}/{contact_id}` (`app/api/routes/ai.py:64-146`) over
`AgentExecutionService`, and `GET /ai/agent-executions/latest`.

| Step | Code |
|---|---|
| `CheckContact`, `LookupKey`, `LookupActive`, `CheckCooldown`, `CheckRateLimits` | the reads of `begin()`, in its order, each a query of its own |
| `Reserve` | INSERT and COMMIT; `Insertable` is the two partial unique indexes and the foreign key |
| `RecheckKey`, `RecheckActive` | the `IntegrityError` handler |
| `ReadContext`, `CallProvider` | `AIGateway.run`: the context is read, then the provider answers, fails or times out |
| `ComputeFingerprint` | `compute_context_fingerprint`, whose exceptions are swallowed |
| `CompleteSuccess`, `CompleteFailure` | the final UPDATE and the HTTP answer |
| `Lose` | the process dies, or the final commit itself raises |
| `DeleteContact`, `EditContact`, `SetHumanAction`, `Tick` | other endpoints, and time |

`row[r]` is the row request r inserted (a request inserts at most one).  It has
a contact of its own because deleting the contact sets it to NULL; agent, user
and key never change and are read from `request[r]`.  `createdAt` is the start
of the transaction, as the column default `now()` is.

`ExecutionLedger` is the promise: executions start at most one at a time for a
contact and agent and at most one ever for a key, and a client that starts none
may be shown another's of the same analysis.  `ImplementsLedger` maps `row` to
outcomes and `answer` to what was shown.

### OpportunityPipeline

Models `OpportunityService.create` and `update` for one opportunity.  `Load`
reads the row (`get_or_404`); `Write` and `WriteWon` decide from that
(`NewStage`, `Valid`, `Stamps`, `Reopens`, `AuditAction`) and flush.  `WriteWon`
is the first commit of a win, inside `TaskService.create`, and `RecordWon` the
second.  The route has no delete; deleting the contact removes the deal and its
history with it, which ends the behaviours modelled here.

Two kinds of property: what holds under any interleaving (`ClosedIsStamped`,
`TimelineEndsAtStage`, `OneTaskPerWin`, `ChangesAudited`), and the documented
rules, which hold as long as PATCHes come one after the other: `DealRules` and
`HistoryUnbroken` of the MC module, whose history variable `disturbed` remembers
whether two ever overlapped.

### Automation

Models `run_detectors_for_organization` with its six detectors, run by the
scheduler's job, for one organization; sessions of different organizations are
separate.  `List` is a detector's query, `TakeUp` one turn of its loop,
`CheckUser` the recipient and the deduplication query, `CreateNotification` its
insert and commit, `CreateFollowUp` the task with its marker, `Announce` the
notification of that task, in a commit of its own.  `Abort` is what an exception
does: the run of this organization ends (`run_all_organizations_once` logs it)
and the next interval starts over.

A session's objects expire at each commit (`expire_on_commit`), so a run sees an
entity as it was listed or, after its own commit, as it is now; when the row has
been deleted meanwhile the access raises.  `Seen` and `SeenAccount` model that.
Entities change by `Edit` to anything a PATCH can make of them: a PATCH cannot
set an assignee or a contact to null (`OrgScopedRepository.update` skips None),
only `DeleteAccount` takes an assignee away.  One `Edit` also stands for a
due date passing.

### RenovaCase and RenovaFollowUp

`RenovaCase` is one row of `renova_cases`.  A payload is a function from the
fields that were sent to their values, so an absent field, a null and a value
are three things.  `LoadPatch` is `update()` up to its first UPDATE: schema
(`WellFormed`), visibility (`Sees`), assignment (`MayAssign`), archiving
(`MayArchive`); `LoadMove` is `update_operation()`; `Write` is the UPDATE of the
changed columns, the refresh, the audit entry and the commit.  `Patched` and
`Moved` derive what the service derives: the archive flag from the status, the
final offer from the proposal, the operation's first stage from the status and
the status from the stage.  `Migrated` is the backfill of the migration that
added the operation columns; `CaseInit` starts from a case that is new to the
organization or older than that migration.  `told` is what the audit log last
said of each column; an entry is written when `Records` finds a difference
between the loaded row and the refreshed one, as the service does.

`RenovaFollowUp` extends it with the history of the case: `BeginCreate` reads
the highest attempt number and `Insert` writes later; `BeginEdit` checks the
merged row and `Edit` writes the changed columns.  `created_at` is the start of
a transaction, so ties between events of one time are broken by the order in
which requests began.  The summary (`Reminder`, `LastCall`, `AttemptCount`,
`ContactState`) is `summarize()`.  `Next` interleaves both, and an account with
a request under way is not deleted.

### RenovaChat

One conversation of one user.  `Ask` loads it and checks the rate limit,
`Interpret` is the deterministic rules and the classifier, `ResolveContext` and
`ResolveName` find the case a question is about, `Count` and `List` are the two
queries of an answer, `Number` and `Store` are the two halves of `add_message`,
with the unique constraint in `Free`.  A text is what the deterministic rules
make of it; the classifier may answer any of `Parsed`; an answer is the set of
cases it was read from.  Other users change the cases at any time.

### Membership

`Begin*` is what a request reads and refuses; `Provision`, `Accept`, `Revoke`
and `UpdateMember` are the rest of it in one transaction.  `Insertable` is the
primary key of `users` with the foreign key to the authentication service's
accounts; the loser's transaction rolls back whole, which `Founded` and `Used`
say for the organization and the invitation.  `DeleteAccount` is the cascade of
a deleted account.  `told` is what the audit log says of a member: the role in
its last entry of any kind, the role in its last `USER_ROLE_CHANGED`, the access
in its last `USER_DEACTIVATED` or `USER_REACTIVATED`; an access entry carries a
role too, the loaded one unless the same request changes it (`Carried`), so
`told` also remembers which requests had loaded the member when a role change
was committed (`overtaken`).  An invitation is named by its code, an organization by its founder's account, an email by its
account; a request of the owner is checked when it begins and not later, as in
the code.

`Roster` is the promise, without requests, rows and codes: an account founds an
organization of its own or joins one that its owner invited it to, once, and
stays until it goes for good; nobody else ever becomes an owner.
`ImplementsRoster` maps a row of `users` to a member and to an owner by its
role, and an invitation of any status to an account that was once invited, so
that a revocation or an expiry that an acceptance overtakes breaks no promise
(the code makes none there, see below).

### Backup

A file of the folder is `[stamp, real, mixed, body, sum]`: its name, whether it
is the target or still the `.partial`, whether two runs write it at once, its
bytes (`body`: whose snapshot, whole or not, damaged or not) and what the
`.sha256` beside it was computed from.  `load_snapshot` compares the two
(`Loads`), so a file damaged before its checksum is taken is believed.  A name is
the second of `created_at` and a label (`NameAt`); the clock `second` advances or
not with each snapshot (`Take`), so runs may take the same name, and then share
`.partial`, target and `.sha256` (`Partial`, `Own`, `Beside`): one may rename
what the other is writing, lose its file to it or put its checksum beside the
other's bytes.

A run of `backup_db.py` goes `Take`, `Open`, `Replace`, `WriteSum`, `Verify`,
`Prune`; a run of `restore_renova.py --apply` goes `Plan`, takes a safety copy by
the same steps, then `Apply`.  `Kill` ends a run between any two of them,
`Damage` alters a file so that it still unpacks, `Edit` and `Delete` are the
application and whoever has the database.  `Insertable` is the primary and
foreign keys that make the transaction of `Apply` fail as a whole.

### Agenda

Rows of appointments and tasks, the activities that come of them, and requests:
`Create`/`Insert`, `Patch`/`PatchTask`/`Write`, `Delete`/`Remove`, `LogActivity`.
`Refresh` and `Record` are what an update with notes does after its commit.
Every transaction begun advances the clock and stamps what it writes with its
own beginning, so a row may be stamped earlier than one committed before it.
`PatchContact` and `EditContact` change the row of the contact, and `ChangeRest`
what the contact has besides without a stamp: roles, the features and locations
of its requirements, references that become NULL (`profile[c].rest`).

An AI run is `Build`, which gives the agent its `Context`, and later `Store`,
which keeps beside it the `Fingerprint` (the counts and latest timestamps of
`compute_context_fingerprint`) of the data as it is then.  `quiet` says that
nothing stamped had changed in between and no transaction was open.  `Dated` is
the part of a context that carries stamps.

### Matching

`Found` is `find_matches` with its SQL filters and `Analysis` is
`analyze_matches` with its criteria: two pure operators, each the other's
reference, compared over every requirement and property of small value sets and
over what two overlapping requests can make of them.  Both methods cut their
list off at `limit` (20 unless asked otherwise); `Found` and `Analysis` are what
is said of a property before that.

## Runs

| Run | Bounds | Shows |
|---|---|---|
| `AgentRuns` | two requests of two users, one contact, a key or none, an edit, one lost thread, fairness | `OneCallPerSlot`, `OneRunPerKey`, `OutcomeRecorded`, `AnswersMatch`; every request is answered, every reservation given back; the ledger is implemented |
| `AgentLimits` | three requests that do not overlap in `begin()` (`SerialSpec`, by an action constraint), limits 1, 2 and 2 in windows of 1, 1 and 2, cooldown 1, three instants | limits and cooldown hold to the second; the latest run is the last to finish |
| `Opportunity` | three PATCHes, overlapping or not, one dies; a stage of the other pipeline in the payloads | four properties of any interleaving, the documented rules and an unbroken history of PATCHes that did not overlap |
| `AutoOnce` | a requirement and a showing, one run at a time, one restart, the account deleted | nothing is notified or followed up twice; a follow-up is announced unless interrupted |
| `AutoTold` | a lead before a showing in the same run, two users, one switched off and on and deleted, fairness | a lasting event reaches every active user; a lasting completed showing is followed up, although the account deleted under the run ends it |
| `AutoOverlap` | two runs at once | the counterexample described below |
| `RenovaCases` | two overlapping requests of a chief and two advisors on the case, or three on its history, or one of each; fifteen payloads, five moves; an account deleted | types and shapes; the operations map; the log; who keeps a case; the rules; the summary and the numbering |
| `RenovaChat` | three questions, two at once after a first turn, two cases that others change, two questions a minute | whole numbered turns; "which ones?" understood; answers in scope |
| `Membership` | three requests of one account that signs up and is invited by two organizations, is changed, revoked, deleted | founders own; entry by invitation; the log tells role and access; the roster is implemented |
| `Backup` | a case and its follow-up, a backup and two restores in one second or two, one damaged file, two kept | a restore works from a whole file, fills holes, saves what it overwrites |
| `Agenda` | three requests on an appointment and two tasks of a contact and on the contact, four transactions begun | notes become history; dates agree; the fingerprint tells |
| `Matching` | 24 requirements, 48 properties, two requests | a match is found; what is found is ruled out knowingly |

Why the bounds are enough to see the interesting cases.  `AgentRuns`: two users
with one key tell a replay from a stranger, and the loser of the index meets a
winner that runs, has ended or has lost its contact.  `AgentLimits`: three
instants put a request before, at and after the edge of each window.
`Opportunity`: three PATCHes let a deal be closed, reopened and closed again.
`RenovaCases`: each rule relates the row to one earlier write, and a second
request is what can come in between.  `Membership`: an account has at most three
ways in, and all three are tried at once.  `RenovaChat`: one turn to refer to
and two questions that overlap.  `Backup`: with one case and one follow-up every
status of the plan occurs, and the second restore is what the plan of the first
did not know of; the database starts full and the case may be deleted or
reassigned by then.  Two seconds for three runs put two of them under one name or
under different ones, and two files kept of four make pruning take one that still
matters.  `Agenda`: a fourth transaction is what makes good a
deletion that a third stamped.  Where time plays no part `MaxTime` is 0.

The MC modules narrow some inputs, and say so: only one advisor works the
history (`MCRenovaFollowUp`), owners invite one account (`MCMembership`), a case
is reassigned and only a restore gives it back, files are damaged before the runs
or before their checksum (`MCBackup`), refused requests do nothing more, the
contact is edited once, a run is given its context in quiet and not stored if it
changes (`MCAgenda`), a question overlaps another only after a first turn
(`MCRenovaChat`).  Symmetry permutes requests, codes, runs, and contacts and
users where initial states and constants treat them alike, and never in runs
with liveness.

Deadlock is checked in the runs of `AgentExecution`, `OpportunityPipeline` and
`Automation`: `Quiet` in the first two is the state where all requests are over,
which may stutter; `Automation` never stops.  The other modules bound the number
of requests and do really stop when all are answered, so their runs do not check
it.

Fairness.  `AgentExecution`: weak fairness of each request's next step.  The
server runs the threads it accepted, and both providers put a timeout on their
call; a thread that is lost is the `Lose` action, which no fairness forces or
forbids.  `Automation`: weak fairness of each run's next step, including
`Start`, since the interval trigger fires again as long as the process is up and
the job starts with the process; restarts are bounded by `MaxDeaths`, so the
process eventually stays up.  Nothing is assumed of clients, users, edits or
deletions; a run can be ended from outside only finitely often because there are
finitely many accounts and entities to delete.  `LivenessSpec` of the MC module
takes two edits out of the environment to keep the graph small: nobody marks
notifications read (deduplication does not look at that, as `AutoOnce` checks)
and only the account that may be deleted is switched off and on.  In the other
modules nothing has to happen: a request that dies is a request that was never
made, and the code retries nothing by itself.

`AutoTold` leaves tasks out on purpose: with a task whose assignee's account was
deleted the property is false, see below.

## What the code does and its documents do not say

`AutoOverlap` is a run that TLC ends with a counterexample: two runs at once
(two processes) both find nothing and both insert, where `scheduler.py:20` says
they can run concurrently and never produce a duplicate.

The differences below were met while modelling.  Each is either excluded by the
condition a property states, or is visible in the action named.

AI runs:
- `ComputeFingerprint`: the fingerprint is taken after the provider answered,
  from the data as it is then; an edit during the call makes an outdated
  analysis look fresh (`ai.py:129`: it reflects the data the agent just
  reasoned over).
- `LimitsHeld`: overlapping requests for different contacts all pass the count
  and exceed the limit; the repository's README:699 calls the limits a cost
  boundary across server processes.
- `LatestIsLastCompleted`: the latest run is chosen by the start of its
  transaction, so a request that was overtaken and finished last is not it.
- `CheckCooldown`: the cooldown counts from the reservation, so a run slower
  than the cooldown leaves none; README:699 says a completed run starts it.
- `ReadContext`: a contact deleted after the reservation is a 404 that is
  recorded as a failed execution; `ai.py:81` and README:705 say it is not.
- `IsStale`: a run without fingerprint is never stale; `ai.py:133` says it is
  treated as always stale.
- README:706 says `input_snapshot` stays NULL; `CompleteSuccess` writes the
  fingerprint there.

Pipeline and automation:
- `DealRules`: a move between working stages that overlaps a win leaves an open
  deal with a closing time (`opportunity_service.py:187`; README:167: a working
  stage clears `closed_at`); a PATCH to lost that relies on the reason on file
  commits without one when a reopening cleared it meanwhile.
- `RecordWon`: a crash between the two commits of a win leaves the change
  without its entry; `audit_service.py:21` says both persist or both roll back.
- `CreateFollowUp`: an appointment reopened after it was listed still gets its
  follow-up; `appointment_repo.py:70` says completed is never left, while a
  PATCH may set any status.
- `Abort`: a task whose assignee's account was deleted has no recipient; once
  it is overdue the run of the organization fails at it each time, until it is
  closed.  `detectors.py:87` says there is always a real recipient, and
  `models/task.py:28` keeps the task when the account goes.

Membership:
- `Revoke`, `Accept`: both write what they decided before, so a revocation that
  loses the race turns an accepted invitation into a revoked one, and an
  acceptance that read a pending one accepts a revoked or expired one;
  `enums.py:21` says both are terminal.  Who is a member is not affected.
- `Carried`: a deactivation or reactivation is recorded with the role the member
  had when the request loaded it (`organization_member_service.py:94`).  If a
  change of role was committed in between, the newest entry of the log names an
  old role; the last `USER_ROLE_CHANGED` is right all the same.
  `HistoryTellsMember` says both.

Renova:
- `CaseRules`: two overlapping PATCHes, one that archives a closed case and one
  that reopens it, leave an open case in the archive; the next write restores it.
- `NextAttempt`: two calls entered at once get the same attempt number; no
  constraint refuses it.
- `ResolveContext`: a follow-up question about a case that was reassigned since
  runs into `assert case is not None` (`renova_chat_service.py:295`): an error
  500 in place of an answer.
- `Ask`: the rate limit counts stored questions; those that failed or are still
  with the classifier are free.
- Not modelled, since figures are not: the totals of the chat
  (`renova_chat_service.py:311`, `:330`, `:368`) add up property tax whose unit
  is years, which `enums.py:512` and the schema's `total_debt` exclude.

Backup:
- `Overwritten`: a row planned as changed is overwritten as it is at the time of
  applying, with edits made since the plan; the safety copy has it only if the
  edit came before the copy.  `OverwrittenIsSaved` states that condition.
- `Chosen`: the plan selects by assignee or creator, where the application shows
  a creator only unassigned cases (`renova_access.py:41`): restoring an
  advisor's cases also touches those that were given to somebody else, and
  `restore.py` says it touches nobody else's data.
- `Apply`: inserted rows are not undone by restoring the safety copy, which does
  not delete.
- `Plan`: the newest backup, the default, is the safety copy after an `--apply`.
- `WriteSum`: the checksum is taken after the rename, of what is under the name
  by then (`snapshot.py:126-128`): a run killed in between leaves a file that is
  believed without one, and damage in between is hashed as if it were the
  snapshot.  `PlansFromWhole` states both.
- `NameAt`: a name tells seconds (`snapshot.py:119`) and every safety copy has the
  same label, so two restores of one second write the same three files and can
  lose or halve each other's copy, although `write_snapshot` promises never to
  leave half a file under the real name.  `PlansFromWhole` and
  `OverwrittenIsSaved` except names that two runs took (`Contested`).
- `Prune`: a safety copy is deleted like any other file, once `--keep` later ones
  are there; `OverwrittenIsSaved` says so.

Agenda:
- `Updated`: `completed_at` is stamped once: a task that is reopened and
  completed again keeps its first date, and an explicit null leaves a completed
  task without one.
- `Record`: notes of an update whose second commit fails are lost; the answer
  was then an error, and repeating the PATCH with the status records them.
- `Remove`: deleting a row somebody deleted meanwhile answers 204.
- `Fingerprint`: a transaction open while it is taken, which commits later with
  an earlier stamp, is not seen if another row of the bucket goes at the same
  time; `FingerprintTells` excludes it (`quiet`).
- `Store`: the fingerprint is that of the data after the provider's answer, where
  `ai.py:129` says it reflects what the agent reasoned over; a change during the
  call makes an outdated run look fresh.  `quiet` excludes that too.
- `ChangeRest`: adding or removing a role, a feature or a location of a
  requirement, or deleting a property or an opportunity that rows refer to,
  changes what `build()` gives an agent and moves no `updated_at` and no count
  (`contact_repo.py:95`, `buyer_requirement_repo.py:72`): the fingerprint stays
  equal.  So it does when time makes a task overdue, which the summary counts.  `lead_context_service.py:150` says it is built so that it can never
  define what matters any differently than the context; it does.
  `FingerprintTells` is about what is stamped (`Dated`).
- `build()` lists at most 20 tasks and appointments and 20 activities, the
  fingerprint up to 1000 and all; so an equal fingerprint also means equal short
  lists, and a row beyond the 20 can make a run stale without need.

Requirements, properties and matching:
- `PatchRequirement`: the flush meets the CHECK constraint before the service's
  own check of the merged range, so the answer is 409 and never the 422.
- `PatchProperty`: one PATCH that makes a property the organization's own and
  one that sets its collaboration status each pass; the row is then
  inconsistent.  Matching looks at the ownership alone.
- `Found`: the search ignores deal breakers, the currency and every maximum but
  the budget's; the analysis mixes the city of one wanted place with the
  neighborhood of another.  The two properties state exactly these exceptions.

## Proofs

TLAPS proves these for any number of requests, runs, contacts, users, keys,
cases, invitations, rows and questions, any payloads and any value of the
limits.  The assumptions are those of the component modules, and TLC evaluates
each of them in the runs:

- settings and bounds are naturals, and what stands for NULL or "absent" is no
  ordinary value (`ConfigAssumption`, `SentinelAssumption`, and parts of all the
  others); requests, runs, callers and rows are finitely many where they are
  counted (`RequestsFinite`);
- requests are what the schemas let through: `PipelineAssumption`,
  `CaseAssumption` (`Sendable`: the fields of a PATCH and the values of each; a
  move has a stage of the map), `FollowUpAssumption` (`Entry`, `Changeable`),
  `AgendaAssumption` (`Complete`, `Partial`: a create has every column, a PATCH
  some; an appointment is created with its start before its end),
  `ChatAssumption` (what the classifier may answer, and that a name is within
  itself), `MatchingAssumption` (typed rows at first, bounds of a PATCH naturals
  or null, finitely many places, each with a city or a neighborhood),
  `AccessAssumption`, `MembershipAssumption`;
- `AutomationAssumption`: each entity is listed by one detector;
- `BackupAssumption`: a follow-up has its case, the runs are finitely many, and
  `--keep` is any natural number.

`AgentExecutionProofs`:

- `Typing`: `Spec => []TypeOK`.
- `Reservation`: `Spec => []ReservationInv`.  None of the properties is
  inductive alone.  Single flight follows from `RowFollowsStep` (who is past its
  reservation has a running row) and `OneRunningRow` (two running rows differ in
  contact or agent).  The index gives `OneRunningRow` only for rows that still
  have their contact; `RowNamesContact` closes the gap: a running row without
  contact belongs to a contact that no longer exists, for which the foreign key
  refuses further rows.  `AnswersMatch` needs `OutcomeRecorded`, since a row
  that was replayed must stay succeeded.
- The step lemmas avoid proving sixteen actions against seven conjuncts:
  `StepKinds` shows that every step moves a request, refuses, redirects,
  inserts, completes, reacts, deletes a contact or leaves the reservation alone,
  and one lemma per kind preserves the invariant.
- `SingleFlight`, `Idempotency`, `Answers_Match`, `Outcomes`: its consequences.
- `EndedIsHistory`: the action property `History`, from `Reservation`.
- `LedgerImplemented`: `Spec => Ledger!Spec`, each kind of step being a step of
  the ledger or a stutter.
- `NobodyGoesBack`: `Spec => [][Onwards]_pc`: a step moves one request, and to a
  label of a higher `Rank`.  It is the part of `EveryRequestAnswered` that needs
  no fairness: however often others win the race, nobody retries, so a request
  takes at most twelve steps and only the scheduler can keep it from its answer.
- `StaleTruly`: `Spec => []StaleIsOlder`: a result that `IsStale` calls stale is:
  its contact is no longer what the agent read.  The fingerprint is taken after
  the provider's answer and may already be of newer data; the invariant
  `PrintInv` puts it between what was read and what the contact has become, from
  the reading to the stored row.  The converse is false, see above.
- `Bounded`, `LatestShown`: `SerialSpec => []LimitsHeld` and
  `SerialSpec => []LatestIsLastCompleted`.  `SerialSpec` is `Spec` with clients
  that do not overlap in `begin()` (`Serial`); without it both are false, see
  above.  `Serial` speaks of one step, and that at most one request is in
  `begin()` is the first conjunct of the invariant `Turns`, whose other conjuncts
  are what the checks found and nobody can change before the INSERT: the
  cooldown (`Cooled`, which has an exception for a run of the same slot that
  ends between the check and the INSERT) and room under each limit.  `Dated`
  ties the stamps of a row to its request, and `Ordered` says that of two runs
  of a slot the one reserved first ended before the other was reserved, which
  is what `LatestIsLastCompleted` needs and the index alone does not give.  The
  case that matters is a window that gains the new row: it ends now, so what it
  held is what was counted (`RoomForOne`).  That an ORDER BY finds a latest run
  at all (`LatestThere`) is by well-foundedness of the subset order.

`SalesProofs`, about `OpportunityPipeline`:

- `Typing`: `Spec => []TypeOK`: no stage of the other pipeline gets in, whatever
  overlaps.
- `ClosedStamped`: from `FlushedStamped`: an UPDATE that writes a closed stage
  writes `closed_at` with it, and one that writes no stage reopens nothing.
- `TimelineEnds`: the last recorded change is the stage the deal is in.
- `TaskPerWin`, `Audited`: tasks and audit entries against the timeline, with
  `Settled`: who has a change in the timeline has written, and a win that still
  owes its entry has its change there.
- `RulesHeld`, `History`: `MCSpec => []DealRules`, `MCSpec => []HistoryUnbroken`,
  where `MCSpec` adds the history variable `disturbed`.  The invariant is
  `~disturbed => Undisturbed`: the one request under way has the row as it is,
  so its UPDATE leaves what its session had (`FlushedAfter`), and the log ends
  at the row or, between the two commits of a win, at what the win loaded.

`SalesProofs`, about `Matching`:

- `MatchAlwaysFound`: `MatchingSpec => []MatchIsFound`.  It holds of any two rows
  and not of the reachable ones only (`MatchFoundAlways`): a match meets every
  criterion (`MetCriteria`, one conjunct for each kind of criterion), and each
  filter of the search is implied by one of them.  Only the place needs the
  condition of the property: of two wanted places the analysis takes the city of
  one and the neighborhood of another (`OnePlace`, by counting).
- `FoundRuledOutKnowingly`: `MatchingSpec => []FoundIsRuledOutKnowingly`.  What is
  ruled out without a deal breaker meets no criterion at all, and the search has
  checked each but the three the property names (`RuledOutKnowingly`).  This one
  needs an invariant, `RequirementInv`: a feature is classed as one of the three
  classes or not at all.  Requests write over rows they read earlier, so the
  invariant says of each request that is about to write that what it carries is
  a class, a priority or a patch (`EditSound`).

`MembershipProofs`:

- `Owned`, `Entered`: `OrganizationsOwned` and `EntryMatchesInvitation`.  Neither
  is inductive: a request that is about to accept must still find its invitation
  addressed to it and to the organization it read (`AcceptSound`: address and
  organization never change), and one that is about to change a member must not
  find an owner there (`UpdateSound`: who has no row by then has lost the
  account, and never gets a row again).  `FoundersOwn` says that the role of
  owner and the founder's own organization go together and that every
  invitation is to an organization that exists.  The step that matters is an
  insert into `users`, `InsertedIInv`: where there was no row, no invitation
  names the account (it would have brought it in), so the one that is marked
  now is the first.
- `RosterImplemented`: `Spec => AbstractRoster!Spec`, one lemma per action, from
  the same invariant.  An acceptance is a `Join` because what it read is still
  what it writes (`AcceptSound`); a change of access is a stutter because it
  leaves the organization of a row and who owns (`RosterUpdate`, with
  `UpdateSound`), or finds no row and changes nothing; a request that loses the
  primary key leaves everything as it was, or the organization would be founded
  and the invitation used without a member.
- `Told`: the log's last change of role and last change of access are what the
  row is, although each change is compared with a row read earlier: columns
  nobody wrote since are as they were, and a column that was written has been
  recorded.  `HistoryInv` adds `Current`: a request that no change of role has
  overtaken still holds the member's role, so the role an access entry repeats
  is wrong only after such a change.

`AutomationProofs`:

- `Announced`: for any number of runs at once.  Inductive with `Owed`, which
  counts: the follow-ups of a showing are at most its announcements and the runs
  that are about to announce one, unless a restart, a deletion or a deleted
  account ended a run.
- `Deduplicated`: `Spec /\ []Alone => []NeverTwice`.  `Once` says that what the
  one run looked for and did not find is still not there.  `Alone` (one run at a
  time) is what APScheduler gives within a process; `AutoOverlap` shows that it
  cannot be dropped.

`RenovaChatProofs`:

- `WholeTurns`: a turn's two messages are inserted in one transaction and the
  unique constraint refuses a number taken meanwhile; `Knowing` says that the
  number a question computed is at most the next one.
- `Understood`: `Referring` keeps with each message how long the conversation was
  when its question was read, so what "which ones?" was read against is there.
- `InScope`: the action property `AnswersStayInScope`, since the two queries and
  the case a question refers to are each restricted to what the caller sees now.

`AgendaProofs`:

- `DatesHold`: the CHECK constraint for start and end; for the completion date,
  `Dating`: a request that completes a task has read a date or writes one, and
  no step takes a date away that it could have read.  An id is new when its row
  is created (`Fresh`; the code draws it at random), so no two creations meet.
- `NotesKept`: an answer that shows a completed appointment comes after the
  second commit.
- `FreshRun`: if nothing stamped changed during the call and no transaction was
  open when the fingerprint was taken, a fingerprint that is still equal means
  that the contact, its tasks, appointments and activities are those the agent
  was given.  `Telling` says that every change since is stamped later than the
  time of the fingerprint; then an equal latest stamp means that no row was added
  or changed, and an equal count that none is gone (`SameBucket`, `SameRows`: a
  subset as large as the whole is the whole).  For the parts without a stamp the
  same claim is false, and the theorem does not make it.

`BackupProofs`:

- `WholePlans`: a file under its real name is whole unless two runs took the name
  (`Placed`), and a plan reads a file that its checksum does not contradict
  (`Sound`): whole, and damaged only if the checksum was taken of the damage or
  there was none.
- `HolesOnly`: the action property `OnlyFillsHoles`, from the primary keys and the
  one transaction of `Apply`.
- `SavedFirst`: the long one.  As long as nobody else took its name, the snapshot
  of a run is in a file that is as far along as the run (`Saved`), or `--keep`
  later snapshots have been taken (`Ample`), and pruning dooms only names of
  which that is so (`Spared`).  It rests on names being only ever added
  (`MoreNames`): what is contested, or old enough, stays so, and the file that
  lies under a name nobody else took is the run's own.

`RenovaProofs`, about the composition of a case with its history:

- `OnTheMap`: no interleaving loses an accepted or purchased case from the
  operations map.  A write keeps the columns it did not change, so status and
  stage may come from two requests; what makes the row sound all the same is
  that the stage of the row is never behind what a pending request saw
  (`Checked`): whoever saw a stage leaves it or replaces it, whoever saw none
  writes one with the status.
- `HistoryTold`: what is not recorded was not changed (`Telling`), although an
  entry compares the loaded row with a refreshed one that others have written.
- `CaseKept`: the action property `AdvisorKeepsCase`, from the same invariant.

- `Typing`: `Spec => []WellTyped`, with `CaseTyped` for the row and `ShapeHeld`
  for the events.  An edit checks the row it read merged with its body, and
  writes the columns that differ over a row that others may have edited since;
  `Shaping` carries what still joins the two, that no edit changes the type of
  an event.
- `Counted`, `PastBackfilled`: action properties of entering an event, about
  `summarize()`: the number of attempts is the greatest one and an entry without
  a number takes the next (`Attempts`), and an event of the past is neither the
  next reminder nor the last call.
- `RulesKept`: the action property `CaseRules`: each derived column agrees with
  what it is derived from after a write over the row that was read.

Every other property of the runs is proved.  Only model-checked:

- `EveryRequestAnswered`, `SlotReleased` and `NothingForgotten`: they rest on
  fairness, about which TLAPS does not reason here.

## Not modelled

- The text of prompts, answers and notifications; what an agent concludes from
  a context; token counts and durations; the figures in a chat answer.
- Renova extraction and quick notes: stateless calls to the language model whose
  result goes back to the client.  Dashboard: read-only counts.  Calendar
  connections: a row per user over stubs.  Migrations, seeds and the offline
  evaluation, but for the backfill of the operation columns.
- The protected columns of a Renova case (one flag stands for them) and its INE
  images; the notes of a follow-up.
- Contacts, interests and features beyond their deletion and its effects: CRUD
  with an audit entry in the same commit.  Create and delete of properties and
  requirements for the same reason.
- Authentication, encryption, paging and the wording of errors: library calls
  and reads.  The isolation of organizations, which the code gets from
  filtering every query.
- Database outages, except where a failing commit leaves a row behind.
- In `Backup` the two reads of a plan (of the file and of the database) are one
  step, as are hashing a file and writing its `.sha256`; labels of the user's own
  (`--label`), so daily backups and safety copies are the two kinds of name.
- In `Agenda` the lists of requirements, interests, opportunities and properties,
  whose buckets work like that of the tasks; tasks and appointments that belong to
  a contact through an opportunity only; the limits of 20 and 1000.  The columns
  of a contact are one value, and those of its other references are part of
  `rest`.  The queries of `build()`, and those of the fingerprint, are one instant
  each, though each query is a read of its own.
- In `Matching` the limit of both lists and the state of a place; measures are
  two: the budget and any other.
- The status `queued` of an execution, which nothing writes, and
  `update_opportunity_stage` of the automation, which nothing calls.

A row of `agent_executions` that says running after its process died stays so
for good: there is no lease or sweep.  The properties name that exception
(`pc = "lost"`) and the slot of that contact and agent stays blocked until the
contact is deleted.
