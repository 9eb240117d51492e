# SEO Suite: TLA+ specifications

Specifications of the concurrent and stateful parts of SEO Suite, a Flask
application that audits web pages and checks whether they are indexed. It runs
as one process (gunicorn, one worker, eight threads), so that everything below
is a matter of threads, events, locks, queues and files, and of the process
being killed and started again.

`PROJECT.json` lists components, runs, mutants, theorems, findings and hazards,
and maps each definition to the source lines it stands for.

## The system

| component | state | operations | what is hard about it |
|---|---|---|---|
| audit runs (`app/blueprints/audit.py`, `app/state.py`) | `_audit_status`, `_audit_cancel`, `_audit_paused`, two result buffers, report files | run, cancel, pause, resume; worker thread; a pool task per URL | check-then-claim races, cancel against pause, cancel against results in flight, early returns, killed between two files |
| indexing runs (`app/blueprints/indexing.py`, `app/state.py`) | `_index_status`, `_index_cancel`, `_index_paused`, `_last_index_run` | run, retry, cancel, pause, resume; worker thread; callback per URL from each browser tab | reset by the worker instead of the claim, retry from a stale snapshot, callbacks of several tabs |
| progress streams (`app/state.py`, `api_*_stream`) | subscriber lists, one bounded queue per subscriber | subscribe, broadcast, sweep, stream generator | slow and vanished readers, eviction, the terminal message |
| index checker (`core/checker.py`) | progress files, history file, rate limiter, per-run rows and counts | `run_check`, `check_parallel`, `execute_and_save`, scheduler | resume after a crash, dead tabs, shared temporary file |
| accounts (`core/auth.py`, `core/db.py`, `auth_views.py`) | `users`, `_users_lock` | signup, create, delete, self-delete, change password | last-admin guard with and without the lock, failing reads and writes |
| e-mail tokens (`core/db.py`, `auth_views.py`) | `auth_tokens` | issue, peek, consume, expire | single use under races, crash between two transactions |
| login and lockout (`core/auth.py`, `core/db.py`, `auth_views.py`) | login attempts, in-memory failure counts | login, logout | two stores of failed logins |
| sessions, two-factor (`core/db.py`, `core/totp.py`, `auth_views.py`) | `sessions`, `totp_secrets` | create, validate, revoke; enrol, activate, verify, backup codes | backup codes used twice at once, idle expiry |
| settings and profiles (`settings.py`) | `config.json`, `CFG`, `profiles.json` | read, merge, write, test, upload | unlocked read-modify-write, truncated file |
| reports and PDF (`reports.py`) | report files, PDF semaphore | list, preview, delete by stem, export | deletion against use, semaphore released on every way out |
| single-URL audit (`core/seo_audit.py`, `tools/phase1.py` to `phase4.py`) | page and robots caches, `rank_history.json` | `audit_single_url`, the checks, `calc_seo_score`, `compare_audits` | thresholds, missing keys, caches and a file shared by pool threads |
| stand-alone tools (`tools/quick_tools.py`) | none; a pool per request | one function per tool, `broken_link_checker` | a time limit against threads that finish |
| scoring (`issue_scoring.py`, `page_type.py`) | none | `score_issues` | rounding, ordering |
| other tools, generators, external services, notifier | none | request/response | pure I/O |
| web shell (server, middleware, metrics, security) | metrics registry | hooks | none of its own |
| dashboard client (`dashboard.js`) | page state | start, subscribe, cancel, reload | the terminal message may precede the subscription |

How they interact: request handlers claim a run and start its worker; the
worker and the handlers broadcast to the streams through `_audit_queue` and
`_index_queue`; the audit worker calls `audit_single_url` from pool threads, the
indexing worker calls the checker, which calls back once per URL; runs read
`config.json`, which settings write; reports are files that runs write and the
reports blueprint lists and deletes; every handler but login is behind a
session.

What makes each part correct, in order of importance:

* audit and indexing: one run at a time; a cancellation reaches the run it was
  meant for, promptly; nobody sees results of another run; a complete run
  reports on all its URLs; the slot is given back on every way out and the
  streams are told;
* streams: bounded registration; no gap; the terminal message is the last one;
  leaked registrations are reclaimed;
* checker: a check has a row for each of its URLs; counts agree with rows; what was found
  is not lost to a kill, another check or a second answer;
* accounts: somebody can always administer; lockout can not be outrun; a token,
  a backup code and a session are each worth what they say, once;
* settings: a masked form stores neither the mask nor nothing; a file is readable unless
  two writes met;
* reports: what is on disk can be seen and deleted, at last also beyond the cap of the
  list; exports never run out of permits;
* audits: a worse page gets no better verdict and no better score; nothing older than
  the caches allow; what was asked for yields a result or a notice.

## Modules

| module | what it is |
|---|---|
| `RunSlot` | the abstract promise of a run: one slot, a request to stop that is remembered and leaves it only so many results, a buffer that belongs to the run |
| `AuditRun`, `MCAuditRun` | the audit subsystem thread by thread; `ImplementsRunSlot` is its refinement of `RunSlot` |
| `IndexRun` | the indexing subsystem with the live status map; it implements `RunSlot` too |
| `SseHub` | queues and stream generators |
| `Dashboard`, `MCDashboard` | `SseHub` composed with runs that broadcast, cancel handlers and browser tabs |
| `Checker` | one check after another over progress, history and report files |
| `UrlSources` | where runs get their URLs: the crawl and nested sitemaps |
| `RateLimiter` | the token bucket in front of Search Console |
| `AccountBook` | the abstract promise of the account store: every change of an account is one step |
| `Accounts`, `MCAccounts` | the users table and the mailed links under concurrent requests; `ImplementsBook` is its refinement of `AccountBook` |
| `Lockout` | failed logins in memory and in the database |
| `SignIn` | one account: passwords, two-factor login, sessions |
| `Settings` | `config.json`, the live `CFG` and `profiles.json` under overlapping saves and kills |
| `Reports` | report files under runs, deletions and exports; the PDF semaphore |
| `Verdicts`, `SafeRequests` | the verdict of a check; the wrappers that follow redirects |
| `PageChecks`, `ServiceChecks` | what each check of `phase1.py`, and of `phase2.py` to `phase4.py`, decides |
| `SeoAudit` | tasks, use cases, notices, score and comparison of `core/seo_audit.py` |
| `QuickTools` | the stand-alone tools of `quick_tools.py` that judge a URL |
| `Worsening` | when one finding of a check is worse than another; nothing of verdicts or thresholds |
| `PageAudits`, `MCPageAudits` | cases for all of these, and the properties of their verdicts |
| `PageCache`, `RankHistory` | the caches of pages and robots files; the file of ranks |
| `LinkCheck`, `MCLinkCheck` | the broken link checker: pool, collection, time limit |
| `MCIndexSignIn` | one instance of `IndexRun` and of `SignIn` |
| `MCIndexLockout` | one instance of two that have to end by themselves, `IndexRun` and `Lockout` |
| `MCParts` | one instance of the other parts that share no state |
| `AuditRunProofs`, `IndexRunProofs`, `AccountsProofs`, `SignInProofs`, `CheckerProofs` | theorems about the module of that name |
| `SseHubProofs` | theorems about `SseHub`, and about `Dashboard` as an implementation of it |
| `StoreProofs` | theorems about `RateLimiter`, `RankHistory`, `Settings`, `PageCache`, `Reports`, `Lockout` |
| `SiteProofs` | theorems about `UrlSources`, `LinkCheck`, `PageAudits` |

### RunSlot

The contract of `ARCHITECTURE.md` and of the docstring of `audit.py`, with no
threads in it. A run takes the free slot (`Begin`), whoever likes asks it to stop
(`Stop`), it takes in results (`Collect`) and frees the slot (`End`). `Grace` is
how many results may still come in once it was asked to stop: those in somebody's
hand. An audit run consumes its futures one by one, and so promises one. The
callbacks of an indexing run have looked at the flag each for itself, one to a tab,
and so it promises as many as there are tabs.

Two things an indexing run does not promise are in its mapping (`Heeds`), not in
`RunSlot`: a request to stop that comes before the worker has cleared the flag is
forgotten (`indexing.py:258`), and a retry does not heed it at all. Since the live
map holds what earlier runs recorded until the worker resets it, the buffer is left
out of that mapping; `LiveMirrorsRun` speaks of it.

### AuditRun

A step is what happens between two accesses to shared state: one section under
`_lock`, one operation on an `Event`, one file. Request threads (`hpc`) walk
through the handlers; each run has a worker (`wpc`) and each of its URLs a
future (`fut`), which is also the control point of the pool thread executing
it. `Event.set` wakes all waiters at once (`Awake`), even if the event is
cleared before they run. `full` stands for both export buffers, which the code
fills in the same section and bounds alike. The set of URLs is chosen by
`FetchUrls` and `SubmitUrls`; whether an audit returns or raises, whether a
workbook or a sidecar is written and whether the configuration can be read are
choices. `Restart` may happen at any time and keeps files only.

The model numbers the runs and keeps three records that the code does not have:
results taken in after cancellation (`late`), terminal messages (`announced`)
and metrics (`recorded`) of each run.

### IndexRun

The same handlers with other details: the claim touches neither the cancel
event nor the live map, which the worker resets once it has its URLs; a retry
claims the slot with a list it picked earlier and skips both the pause and the
cancel flag in its callback. A URL of a run is a process (`task`): it is
reported by a tab under the next row number, waits while paused, looks at the
cancel flag, and records its status in `_run_results` and the live map. A status
is one of the two classes `_is_error_status` tells apart. URLs in a run are
taken to be distinct. `asked` and `due` are records of the model.

### SseHub

One action per section under `_sub_lock`, and the generator's steps. Messages
are numbers into the log of what was broadcast; a connection that was answered
but whose body was never asked for is `abandoned`, one whose browser is gone is
`left` until a write fails. A ping has no effect but to make that write happen.

### Checker

What a run of `IndexRun` hands its URLs to: `execute_and_save` and, inside it,
`run_check`. There is one check at a time. `Begin` reads the progress file and
spreads what is left over Search Console, one tab or several; `CheckUrl`,
`AskGsc` and `Defer` enter a result in the section under `_result_lock`
(`OnResult`), every `SaveEvery`-th of them saving progress; a tab that raises
drops the rest of its batch (`TabDies`); `Retry` is the second pass, which only
the single tab has; the remaining actions write the report files one by one.
`Abandon` kills the process, or lets the browser fail, between any two of them.

A URL is a number, ordered as the strings are. A check is given a list, in any order,
which may name a URL twice: neither the sitemap reader nor a form removes
duplicates. Queues hold positions of that list, so that such a URL is asked twice and
has two rows. (`IndexRun`, which has the callbacks and the live map, takes its URLs to be
distinct.) A progress file is named by the hash of the first three of the sorted list;
here the name is those three (`Key`), so that two lists share a file exactly when they
do in the code, hash collisions aside. A status is `Indexed`, `NotIndexed`, `Error` (time-outs and
browser errors, which `run_check` treats alike) or `GscFailed` (the text of a
failed inspection, which it takes for neither). Removing a file that was just
written succeeds. Without openpyxl (`HasXlsx`) there is no workbook. `byType` is the
summary by page type with its types added up: a first answer enters it as it enters
`counts`, the second pass changes `counts` alone. Left out: notification, logging, how a
status is found, and the scheduler, which calls what is modelled once a day.

### UrlSources, RateLimiter

`crawl_site` is a queue, `fetch_sitemap_urls` a recursion that is modelled as the
stack of calls still to make, so that a step is one page or one sitemap. The web
is a constant graph chosen at the beginning: a page that does not answer with
HTML is `Dead`, a sitemap is dead, lists URLs, or lists sitemaps. `cut` records
that something was left out because it was too deep or the queue too long.

The bucket counts in parts of a token, `Unit` to a token and `Rate` to a tick, so
that a tick need not be a whole token. A turn of the loop in `acquire` is one
step (`Grant` or `Sleep`), because the bucket's lock is held for it; sleeping is
outside the lock, and a sleeper that comes back may find the token taken.

### Accounts

Each request is a process, whose control point is `req[r].stage`. A request of
`create_user`, `delete_user` or `change_password` takes `_users_lock`, reads the
users and checks (`Begin...`), then writes one row and gives the lock back
(`Finish...`). `api_delete_my_account` makes the same check and a longer write
without the lock (`BeginWipe`, `FinishWipe`). A link goes from `new` through
`Issue` to `live`, and from there to `spent`, `expired` or `gone`; using it is
`Peek`, `ConsumeRead`, `Spend` and `Apply` for a reset, and the same without the
peek for a verification.

SQLite is modelled by what it promises in WAL mode: a statement on its own and a
transaction are atomic and survive a restart; a transaction that began with a
read cannot write once somebody else has committed. That is what makes
`consume_auth_token` a check-and-set, and `stale` is how the model says it:
every commit marks the requests that are between their SELECT and their UPDATE,
and a marked one can only fail. Whether an account is an administrator and
whether its address is verified are columns of `users` (`admins`, `verified`).
`WriteFails` is a write that is refused because the database stays locked, which
the code answers with an error or, in `delete_user`, with success.
`BeginBlindly` is a read that fails, which `load_users` answers with an empty
dict: deletion and password change then refuse, and only `create_user` goes on.

The model keeps two records that the code does not have: `used`, how often a
link changed an account, and `overlapped`, that a removal ended while another
was between its check and its write. Left out: what a password is (a request
with a wrong or weak one changes nothing here), the JSON backend and the import
of its file, the environment administrator's own name, sending the mails. A
session may outlive its account, so that a verification can be asked for a name
without a row.

### AccountBook

What `Accounts` implements: sign-ups under a free name, removals that leave an
administrator, links that are mailed to one user for one purpose and change that
account once. Three things the store does besides are steps of their own, so that
nothing else may do the like: a sign-up that could not read the accounts may
take one over (`LookFails`, `TakeOver`), a password change may bring back an
account that was deleted while it ran, with the rank it had (`Return`), and removals
may overlap, after which nothing is promised of administrators. The mapping is
of three sets, computed from the requests under way: `Mailed` from the links, `Blind`
from the sign-ups that looked and saw nothing, `Returning` from the rows that
`change_password` holds of names that are gone.

### Dashboard

The composition of `SseHub` with what uses it. `slot` is a run reduced to its
phases (working, told the streams, slot free); `tab` is the audit tab of a page:
idle, posting, answered, watching, done. The POST and the subscription are two
steps (`PostOk`, `Connect`), a cancellation is a click (`Cancel`) and, later, the
handler's message (`Announce`), which may fall into the next run. `origin` records
of each message of the hub which run it is about and who sent it.

### Lockout, SignIn

`Lockout` is one name: counts of failures by age, in memory (`failed`) and in
`login_attempts` (`attempts`), and clients that look (`Enter`, `Check`), verify,
and record (`CountFailure`, `RecordFailure`) in separate steps. Age stands for time;
`Window` ticks make a failure old. Writes to the table may be lost, up to `MaxLost`.
A look at the table may fail, which `count_recent_failures` answers with 0 and
`_is_locked_out` takes for "not locked" (`db.py:580-582`, `auth.py:188-190`): every
look is `Locked(readable)` for a chosen `readable`. `blind` counts the requests that a
locked name let through for that reason, up to `MaxBlind` of one age, and `recent`
the passwords refused since the memory was emptied. The other places that check a
password (`auth.py:703`, `auth_views.py:604` and `1021`, for which one must be signed in)
count nothing in the code, and `guesses` does not count them; with
`SEO_SUITE_USERS_BACKEND=json` the table is never asked, which is not modelled.

`SignIn` is one account and the devices that use it. Passwords are numbered in the
order in which they were stored. The steps follow the reads and writes of
`authenticate`, `login`, `login_totp`, `create_session`, `change_password`,
`api_change_password`, `enroll`, `activate` and `consume_backup_code`; the last of
these is a SQLite transaction that reads before it writes, and fails if another
write came between, as in `Accounts`. `hist` records which password
revoked sessions last, which secrets were proved and how often a code was used.
Whether a code is right is a choice.

### Settings, Reports

A save of `config.json` is read and merge, truncate, write, load, clear, update;
each may interleave with another and with a kill. A file that is read between the
truncation and the write is `Empty`; two writers may leave it `Mixed`. A secret key
and a plain key stand for all others. `crossed` records that two writes, or a write
and a kill, met. Which secret was typed last of those that got into the file is
recorded too (`typed`, `newest`), and which saves under way read the file before it did
(`behind`): when one of them writes, it takes the older secret back (`reverted`).

In `Reports` a deletion reads the directory once (`Glob`) and unlinks what it found
file by file; a run writes HTML, workbook and sidecar meanwhile. `torn` records
stems of which a deletion met the run, was killed, or could not unlink. `stems` is the
order of the runs, which their names, timestamps, give. `Listed` is what `api_reports`
shows of the audits: the newest `MaxListed` (20) that have their HTML, and as many
of those with a sidecar alone.

### The audit of a page

A check is an operator from what a page, a site or a service answers to a verdict
(`pass`, `warning`, `fail`, `error`, or `crash` where the code lets an exception
through). Its argument is a record of the facts the verdict depends on, counted or
measured where the code compares them to a threshold; how they are found in HTML,
DNS and JSON is left out. Percentages are exact fractions rounded as the code rounds
(`Rounded`). `SafeRequests` walks redirects, with another network at the second
look, and is what most checks and tools fetch through.

`SeoAudit` says which tasks an audit runs for the use cases, filters and keys of a
request, which notices it leaves, how results are weighed, and what `compare_audits`
calls resolved or new. `PageAudits` enumerates cases, one state for each: a ladder of
findings, each worse than those before, for a check; a graph of canonical pages;
two audits of the same URL; a request; a network of redirects.

`Worsening` says of each check what is worse, in terms of its facts: more of a fault,
less of a good thing, a value further down a list, and what two findings must have in
common to be compared at all. It leaves open what no order is plain in (a title that is
too long against one that is too short). It is an assumption of `PageAudits` that
ladders are ladders in this sense, and TLC evaluates it for each pair of rungs.

`PageCache` has the two caches with their times to live and bounded size, several
checks at once, fetches that take time (`MaxCheckTime`), and sites that change.
`RankHistory` has `rank_change` in several pool threads reading, truncating and
writing one file. `LinkCheck` has the pool of `broken_link_checker`, its futures, the
loop over those that are done, the clock that ends it, and the loop that gives up the
rest; `early` records what was done when the time was up.

## Runs

| run | shows | instance |
|---|---|---|
| `audit_safety` | safety of `AuditRun`, who holds the slot, and the refinement of `RunSlot` | 2 requests, 2 runs, up to 2 URLs, pool of 2, buffer of 1; 5.7 million states |
| `audit_live` | a run gives the slot back unless somebody pauses | 2 requests, 1 run, 2 URLs, pool of 1 |
| `audit_cancel_paused` | violated: a pause in flight during a cancellation blocks the cancelled run | 1 URL |
| `index_and_sign_in` | safety of `IndexRun`, for runs and retries, and its refinement of `RunSlot`; of `SignIn`: old passwords are out, codes work once, enabled secrets were proved, changes are serial | 2 requests, 2 runs, up to 2 URLs, 2 tabs; 2 devices, 2 sessions, 2 secrets, 1 backup code, 3 passwords; 2.8 million states |
| `index_and_lockout_end` | a run or retry gives the slot back unless somebody pauses; a lockout ends, and guesses in a window are bounded | 1 request thread, 2 runs, 2 URLs, 2 tabs; 2 clients, threshold 2, window of 2, 2 failures of one age, 1 lost write and 1 blind look of one age; 820 thousand states |
| `dashboard` | streams without a gap, whose end a tab is told, that it is told, that places are reclaimed | 2 tabs, 2 connections, 2 places, queues of 1, 2 runs, 1 progress message, 1 cancellation |
| `accounts` | safety of `Accounts`: administrators, links, and the refinement of `AccountBook` | 3 users, 2 requests at a time, 2 links, no administrator in the environment; 650 thousand states |
| `parts` | `Checker`, `Settings`, `Reports`, `PageCache`, `RankHistory`, `LinkCheck`, `UrlSources`, `RateLimiter` and all cases of `PageAudits`, one at a time | see below; 1.8 million states |
| `silent_section` | violated: with the shipped configuration the Search Console section of an audit leaves neither result nor notice | 1 audit |
| `redirects_unseen` | violated: a page that redirects passes both checks of redirects | networks of 2 URLs |
| `secret_untouched` | violated: of two saves at once, one whose secret is masked puts an older secret back | 2 threads, 2 values |
| `links_lost` | violated: a link that was done when the time was up, and not collected, is missing from the answer | 2 links, 2 threads |

`MCParts` lets one part take steps and keeps the others still. As they share no
variable, that loses no behaviour of any of them, and one run serves for all.
`MCIndexSignIn` and `MCIndexLockout` pair two modules in the same way. The latter
assumes the fairness of both; it asks nothing of the part that is kept still, which
has no request to go on with and nothing that gets older.

What each property of `parts` says:

| property | module | in short |
|---|---|---|
| `ReportsWhole` | `Checker` | rows, counters, results and files of a check agree, also after tabs died and reports failed; the summary by type agrees while nothing failed |
| `LossBounded` | `Checker` | a kill before the progress file is deleted loses fewer results than a batch, one after the CSV is written loses none; in between, nothing is promised, for there a kill loses all of them |
| `VerdictsAreFinal` | `Checker` | a verdict, found or resumed, does not change while the check lasts, except that of a URL the list names twice and the progress file did not resolve |
| `OthersProgressKept` | `Checker` | checks that share a progress file leave alone what it says of the other's URLs, until one is through and deletes the file |
| `SecretKept` | `Settings` | the secret in a file that can be read is one that was typed, never the mask or none, and the one typed last unless a save wrote that had read an older file |
| `ReadableUnlessCrossed` | `Settings` | files are readable unless two writes met |
| `ReportsManaged` | `Reports` | what a deletion leaves is listed, or will be once newer reports are deleted; no PDF permit is lost |
| `WorseIsNotBetter` | `PageAudits` | no check, tool or service check judges a worse case better; 68 ladders of cases |
| `CyclesFound` | `PageAudits` | `canonical_loop_check` finds exactly the cycles within its hops |
| `AuditsFair` | `PageAudits` | a worse verdict does not raise the score, a check that could not run leaves it alone, comparisons are symmetric |
| `StaleBound` | `PageCache` | how old what a check reports may be |
| `HistoryKept` | `RankHistory` | audits that do not overlap lose no ranks |
| `LinksReported` | `LinkCheck` | each link is reported once, as found; after the time limit perhaps as skipped, and missing only if its probe was done and not collected |
| `SourcesComplete` | `UrlSources` | a crawl that met no limit has exactly the pages within its depth; sitemaps that lead to each other are read once and completely |
| `QuotaKept` | `RateLimiter` | calls of Search Console never exceed the burst and the time that passed |

Why the bounds are enough. Two requests are needed for every race of two
handlers, and the second can stand in for any number, since a handler that lost
a race changes nothing. Two runs are needed for anything one run leaves behind
for the next. Two URLs give a result in hand while another completes and, with a
pool of one, a queued task that a cancellation drops; the buffer of one makes
the bound bite at the second result. In `Checker`, two checks are needed for one
to resume or to share a file with the other; lists of one to three positions over two
URLs are the fewest that leave a result unsaved after a save, fill two tabs unevenly,
name a URL twice and let two different lists have one name; the history overflows at
the second check. In
`Dashboard`, a queue of one overflows at the second message, two runs let a late
subscription or cancellation meet the wrong one, and two connections on two places
let a leaked one keep a place.

In `Accounts`, three users are an administrator to be removed, the one he relies
on, and somebody left behind; two requests make every race of a check with a
write; two links are what one supersedes the other with. In `SignIn`, two devices
make every race of two requests; three passwords are the one logged in with, the
one that replaces it, and one by mail in between; a second secret is what an
enrolment puts in the place of the first. In `Lockout` two clients pass the same
check, and two failures, in a window of two, can straddle its end; a lost write and a
blind look of each age show what either adds.

In `Settings` and `Reports` two threads and two stems or profiles give every pair of
writers; a list of one report is full when there are two. `PageCache` has one entry for two sites, so that each store evicts; times to
live of two ticks, and fetches of up to one, cover a store that is late.
`RankHistory` needs two threads for a lost update. In `LinkCheck` of four links three
are probed by two threads, so that links are at once beyond the cap, queued, running
and done when the time is up. Sites of four pages with up to two links each, and
three sitemaps of up to two others, contain every cycle, detour and shortcut of that
size, among them a page first met beyond its shortest distance. The bucket holds two
tokens and a third, fills by two thirds a tick, and the clock runs long enough to
empty it and fill it again. The ladders have a rung on each side of every threshold.

The theorems remove the bounds for what they state.

The bounds that exist only in the model are `MaxRuns`, `MaxMessages`, `MaxProgress`,
`MaxCancels`, `MaxChecks`, `MaxAttempts`, `MaxLost`, `MaxBlind`, `MaxPassword`, `MaxClock`, `MaxTicks`,
`MaxCheckTime` and the sets `Links`, `Sids`, `Secrets`, `Codes`; the others are
parameters of the code, made small.

Fairness. The runs have weak fairness of each handler once it has begun, of each
worker, pool thread and tab: the interpreter schedules threads that can run, and
audits, page loads and API calls carry time-outs. Nothing is assumed of users: they
need never resume, cancel or start anything. In `Dashboard` runs end (which
`audit_live` shows), a browser that is connected reads, and the sweep comes round
every five minutes (`time.sleep(300)`); nobody need click or reload. In `Lockout`
time passes, and requests that were begun go on. Deadlock checking is off where the
instance may stop by its bounds: the log of messages, the number of checks, stems.

## Proofs

`AuditRunProofs` proves, for every number of URLs, requests and runs, every pool
size and every bound of the buffer (`AuditAssumption`, with the set of URLs
finite):

| theorem | states |
|---|---|
| `Typing` | `TypeOK`, with `HandlingInv` |
| `Exclusion` | `OneRunAtATime` |
| `PrimaryReport` | `NoOrphanCompanion` |
| `Farewell` | `EndAnnounced` |
| `PromptCancel` | `CancelWithinOne` |
| `FreshBuffers` | `ResultsOfThisRun` |
| `FullReport` | `EveryUrlAccounted` |
| `Counters` | `CountersAgree` |
| `SlotIsHeld` | `SlotHeld` |
| `Refinement` | `ImplementsRunSlot` |

The argument rests on two strengthenings. `OneRunAtATime` is not inductive: a
claim succeeds because the flag is down, and that no worker is alive then has to
be part of the invariant. `SlotInv` says so: whoever claims or works does it for
the run numbered `begun` and with the flag up, and there is only one. `CancelInv`
makes `CancelWithinOne` inductive: while the cancel flag is down nothing was
late, and a worker about to append has not been late yet, for it looked at the
flag just before. `ReportInv` says that once a worker is past the HTML report
the report exists. `CountInv` is what makes the counters agree: a result the worker
holds is of a future it has taken, it has taken no more than were submitted, the
buffers hold only what this worker has offered them, and whoever is about to claim
the slot finds both at nothing; the equations themselves are carried for all runs at
once. The refinement needs `SlotInv` (ending a run frees the slot
of the run that holds it) and `CancelInv` (a late result is the first one).
`SlotHeld` says the other half of exclusion: not only are there never two holders, a
slot that is taken has one, who will give it back, or it was left by the one fault the
code has there, a `load_config` that raised after the claim (`audit.py:160`). It is
proved from `SlotInv` and from what each way out of the worker leaves.

`IndexRunProofs` proves the same way, for every set of URLs, every limit, every
number of tabs, requests and runs (`IndexAssumption`):

| theorem | states |
|---|---|
| `Exclusion` | `OneIndexRun` |
| `Typing` | `TypeOK` |
| `MapMirrorsRun` | `LiveMirrorsRun` |
| `OthersKept` | `RetryKeepsOthers` |
| `PromptCancel` | `CancelWithinTabs` |
| `Refinement` | `ImplementsRunSlot` |

Here the claim starts the worker at once, so that `OneIndexRun` can say that the flag
is up exactly while a worker is alive, and `SlotInv` speaks of workers only. `MirrorInv` is what the live map needs: a callback is under way only while
the worker of its run waits for the checker (`RunInv`), so that the map has one
writer at a time; results are of URLs the run was given, and there are none
before the reset. That `TypeOK` holds depends on it, because a merge keeps one
status to a URL only if results are of retried URLs. `CancelInv` counts: while
the flag is set, `due` is the number of callbacks that are past their look at
it, they belong to one run, and that run occupies at most `Tabs` tabs. That count is what
the refinement shows as `grace`: each callback that records its result after the
cancellation takes one from it, and a callback that has not looked yet takes none.

`SseHubProofs` proves, for any number of connections, bound on subscribers, size
of queues and number of messages (`HubAssumption`):

| theorem | states |
|---|---|
| `Typing` | `TypeOK` |
| `Bounded` | `SubscribersBounded` |
| `NoGap` | `GapFree` |
| `LastWord` | `NothingAfterEnd` |
| `HubImplemented` | `DashboardSpec` implies `Spec` of the hub |
| `DashboardTyping` | `DashboardTypeOK` |
| `OwnEnd` | `EndIsOwn` |

`StreamInv` states the gap-free stream in two runs of consecutive numbers, what
was delivered and what is queued; the lemmas `RunAppend` and `RunTail` say what
a broadcast and a delivery do to a run. `EndInv` adds that a generator which has
not left its loop has delivered no terminal message.

By `HubImplemented` every step of the composition is a step of the hub or leaves it
alone, so that the three theorems about streams hold of the dashboard too. `OwnInv` is
why a tab that is told of the end is told of its own run's end: it has a stream only
while it watches, the run it asked for has been claimed before, and messages after
its subscription are of that run or a later one unless a cancellation sent them.

`AccountsProofs` proves, for any number of users, requests and links, with or
without an administrator in the environment (`AccountsAssumption`):

| theorem | states |
|---|---|
| `Typing` | `TypeOK` |
| `CreateIsFresh` | `CreateOverwritesNobody` |
| `RankIsKept` | `RankKept` |
| `AdminRemains` | `LastAdminKept` |
| `OneLive` | `OneLiveLink` |
| `SingleUse` | `UsedOnce` |
| `Refinement` | `ImplementsBook` |

`Shape` says that exactly the requests between a locked check and its write hold
the lock. `AccountInv` is what the lock buys: a name to be created stays free,
and a row to be written back keeps its rank, because no other request adds a
row; rows may disappear meanwhile, which does no harm. `AdminInv` strengthens
`LastAdminKept` to requests on their way: whoever is about to remove an
administrator leaves another, until a second removal gets in between
(`overlapped`), which is where the guard without the lock fails. `UseInv`
says who may still use a link (`Claim`): nobody has used a link that is not yet
spent, a request that is past `Spend` is the only one (`Apart`), and one that has
read the link as live is stale or the link still is.

The refinement has to keep three sets in step with the book, which are comprehensions
over all requests. `LettersKept`, `RowsKept` and `MailedKept` say when a step leaves
them alone or only takes something away, `OneRow` and `RowsAre` what is in them while
the lock is held, since `Shape` has one request at most at each of these stages. Every
step of a request then falls into one of a few kinds (`QuietBook` for what changes no
account, `BeginBook`, `EndBook`, `IssueBook`, `ApplyBook`).

`SignInProofs` proves, for any number of devices, sessions, secrets, backup codes and
passwords (`SignInAssumption`):

| theorem | states |
|---|---|
| `Typing` | `SignInTypeOK` |
| `SerialChanges` | `ChangeIsSerial` |
| `CodesOnce` | `CodeOnce` |
| `SecretsProved` | `EnabledSecretProved` |
| `OldSessionsOut` | `OldPasswordOut` |

What a step of one device does to the requests of the others is at most to mark them
(`Becomes`, `Handled`). `Serial` says that the request between the check of the
current password and the write of the new one holds the lock, and that what it
checked is the newest hash or the request is marked. `Unspent`: a code in the table
was never used, and a transaction that nobody made stale will find its code there.
`Proved`: a request that activates has proved its secret, and the table has that
secret, or none, or was crossed. `OldPasswordOut` needs four parts (`Sessions`): the
last revocation concerned a password that exists (`Cuts`); a session row belongs to
one cookie (`Owned`); whatever signs a device in, or will, is `Fresh`, from the
request that verifies the password through the half-finished two-factor login to
the cookie; and a request that revokes the others' sessions on behalf of an outdated
password has lost its own (`Guarded`).

`StoreProofs` proves about the smaller stores, for any number of threads and clients
and every bound (`RateAssumption`, `RankAssumption`, `SettingsAssumption`,
`CacheAssumption`, `ReportsAssumption`, `LockoutAssumption`):

| theorem | module | states | inductive with |
|---|---|---|---|
| `Quota` | `RateLimiter` | `QuotaKept` | what is in the bucket and what was granted: together at most the burst and the ticks up to the last turn |
| `WindowQuota` | `RateLimiter` | between any two moments no more is granted than the capacity and what the time between them refills | the same from a moment that is remembered (`Since`) |
| `RanksKept` | `RankHistory` | `HistoryKept` | `RankInv`: while audits did not overlap, one at most is busy, and it has read all that is owed |
| `SecretStays` | `Settings` | `SecretKept` | `SecretsHeld`: whatever a thread is going to write or load has a real secret, too; `NewestHeld`: a save with a masked secret that has read the file since the last typed one was stored writes that one, any other is noted as `behind` |
| `FilesReadable` | `Settings` | `ReadableUnlessCrossed` | `OpenAlone`: while writes did not meet, the open file is as empty as its writer made it |
| `StaleBounded` | `PageCache` | `StaleBound` | `EntryOK`, `OneEntry`, `CheckOK`: how old entries and looks under way may be, one entry to a site |
| `ReportsStayManaged` | `Reports` | `ReportsManaged` | `RunOK`, `DeletionOK`: a run that has got past the HTML has it, a deletion has all that is left of a report before it; the permits given out are those of the exports |
| `LockoutTyping` | `Lockout` | `LockoutTypeOK` | |
| `Guesses` | `Lockout` | `GuessesBounded` | `Covered` and `Bounded` for every shorter window |

`GuessesBounded` is about the whole window, which moves, and so is not inductive. For
the last k ticks, `Covered(k)` says that refused passwords are in the table, lost or
on their way to it, until the table has as many as the threshold; `Bounded(k)` leaves
room for every client that has looked and not yet guessed. A tick turns k into k + 1.
The argument uses the table only: the counts in memory could be missing. What the
table let through while it could not be read is counted (`blind`). The second half of
`GuessesBounded` uses the memory only (`Remembered`, `RecentBounded`), and so holds
whatever the table does, but only from one moment at which the memory is emptied to the
next: after a restart under a database that stays unreadable the code counts afresh, and
so does the bound.

`CheckerProofs` proves, for any lists of URLs, with or without duplicates, any number of
tabs, saves and checks, and with or without openpyxl (`CheckerAssumption`):

| theorem | states |
|---|---|
| `Typing` | `TypeOK` |
| `WholeReports` | `ReportsWhole` |
| `LittleLost` | `LossBounded` |
| `FinalVerdicts` | `VerdictsAreFinal` |
| `OthersProgress` | `OthersProgressKept` |

All five rest on `CheckerInv`. Its parts: a position is in one queue at most, and only
while its URL has no verdict or is named twice (`QueueInv`, from which a verdict is final); what the second
pass will visit failed and has its row (`SecondPassInv`); while no tab has died, a URL
is queued or has a row, and counts are those of the rows (`RowInv`); the results not
saved are no more than the counter of saves has moved since the last save, and what
is not of the list is in the progress file as it was found (`ProgressInv`); which
files exist at which point (`FileInv`).

`SiteProofs` proves, for any sites, sitemaps, links, pages and audits
(`SourcesAssumption`, `LinkAssumption`, `AuditsAssumption`, `ChecksAssumption`):

| theorem | module | states |
|---|---|---|
| `Sources` | `UrlSources` | `SourcesComplete` |
| `Links` | `LinkCheck` | `LinksReported` |
| `Cycles` | `PageAudits` | `CyclesFound` |
| `FairAudits` | `PageAudits` | `AuditsFair` |
| `Worsened` | `PageAudits` | of two findings the worse one gets no better verdict |
| `Graduated` | `PageAudits` | `WorseIsNotBetter` |

`CrawlInv` is that of a breadth-first search: the queue is sorted and spans two depths
at most, what is queued is as near as it is believed to be, and the links of a page
that is seen are seen or queued no deeper than they lie. `MapsInv` is the same for the stack of sitemaps.
`LinkInv` says where a row may come from (`RowOf`) and which links, after the time was up,
may have none. The others state what functions
compute: that the code's loop over canonical pages, which stops at the first page met
twice, fails exactly if the walk without the loop runs into a cycle within the hops; and that the score moves with the
verdicts, over every set of results, with its rounding.

`Worsened` is about all checks, tools and services of which `Worsening` has an order,
68 in all, and about any two findings: any numbers, lists and sets. Each check has a
step or a lemma, which follows the order to the numbers that are compared. Where those
are counts of issues, `HowManyGrows`; where they are rounded quotients, `RoundedGrows`,
from which rounding keeps the order also in the middle between two numbers; for the
metrics of `performance_opportunities`, grade by grade (`GradeWorse`, `FoundWorse`,
`WorstWorse`); for a redirect chain and a list of alternates, hop by hop and entry by
entry. `Graduated` is then a matter of the ladders that `CaseSpec` puts to the checks.
Sums of positions and of click rates are compared as sums: that longer lists of larger
numbers have larger sums is induction over data. What `Worsening` does not compare
stays open: of a title of 20 characters and one of 80 it says nothing.

Two of these are about recursion: the walk, and sums over sets (`MapThenSumSet`). The
library's induction theorems take an operator as a parameter, which the installed provers can
not instantiate, but its theorem that `<` on the naturals is well founded takes a set. From it
follow `Least` (a non-empty set of naturals has a least element), `UpTo` (a set with
zero and every successor has all) and `ByRemoval` (the same for finite sets); with
them, functions defined by recursion are shown to exist and folds to be the sums they stand for.

The assumptions are those the code justifies or the model's bounds need: limits,
pools, queues and windows are positive; sets of URLs, connections, clients, pages and
scored tools are finite; a value that stands for nothing (`None`, `Dead`, `"none"`,
`Absent`) is not one of the things it stands beside; sites, sitemaps and use cases
that an instance offers are well formed. `LockoutAssumption` has the table count up
to `MaxAttempts`, which must not be less than the threshold, and
`DashboardAssumption` a log that holds what a bounded number of runs can send: both
bounds are the model's. Every run that uses a module evaluates them.

`EndAnnounced`, `NoOrphanCompanion`, `OneRunAtATime`, `NothingAfterEnd`,
`SubscribersBounded`, `OneLiveLink`, `CancelWithinTabs`, `CreateOverwritesNobody`,
`RankKept` and the type invariants are proved and not part of a run. What three of
them say (`CancelWithinTabs`, `CreateOverwritesNobody`, `RankKept`) the refinements
that are part of one say too.

Only model-checked: liveness (`RunEndsUnlessPaused` of both runs, `FullQueueReclaimed`
and `TabSettles`, `LockoutEnds`), which is beyond the prover. Every invariant and every
action property of a passing run is a theorem.

## What the checks found

* A pause and a cancellation that overlap can leave the cancelled run blocked
  for ever (`audit_cancel_paused`). The pause checks `running` under the lock
  and clears the event outside it.
* With Search Console switched off in the shipped `config.json`, its section is
  silently empty in an audit (`silent_section`): the section of the configuration is
  taken for the permission.
* The wrapper around `requests` follows redirects itself and keeps no history, so
  that neither the status check nor the redirect check can see one
  (`redirects_unseen`).
* Of two overlapping saves of the settings, one that came with the mask in place of the
  secret puts back the secret the other has just replaced (`secret_untouched`).
* The broken link checker loses links whose probe was done when the time was up and had
  not been collected; `quick_tools.py:1017` says it collects them (`links_lost`).

Seen while modelling, and allowed by the properties, which say what the code does:

Runs and streams
* A configuration file that can not be read at the wrong moment leaves the audit
  slot taken until a restart (`audit.py:160`).
* A cancellation of an indexing run that is still fetching URLs is forgotten
  (`indexing.py:258`); the audit route was fixed for its form of this fault.
* Cancelled audits are counted by the metrics as cancelled and, when their worker is
  through, as completed.
* A stream that is dropped, refused or evicted, or a health check that fails, leaves
  a tab showing a running audit until the page is loaded again. The cancellation of
  one run may be announced to the next (`audit.py:424`).
* A URL that failed before a check was interrupted gets a row when the check is
  resumed and another when it is checked again, so that reports show more URLs than
  the limit allows (`checker.py:1017`, against the comment at `checker.py:1002`).
* A check deletes its progress file before it writes the CSV (`checker.py:1164`, `1213`):
  a kill in between loses every result. With the file goes what another list with the
  same first URLs had saved. After the second pass the summary by type, and with it the
  type sheet of the workbook, still counts as failed what has a verdict by then. A
  URL that a list names twice is asked twice, and two answers may differ.
* A sitemap index met first at the depth limit is not read again when it is met
  higher up, and what it leads to is lost. Callers of the token bucket are not served
  in order: one can starve.

Accounts and signing in
* A `login_attempts` table that cannot be read counts as one without failures: after a
  restart, and while that lasts, a locked name can be tried afresh.
* Two administrators that are removed at once, at least one by himself, can leave
  accounts that nobody administers (`auth_views.py:1025`).
* A `create_user` whose look at the users fails takes the store for empty, and
  may write over an existing account and make it an administrator's.
* Signing up with a name that is locked out raises in the automatic login. A mailed
  reset revokes no sessions and takes no lock; sessions without a row cannot be
  revoked; deleting an account by an administrator leaves its sessions and second
  factor. An enrolment between the check and the write of an activation leaves an
  unproved secret enabled. An error while a session is looked up logs the user out.

Files
* Overlapping writes of `config.json` can leave it mixed: every save then fails and
  the application does not start again. An unreadable `profiles.json` is taken for
  empty, and the next save forgets the others. `CFG` is empty for a moment in every
  save, and may stay older than the file.
* A deletion that meets the run that writes the report can leave a workbook that is
  not listed. Reports beyond the twenty newest are shown nowhere until newer ones are
  deleted. A file that vanishes while reports are listed fails the listing.
  `_full.json` files of the command line are listed as reports of their own.
* `rank_history.json` loses ranks of audits that overlap, drops the baseline of a
  domain whose lookup failed, compares URLs of one domain with each other, and is
  not under `SEO_SUITE_DATA_DIR`.

Audits and tools
* `audit_single_url` validates the page's own URL as if it were a sitemap. A site
  that does not answer at all can still score high. Missing API keys give a warning,
  worth half, although `seo_audit.py:387-389` says they do not count; failed lookups
  of Moz and DataForSEO become failures of the site. A failure of DNS and the absence
  of a record are not told apart. Unresolvable hosts and refused redirects raise
  through `fetch_page` and `broken_link_check`. `performance_opportunities` looks for
  metric names that are not stored, so that it never finds a critical one.
  `compare_audits` calls a task that was not run resolved.
* In `quick_tools.py` only `code_to_text_ratio` catches `ToolFetchError`: a page that
  is too large, times out or answers 5xx fails the other tools that use `fetch_html`.
  `broken_link_checker` reports a running link as skipped, and on Python 3.10, where
  `concurrent.futures.TimeoutError` is not `TimeoutError`, waits for all links and
  then fails.

## Plan

Done: the stateful parts and the verdicts of audits, each in a run; two abstract
promises, one with two implementations; theorems for every safety property of the runs.

What could come next:

1. A promise of `Checker`, of the kind of `AccountBook`: a set of verdicts that only
   grows, which checks that stop and resume fill in.
2. A property for the stream that is not told of its eviction (`state.py:133`), a hazard
   without one: what a tab that reads slowly can still rely on.
3. Theorems about the helpers that have none: `Fetch` (it stops within `MaxRedirects`
   and at a page that does not move), the tasks chosen for a request.

## Not modelled

* The scheduler loop of `checker.py` and the loaders of CSV and Excel files: a loop
  over what is modelled, and parsing.
* How Google's result page, HTML, DNS answers and service responses are taken apart:
  the models begin at the facts that a verdict depends on.
* `issue_scoring.py` and `page_type.py`: tables and patterns that a model would repeat.
* Generators, keyword research, blog and course audits, schema validator, duplicate
  detector: functions from text to text without state.
* The clients of remote services, the notifier, report formatting, the application
  factory, middleware and static pages, and `migrate_onclick.py`: no state that takes
  part in an interleaving.
* The JSON backend of the accounts and its migration, password policy, the connection
  tests and uploads of the settings.
