# A verification of the Kubernetes runbook agent

The agent receives Grafana alerts, lets Claude investigate the cluster with
read-only tools, posts a diagnosis and a proposed fix to Slack, waits for a
human to approve it, and then lets Claude execute it.  This directory holds
TLA+ models of that program, TLC configurations that check them on small
instances, and proofs that TLAPS checks for every value of the parameters.

Paths and line numbers are relative to the root of the repository (`src/`).

## 1. The system

Everything runs in one process on one asyncio event loop, so the code between
two `await`s is atomic and a model has one step per such stretch of code.
Concurrency comes from tasks: one per alert, one per button click, one per HTTP
request, and the background loops started by `server.py`.  Slack, Claude and
PostgreSQL are called in threads or over sockets and always awaited.

| Component | State | Operations | Talks to |
|---|---|---|---|
| Session (`agent/session.py`) | phase, approval status, diagnosis, proposal, incident ids, messages | `transition` and its callers; no method checks the phase it leaves | schedules a save, a recording and a post-mortem |
| Session store (`agent/session.py`) | sessions by id | create, get, get_by_fingerprint, active_sessions | everybody |
| Grafana webhooks (`webhooks/grafana.py`) | none of its own | firing: deduplicate, correlate, limit, start a task; resolved: close a session, resolve its incidents | store, orchestrator, incident router |
| Diagnosis loop (`agent/orchestrator.py`) | rounds, enforcement, review flags on the session | call Claude, run tools, process the answer, score, review, prune | Claude, tools, memory, reviewer |
| Multi-agent pipeline (`agent/multi_agent/`) | as above, and which specialist was chosen | triage with a deterministic fallback, specialist; fallback to the single agent | Claude, store, orchestrator |
| Approval handlers (`slack/bot.py`) | idempotency cache | limit, deduplicate, approve, reject, rollback, details | rate limiter, policy, executor, incident router |
| Approval policy (`agent/rbac.py`) | allowlists, cached group members | authorize | Slack |
| Executor (`agent/executor.py`), guardrails (`agent/guardrails.py`) | rounds | ten checks; tool loop with live changes; result | Claude, Kubernetes |
| Tools (`agent/tool_registry.py`, `tools/`) | none of their own; the Deployment, its ReplicaSets, pods and created objects are in Kubernetes | read the cluster; patch, scale, restart, roll back, delete a pod, create, each dry or live | Kubernetes |
| Escalation timer (`agent/escalation.py`) | deadlines per session | remind at the SLA, reject at twice the SLA | Slack, incident router |
| Incident router (`notifications/`) | the enabled providers | create, acknowledge, resolve, note | PagerDuty, OpsGenie |
| Incident memory (`agent/incident_memory.py`), embeddings | a table | record, recall, fix confidence | PostgreSQL, embedding service |
| Persistence (`db.py`), retention (`agent/retention.py`) | sessions, audit_log, incident_memory | upsert, load, prune, evict | PostgreSQL |
| Rate limiter (`observability/rate_limit.py`) | a token bucket per key | allow, clean up | |
| Retry (`agent/retry.py`) | attempt | call with backoff | Claude |
| Runbooks (`knowledge/`, `tools/knowledge_base.py`) | two stores of runbooks by id, a snapshot of file times | load, search, watch | the directory |
| Secret reload (`agent/secret_reload.py`) | the settings, the last modification time | check, reload on request | the mounted Secret |
| Agent health (`agent/multi_agent/health.py`) | results by agent, with their times | check from the cache or by a ping | Claude, settings |
| Server (`server.py`) | the background tasks | start, shut down, `/ready/agents`, admin endpoints | everything above |
| Coordinator, leader election, correlation, toil detector, post-mortem, multi-cluster, redaction, prompt safety | see `PROJECT.json` | | |

What is hard about it:

* **checks that outlive an await**: `_handle_approve` checks the phase, then
  awaits the approval policy; deduplication and the session limit look at
  sessions that tasks create later;
* **several tasks moving one session**: clicks, the executor, Grafana, the
  timer and the diagnosis loop all call `transition`, which has no guard;
* **partial failure**: every await of a handler may raise, and each path has to
  leave the session in a phase that somebody will move on;
* **asynchronous side effects**: recordings, saves and incidents happen after
  the transition that caused them, and read what is true by then;
* **calls without a timeout**: those of Kubernetes and of the embedding service
  may hang, and a task that waits for one never goes on;
* **background tasks that die**: what the loop of a watcher does not catch ends it,
  and nobody looks until shutdown;
* **polling**: watchers compare what they saw with what they see, and files
  change between a stat and a read; caches are served while what they were
  computed from has changed;
* **a loop that waits for what it starts**: one escalation check serves all
  sessions, one after the other;
* **a controller behind the API**: Kubernetes numbers a rollout some time after
  the change, and the rollback reads that number;
* **bounded loops** that must end and must not overshoot: rounds, enforcement,
  revision, tokens, context.

What makes the components correct:

* nothing changes the cluster without a granted click on a fix the guardrails
  pass; a fix runs once; the timer never rejects a fix that runs;
* every session ends, and stays ended; what is remembered of it is what happened;
* an alert is investigated once, by no more than the permitted number of
  sessions, and never blocks its fingerprint with a session nobody works on;
* an investigation ends, within its budget, with an outcome, after the required
  tools and the review, and never with a conversation the API refuses;
* a rate limiter answers as its parameters say, and what Slack delivers twice is
  handled once;
* a rollback restores what the fix has changed;
* a proposal nobody answers is reminded of, and then rejected, in time;
* runbooks, secrets and health results are as old as the polling allows, no older.

Not all of this is true of the code; section 4 says what is not.

## 2. The modules

| Module | Models | Correspondence |
|---|---|---|
| `Session` | `DiagnosisSession` | A record, and an operator per method from the session before to the session after a call. `recording` counts the scheduled `_record_to_memory` tasks. |
| `Approval` | from "awaiting approval" until everything started for the session is done | `pc[h]` is the await handler `h` is suspended at; an action is the code from there to the next await. `timer` is the escalation loop with its callback, `ids` is `session.incident_ids`, `open` the incidents at the providers, `memory` the recorded outcomes. |
| `Consent` | what the people who approve fixes are promised | The abstract specification `Approval` implements: `State` says how the phases look from outside, `Granted`, `live` and `memory` are what was allowed, changed and recorded. |
| `Orchestrator` | `DiagnosticOrchestrator.investigate`, and `MultiAgentOrchestrator.investigate` with triage, `SpecialistAgent._run_loop` and the fallback | `at` is the await the task is suspended at, `agent` whose loop it is. `EnterRound` is the head of the loop; every action that continues the loop contains it. What the specialist does not do (the review, a reminder that depends on other tools) is a condition on `agent`. |
| `Conversation` | that loop with `session.messages` | Extends `Orchestrator`: each of its actions is one of the loop's, with what that step appends. A message is its kind and its round. `Entered` is the head of a round, where the general agent prunes (`Sent`) and a specialist does not. |
| `Intake` | `webhooks/grafana.py` over the session store, both orchestrators, eviction | `pending` are the tasks `_start_investigation` has created and the loop has not started; a session is created when its task starts. |
| `Guardrails` | `evaluate_guardrails` and the confidence score of `incident_memory.py` | Operators over a proposal and the history of its fix. A proposal carries what the checks find in its text; the score is in thousandths. |
| `Gate` | `ApprovalPolicy` with its cache, the guardrails and the success rates, over several sessions with the same alert and fix | `click[c]` is the await a click on "Approve" is suspended at, `cache` is `_group_members_cache`, `memory` the rows of incident memory with the alert, counted by the summary of their fix; a proposal is scored with one of the summaries that match its own. `Prune` is the retention of those rows. A session is only where it stands; `Approval` has its detail. |
| `Persistence` | `_persist_and_audit`, `db.py`, the cleanup of `retention.py`, a restart | `saves` are the tasks nobody waits for, each before its upsert, in it with the row it has serialized, or in the INSERT of the audit entry; `rows` and `audit` are the tables. |
| `RateLimiter` | `RateLimiter` and `_Bucket` | Time in units of which a token costs `Cost`; `allow` is one step because it holds a lock. |
| `TokenBucket` | what a rate limiter promises | The abstract specification `RateLimiter` implements. |
| `Interactions` | `handle_interaction` with `_IdempotencyCache`, behind `slack_limiter` | Extends `RateLimiter`; `reading` counts the requests whose body is awaited, `seen` is the cache, oldest key first. |
| `Cluster` | the six tools of `cluster_mutate.py` on one Deployment, and who may call them | `calls[c]` is the request a caller is suspended at; `revision` are the ReplicaSets, `annotation` the revision Kubernetes has written to the Deployment, some time after the change. |
| `Lifespan` | start and end of the process, and time | Shared by the four modules below. |
| `Runbooks` | `RunbookLoader`, `RunbookWatcher`, both stores | `files` is the directory, in which an edit may change the id a file holds; `listed` what the watcher's glob has found and not yet statted, `current` what it has statted and not yet read, `snapshot` what it compares with; `watcher` is its task, which may die. |
| `Credentials` | `SecretReloader`, the forced reload, the mounted volume | `reading` are the files still to be read, between which the kubelet may swap the volume. |
| `Health` | `AgentHealthChecker` | Extends `Credentials`, since a ping uses the key of the settings; `pings` are the calls in threads. |
| `Escalation` | `EscalationTimer` with time and several sessions | `check` is where the loop is: asleep until a time, or in the callback of a session. |
| `Server` | the composition of the last five | One action per step of one of them; `Start`, `Serve` and `End` are steps of all of them. |
| `*_proofs` | theorems about the module they are named after | |
| `MC*` | the instances TLC checks | |

How they fit together: `Approval` and `Orchestrator` extend `Session`.
`Orchestrator` ends where `Approval` starts, which is a theorem
(`HandsOverCleanly`: a session handed over is unanswered and unrecorded) and not
only a comment.  `Conversation` adds one variable to `Orchestrator`'s
loop and does nothing else with the others, which is a theorem as well
(`ConversationIsInvestigation`); a conversation the API refuses leaves the loop
only `CallFails`.  `Intake`'s
`Conclude`, `Close` and `Reopen` are what the other two do, seen from the store.
`Cluster` opens up
what `Approval` calls a live change and a rollback, and adds the agent that
diagnoses, which has the same tools.  `Escalation` is the timer of `Approval` from
the other side: many sessions and time there, one session and its handlers here.
`Interactions` is what a click passes before a handler of `Approval` starts.
`Gate` opens up two things that `Approval` takes as given, the verdict of
`authorize` and that of the guardrails, and closes the loop from the outcome of
one session to the score of the next.  `Persistence` sees of a session only its
number of transitions, its last day and whether it is over.

Operators called "mutant" in a comment (`PreflightForgets`, `StaleEarly`, ...)
are plausible mistakes in the definition that follows them.  No specification
uses them: they are there to be substituted, to see that a property notices.

Abstractions worth knowing:

* Posting to Slack never fails in a way that matters: `post_in_thread` catches
  everything.  A post is a point at which other tasks run.
* The verdict of the guardrails does not change while a session waits, because
  its inputs do not; it is chosen at the start.
* `authorize` suspends only for a user outside the allowlist while groups are
  configured and the group is not cached; those clicks are `ViaGroup`.  The set
  is a parameter since it is a deployment's choice.  Two theorems, `ApprovedOnce`
  (a second approval finds that the first one was granted) and
  `NeverRecordedEarly`, hold only if it is empty; no run checks them.
* A provider's call may fail before or after the provider did what was asked.
  `Reliable` are those that happen not to: what is said of their incidents does
  not hold of one whose answer was lost.
* In `Gate` the policy names one Slack group at most, the outcome of a session is
  in incident memory with the transition that ends it or never, and membership
  changes only if the policy asks for it.  A row that is inserted late is a
  session that ends late.  Which summaries match (`Matches`; in the code one
  contains the other) is a parameter, and of several that match the query returns
  any one first, since it has no ORDER BY (`agent/incident_memory.py:411`).  The
  ages of the rows are not modelled, so `Prune` may remove any of them.  A session
  that ends without a proposal is recorded too, under a text that no proposal has;
  `Gate` has no such sessions.
* `Persistence` counts days.  The cleanup of the code runs every hour; a day
  ends only when its saves are done and two cleanups have met no outage.  The pool
  has ten connections, more than the saves of the instance, so any save may
  overtake any other.
* Post-mortems, acknowledgements and notes change nothing that is read later.
* `alert_correlator.correlate` never finds a session, because nothing calls
  `register_session`; `Intake` leaves it out.
* Several readings of the clock in one `allow` are one, and tokens are integers.
* In `Cluster` the pod template is a function from a few fields to small numbers,
  0 being "absent".  A strategic merge patch sets fields, and removes those it says
  `null` of, unless the API requires them (`Required`); the rollback's patch is an
  old template, which has no `null`s, and so only sets.  A dry run changes nothing but is a call.
  What a patch or a restart reads first only goes into the answer.
* In `Server` time is counted in units of the model.  A unit passes only when
  whatever is due has been done: a ping ends within `MaxFlight`, a callback within
  `MaxCallback`.  Nothing else is assumed of them; the watchers of runbooks and
  secrets may poll at any time.
* A key that is replaced may be revoked at any time after; Claude refuses it from
  then on, and may be throttled or out of reach at any time.
* The synchronous stretches of the watchers are split where they list, stat and
  read files, because the files change while the process does not run anything
  else; only the reads of one check of the runbooks are a single step.
* In `Runbooks` every edit changes the modification time, and the directory itself
  is always there.  The snapshot that `start()` takes is left out, for the one at
  the head of `run()` replaces it; if it raises the server does not start.  A file
  may be a link that leads nowhere (`dangling`), as the keys of a ConfigMap are for
  a moment when they are removed.
* `Interactions` takes a request of Slack to hold one action, as a click on a
  button does.

## 3. The runs that pass

| Run | Asks | Bounds |
|---|---|---|
| `ApprovalClicks` | Is nothing changed unapproved, does an executing session have an owner, is an awaiting one untouched, is a success explained, are incidents within reach? Is a closed session reopened only by an approval that waited for the group, and is the whole what `Consent` promises? Does the session end for good, though nobody has to click, unless a call of Kubernetes hangs? | 2 approvals, one from the allowlist and one by group, a reject, a delivery and a rollback, in the scenes of `MCApproval`; 2 providers of which one may fail; 1 executor round |
| `InvestigationRounds` | For the general agent and for the pipeline: no return leaves the session "investigating"; budget, enforcement and review are exceeded only as the properties say; undisturbed, the hand-over to `Approval` is clean; a session that was closed meanwhile is reopened by the answer under way, or by the specialist, only; roles alternate, the alert stays first, the context is bounded, only the cut loses an answer; the investigation ends, unless one of its calls hangs | the numbers of the code: 25 rounds, 3 reminders, pruning above 20, keeping 4 and 8; 2 domains, up to 3 requirements; budget 6 with calls of up to 2, 2 closings |
| `IntakeBurst` | Duplicates and excess sessions that come from deliveries are bounded by what was asked for at once; a session nobody works on is left behind only by the fallback, once for each session the fallback creates | 3 alerts, one of them without a fingerprint, 4 sessions, limit 2, bursts of 2 |
| `GateHistory` | Does only an entitled user get a fix executed, one the guardrails pass; has every refusal a reason; is there a way back after the score blocked a fix? | 2 policies, 2 users of which one may be a senior, 2 clicks, 2 sessions, 2 proposals whose summaries match each other, 2 rows of each summary |
| `PersistenceSaves` | Does the audit log ever run ahead of the table, when is a row stale, what keeps a finished session in the table beyond both retention times? | 2 sessions with a transition each, days 0 to 4, sessions kept for 1 day and the audit log for 2 |
| `RateLimiterIdeal` | Same answers as ideal buckets; no window grants more than burst and rate; is an action Slack delivers again handled again? | 2 keys, burst of 2 tokens, clock up to 8 with a cleanup every 2; 3 actions, a cache of 2, 2 requests being read |
| `ServerReload` | Is what the watcher has loaded on disk and what is on disk loaded, do edits arrive while the watcher lives, are secrets stale only until the next check, was an "ok" true a short while ago, is a proposal answered in time and reminded of first? | 2 starts; 2 files, 2 ids, 3 edits; 2 secrets, 2 rotations; cached for 2, pings of 1, 2 at a time; 2 proposals with SLAs 2 and 1, an interval and callbacks of 1; clock to 11 |
| `ClusterFix` | Does one rollback restore what one rollout changed? | 3 fields of which one is required, values up to 2, 2 live calls, 1 change by others, 2 clicks |

Why the bounds are enough.  Two approvals are what it takes for one to act on
what it read before the other; a third adds no new order of two.  The scenes of
`MCApproval` keep to two handlers that close or approve the session, with the
timer, or with a rollback; the theorems are about all of them at once.  One executor
round distinguishes "before", "during" and "after" a live change, and the proofs
hold for every number.  The conversation is checked with the code's own
numbers, without a budget, which only ends it sooner; the budget of 6 leaves room
for all three reminders, a revision and a tool round, and is overshot by the call
that is under way.  The clock of the rate limiter passes four cleanups, so that a bucket
is kept, forgotten and made anew.  A cache of two keys and three actions are the
fewest with which a key is displaced before its action comes again, and the bound
of `HandledOnce` is reached exactly: with one unit more TLC finds an action that
is handled twice.  In `GateHistory` two clicks are what it takes for one fetch to
overwrite another's answer, and two sessions for one to be scored with the outcome
of the other, be it under its own summary or the other's; of the two proposals one
becomes unacceptable after a single failure and the other is critical.  Under the
policy with a group nothing is recorded, and under the other one the group has no
members, since neither reads what the other changes.  A transition per session gives two saves that can
overtake each other, and two sessions one whose audit entries keep the other's
row; with an audit log that is kept longer than the
sessions, as by default, days 0 to 4 are the fewest on which a row is past both.  In `ServerReload` two files may have one id, which is what a rename leaves, and
three edits let a file be written, given another id or broken, and removed around
one check; of the
two proposals the second has to wait for the callback of the first, and here as
well the bounds of `AnsweredInTime` and `RemindedFirst` are reached.  In
`ClusterFix` two clicks undo each other, and a second live call is a rollout that
the controller may not have numbered.

`MCServer`, `MCRateLimiter` and `MCConversation` add a variable, `focus`, that is
chosen at the start.  In the first two it says which part of a composition moves.
The parts share nothing but the clock, the life of the process and, for the health
checks, the key, so that an interleaving of two parts says nothing that one of them
alone does not.  In `MCConversation` it separates investigations that go through all
their rounds (`talk`: no call costs anything, nobody closes the session, the
required tools are called all at once or not at all, and one domain stands for both)
from those that are paid for and closed meanwhile (`loop`).  The theorems are about
the specifications without it.

Deadlock checking is off in all of them: each models one session or a bounded
history, and rightly stops.

Fairness.  It is assumed of a step only if the code sees to it that the await before
it ends.  It does for Slack (the SDK's default of 30 seconds), for PagerDuty and
OpsGenie (`timeout=10` in `notifications/`), for PostgreSQL (`command_timeout=10` in
`db.py`) and for Claude (the SDK's default, with a bounded number of retries).  It
does not for Kubernetes (`k8s_client.py:90` passes no `_request_timeout`, and neither
`dispatch` nor the executor limits a tool call) and for the embedding service
(`agent/embeddings.py:88`): a call of these may hang.

* `EventuallySettles` (run `ApprovalClicks`) is fair to the handlers, the timer, the
  providers' calls and the recordings, and not to the executor's rounds.  So it says
  that the session ends for good or that an executor hangs, which then leaves it
  "executing".  Nobody has to click and Grafana has to deliver nothing; the first
  step of a handler is never fair.  A recording counts as made when it has read the
  session; what comes after is an embedding, which may hang.
* `Terminates` (run `InvestigationRounds`) is fair to the loop except where it waits
  for a tool, for the pre-fetch of the opening message or for the recall
  (`Hanging`), and says that the investigation ends or stays at one of these.  It
  assumes nothing of the closings.
* `EditsArrive` (run `ServerReload`) is fair to the watcher of a started server,
  which polls every 30 seconds as long as it lives.  It does not live for good:
  `run` catches `CancelledError` only (`knowledge/hot_reload.py:66`), and `stat`
  raises for a file that has gone since it was listed or is a link that leads
  nowhere.  The property allows for a watcher that has died.  Nobody has to edit,
  stop or start anything.

One assumption behind this is not the code's: all calls in threads share the default
pool of `min(32, cpus + 4)` threads, so the others return only while fewer calls
hang than it has threads.

## 4. What the code does not keep

Each of these runs checks one property that a comment or a document of the
repository states, and TLC finds the behaviour that violates it.

| Run | Property | Behaviour |
|---|---|---|
| `ConversationRefused` | `NeverRefused` | Eleven rounds of tools end with a 400: pruning cuts between Claude's second call and its results (`agent/orchestrator.py:518`). |
| `ClusterUnapproved` | `ChangesAreApproved` | The agent that diagnoses has the tools that change the cluster, and its calls are dispatched as they come, live ones too (`agent/orchestrator.py:147`); `README.md:66` says that nothing is executed without approval. The agents of the pipeline have read-only tools. |
| `ServerFollows` | `FollowsDirectory` | "Detects new, modified, and deleted runbook YAML files", says `knowledge/hot_reload.py:7` (and `README.md:1058` that they are hot-reloaded).  A file that is edited after the lifespan has loaded the directory and before `run` takes its first snapshot counts as known and is not reloaded (`knowledge/hot_reload.py:65`).  The same property fails for a file whose `metadata.id` is edited, which leaves the runbook of the old id loaded (`knowledge/hot_reload.py:130`), and for a removed file, which is known by its stem only (`knowledge/hot_reload.py:141`). |
| `PersistenceDefaults` | `SessionsLeave` | "Resolved sessions: 30 days", says `agent/retention.py:6` (and `README.md:944`).  The audit log references the sessions and is kept for 90 days by default, so the cleanup, which deletes the sessions first, fails for a session of 31 days that has an entry (`agent/retention.py:103`, `db.py:109`), and with it for all others. |

Many of the properties that hold name a weakness rather than a promise, since the
code has no stronger one to offer, and others hold only where their hypotheses do.

*Approval and execution*

* A click that waits for the Slack group does not look at the phase again: it
  approves a session that was rejected or resolved meanwhile
  (`slack/bot.py:319`).  `ReopenedOnlyByStaleClick` says that nothing else does.
* An alert that went away by itself is remembered as a success of the fix nobody
  ran: `SuccessIsExplained` allows for it.
* A failed fetch of the Slack group refuses its members until the process ends
  (`RefusedWithReason`).
* A fix the score has blocked does not get better by waiting, because every blocked
  or rejected session counts as a failure.  What its summary has in incident memory
  keeps blocking it until a session with that summary is recorded as a success (be
  it because the alert went away by itself) or rows of it are pruned, after 365
  days by default: `NoWayBack`.  It may get through before that if the query finds
  another summary first that matches its own.
* Nothing limits a call of Kubernetes: a tool that hangs leaves the session
  "executing", where the timer does not look at it, or the investigation running
  (`EventuallySettles` and `Terminates` name these ends).
* A reject handled while the escalation callback creates the incident resolves
  nothing, since the ids are stored only when all providers have answered: the
  incident stays open, contrary to `README.md:590`.  `IncidentsAreKnown` says
  that its id is at least not lost.
* The rollback button undoes the last rollout of the Deployment, whoever asked for
  it: of a fix of two rollouts the second, after somebody else's change that one;
  a second click takes the first one back; and a click that comes before the
  controller has numbered the fix goes back too far.  `RollbackRestores` excludes
  all four.  Fields the fix added stay, as do scalings, deleted pods and created
  objects.
* No code does what `agent/executor.py:4` lists: that Claude tries a dry run first
  is asked of it in a prompt, and nothing rolls back by itself.
  `DRY_RUN_DEFAULT` (`README.md:288`, "never applies live mutations") is read by
  no tool; a guardrail warns because of it.  The docstring of `agent/guardrails.py`
  lists an allowlist of kinds and a mandatory dry run (lines 8 and 12); the module
  has neither check, and `Guardrails` models the ten that it has.
* A check of the timer waits for the callbacks of all overdue sessions, so the time
  a proposal may wait grows with the number of sessions (`AnsweredInTime`), and a
  check that outlasts an SLA rejects a proposal nobody was reminded of
  (`RemindedFirst`).
* The idempotency cache forgets its oldest key whether it was used or not (its
  docstring says LRU, `slack/bot.py:55`).  With the numbers of the code, ten
  requests a second, a burst of 20 and 1000 keys, an action is known for at least
  98 seconds.  Requests without a valid signature cost tokens of the same bucket.

*Diagnosis and intake*

* The budget counts what `session.total_tokens_used` counts, the calls of the
  diagnosis loop; triage and the reviewer add nothing to it.  `OvershootsByOneCall`
  speaks of that number.
* An answer moves on a session that was resolved meanwhile, and a specialist
  reopens one that was resolved during the triage
  (`agent/multi_agent/specialists.py:118`): `ReopenedOnlyByAnswer`.
* A cut-off answer is taken without the required tools, and a revision without a
  second review: `ToolsOrThreeWarnings`, `ReviewedOrRevised`.
* The fallback of the pipeline investigates in a new session and leaves the first
  one behind, where it blocks its fingerprint
  (`agent/multi_agent/__init__.py:96`): `LeftBehindOnlyByFallback`.
* Alerts of one burst get duplicate sessions, beyond the limit, and a resolved
  delivery closes one of them: `DuplicatesOnlyInBurst`, `LimitExceededOnlyByBurst`.

*Server and tables*

* Beyond `SessionsLeave`, which is refuted: `NoneOutlivesItsAudit` is what is left.
  A session that is past both retention times is gone, unless another session
  changed within the longer one, whose entries make the DELETE of all expired
  sessions fail.  While sessions keep coming that is the normal case.
* The agents search a store that is filled when `tools/knowledge_base.py` is
  imported; the watcher reloads another one.  What `README.md:1058`, `1126` and
  `1247` call hot-reloaded never reaches them.
* A removed runbook file is mapped to an id by its stem.  The files in
  `knowledge/runbooks/` have underscores where their ids have hyphens, so their
  removal changes nothing; where the two agree, a rename may remove what the new
  file has just loaded.  `ServerFollows` refutes the promise; `WatchedIsOnDisk` is
  what holds in spite of it: only an id that some file has had and given up
  (`left`) may be loaded with nothing behind it, and only the name of a file that
  was removed (`gone`) may be missing, once the watcher has seen a file as it is.
* The watcher dies of a file that cannot be statted, and from then on no edit is
  loaded.  Nothing shows until shutdown, where awaiting the task raises what it died
  of (`server.py:227`) and the rest of the shutdown, the closing of the database
  included, is skipped.
* A secret that is rotated between the start and the first check is read only
  after another rotation (`StaleOnlyUntilCheck`).  New settings reach no client
  that exists already (`agent/multi_agent/triage.py:58` and its like), contrary to
  `agent/secret_reload.py:10`, while a health check, which makes a new client,
  reports "ok".
* `/ready` never answers "ready" while the embeddings are "ok", because it expects
  one of three words of every text it has collected and then finds the name of
  their model (`server.py:376`, `server.py:403`); that is plain from reading and
  not modelled.

## 5. What is proved

All for every value of the constants, from the named assumptions in the modules.

* **`Approval_proofs`**: `TypeCorrect`, `NoUnapprovedChange`,
  `NeverStuckExecuting`, `TimerRejectsOnlyUntouched`,
  `ReopenedOnlyByStaleClickAlways`, `SuccessAlwaysExplained`,
  `IncidentsAlwaysKnown` for every set of clicks, deliveries and
  providers; `ApprovedOnce` (`SingleExecution`) and `NeverRecordedEarly`
  (`RecordedAfterEnd`) if `ViaGroup = {}`, two properties no run checks, since
  without a group they are close to what the phase check says.  None of
  these properties is inductive.  Each has an invariant of its own, for they fail
  for different reasons: that nothing is live unapproved needs to know, of every
  pc a handler can reach, what must have been granted to get there; that an
  awaiting session is untouched needs that nothing returns to that phase; that a
  success is explained needs that the flags it is derived from are set only
  after a granted click or a delivery; that incidents are known needs that the
  timer holds ids only inside its callback.  `PromiseKept`, the refinement of
  `Consent`, sorts every step into one of three kinds (a click is granted, a
  recording is made, anything else) and needs one more invariant: a session that
  runs has a recording scheduled only if a late click took it up again.
* **`Orchestrator_proofs`**: `TypeCorrect`, `NeverLeftInvestigatingAlways`,
  `BudgetKept`, `ToolsEnforced`, `ProposalsReviewed`, `HandsOverCleanly`,
  `ReopenedOnlyByAnswerAlways`, for both kinds of investigation.
  (`CleanHandOver` speaks of sessions nobody closed meanwhile.)  The budget holds
  because whenever a call of Claude is under way the budget is not yet spent;
  enforcement because a diagnosis appears only in a step that saw the requirements
  met or the reminders used up, and neither is undone.
* **`RateLimiter_proofs`**: `TypeCorrect`; `RateIsKept`, from the invariant that
  what was spent plus the credit that is left never exceeds the burst plus the
  time passed; `ImplementsIdeal`, the refinement of `TokenBucket`, which needs
  that a forgotten bucket would have been full, hence the assumption
  `Capacity <= 2 * CleanupInterval`; `InteractionsImplementLimiter`, by which the
  first of these hold behind the Slack endpoint too; and `HandledOnceAlways`.  Its
  invariant says that every place an action has moved towards the old end of the
  cache was paid for with a request granted since it was handled, or being read by
  then, and concludes with `RateIsKept`.
* **`Persistence_proofs`**: `TypeCorrect`; `AuditNeverAhead`, from the invariant
  that a task saves what it was scheduled for or something newer, and that
  `newest` is past whatever a task in its INSERT has written;
  `StaleOnlyByOverlapAlways`, from the invariant that a session whose saves never
  overlapped has at most one, and either that one is still to write the current
  version or the row has it; `FinishedSessionsLeave`, that `NoneOutlivesItsAudit` holds for every
  two retention times, the defaults included.  No audit entry is younger than what
  its session last did, so when a row is past both times its own entries are old:
  the first cleanup of a day removes them, and the second deletes the row, unless a
  young entry of another expired session makes it fail, whose row then changed
  within the audit log's time and is past the sessions'.
* **`Gate_proofs`**: `TypeCorrect`, `RunsAreEntitled`, `RefusalsHaveReasons`, from
  one invariant: every answer of Slack that a click holds or the cache keeps is
  honest (whoever is in it was a member once, whoever is not has an excuse for
  being refused), a click that was allowed belongs to somebody entitled to the
  proposal of its session, and no session loses its proposal.  Typing needs that
  invariant as well, since a click reads the proposal of the session it names.
  `NoWayBackAlways` holds for any summaries and any way they match.  It needs that
  no session was scored with a history its summary does not have yet, unless the
  summary has gained a success or lost rows since, and that the score does not grow
  with the failures.
* **`Cluster_proofs`**: `TypeCorrect`; `OneRollbackRestores`.  Its invariant says
  what the ReplicaSets, the annotation and each rollback under way know: before
  the fix the template of the execution's begin has a revision below the next one,
  after one rollout it has the one before the last, and a click that was not hasty
  has found that one or will.  `DryRunsChangeNothing`, `NothingWhileAwaiting` and
  `OnlyInvestigatorUnapproved` say what remains of the promise that
  `ClusterUnapproved` refutes: a call may be split over three requests, but only a
  live one changes anything, nobody has a call under way while a proposal waits,
  and before that it can only be the agent that diagnoses.
* **`Server_proofs`**: `TypeCorrect`; `WatchedIsOnDiskAlways`, for edits of any kind, those of a
  file's id included, from an invariant that relates store, snapshot and directory
  file by file, in each phase of the watcher (first snapshot, listing, stats, reads)
  and says which ids were given up by a file and which names have gone; `SecretsArriveWithNextCheck`, for which a field that was
  read while the volume was swapped must still be covered by the modification time
  from before; `OkIsRecentAlways`, by which an answer is no older than its ping;
  `AnsweredInTimeAlways` and `RemindedFirstAlways`, whose invariant counts the
  callbacks a check can still make: a session without one of its own in a check
  leaves one callback less.
* **The conversation** (in `Orchestrator_proofs`): `ConversationIsInvestigation`,
  `TurnsAreTaken`, `ContextIsBounded`, `CallsKeepTheirResults`, for any pruning
  parameters with `PruningAssumption`, which says what the code relies on without
  saying so: the start and the tail that are kept have an even length, and both
  with the summary are no longer than what triggers pruning.  None of the
  properties is inductive.  While tools run or the answer is examined the
  conversation ends with an answer that waits for its results, so the invariant
  `Talk` says there that the conversation without its last message is one that
  could be sent (`Fit`).  That pruning keeps `Fit` is a matter of parity: what is
  sent has an odd length, so a tail of even length starts with an answer, which
  separates no results from their call.  `UnprunedIsAccepted` is what is left of `NeverRefused`: a specialist's
  conversation is always accepted, and so is the general agent's until it is long
  enough to be pruned.
* **`Intake_proofs`**: `TypeCorrect`, `DuplicatesBounded`, `LimitNearlyKept`,
  `LeftBehindTakenOver`, and `OneSessionPerFingerprint` if `Burst = 1`, that is if
  every task starts before the next alert is looked at.  The first two count what
  a fingerprint, or everybody, has in the store together with what is scheduled,
  since `StartTask` only moves one of them; what is no longer counted once it is
  evicted or closed never comes back, because a session that is reopened is
  `extra` from then on.  `LeftBehindOnlyByFallback` speaks only of sessions that
  were left behind, and to leave one more behind needs to know about the others:
  the invariant `NoneLeftAlone` counts from every session on.

Only model-checked: liveness (`EventuallySettles`, `Terminates`, `EditsArrive`), for
which the prover has no rule to derive an `ENABLED`; and of course the violations.
Every other property of a run is a theorem.

## 6. What is not modelled

`PROJECT.json` lists every component with its status, and every hazard with its
line and the properties that cover it.

* *Not reachable at this commit*: leader election (nothing uses it), alert
  correlation (nothing registers a session), and so the coordinator, which wants
  correlated alerts; `load_active_sessions`, `reload_now`, `clear_cache`.
* *Read-only, or writes nothing anybody reads*: the tools of `cluster_inspect.py`,
  the search with its scores, the recall of similar incidents, the toil detector,
  post-mortems, the API's GET endpoints, metrics, logs and traces.
* *Data*: texts, prompts and formats, the regular expressions (redaction, prompt
  safety, routing, the parsers of Claude's answers), what the Kubernetes, Slack,
  PagerDuty, OpsGenie and Voyage APIs do beyond what the callers tell apart, and
  the deployment files.
* *Without a difference to their callers*: how often a call of Claude is repeated
  and after which delay; a caller only waits.
* *Not composed*: `Orchestrator` with `Approval`.  The theorem `HandsOverCleanly`
  says that the one ends where the other begins; what an answer that comes after a
  rejection does to a session with clicks is the part that is missing.
