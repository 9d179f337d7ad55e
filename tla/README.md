# A TLA+ development of MiniAI

MiniAI is one Go service (`src/`) on one machine. It answers questions about deployed
applications with the help of local models (Ollama), keeps chats and an audit history in
SQLite, lowers the power of the CPU while a protected model computes, and restarts an
application through MiniDeploy when an administrator has confirmed it. This directory holds
TLA+ modules of the parts whose correctness depends on the order of events, the TLC
configurations that check them on small instances, and TLAPS proofs for every instance.

Contents: [inventory](#inventory), [modules](#modules-and-how-they-correspond-to-the-code),
[runs](#runs), [findings](#findings), [proofs](#proofs), [assumptions](#assumptions),
[what is not modelled](#not-modelled), [what is left](#what-is-left),
[how to run](#how-to-run-it).

## Inventory

| Part (source) | State it keeps | Operations | What is hard |
| --- | --- | --- | --- |
| Action domain (`internal/actiondomain`) | none | policy of a kind and an origin; validation of a proposal and of its audit events | the validation must accept every legal history and nothing else |
| Action store (`action_storage.go`, `action_execution_storage.go`, `action_schema*.go`) | tables `action_proposals`, `action_events` | insert, load, confirm, cancel, begin, complete; suggestions of a History entry under a mutex | conditional updates against racing requests; loads in two queries; a clock that steps back |
| Action service (`action_http.go`, `action_executor.go`, `minideploy_restart.go`, `assistant_suggestion.go`) | what each handler has read, the POST on the wire | the administrator's routes; the restart; the assistant's suggestion | a POST with an unknown outcome, a crash around it, retries |
| Root power helper (`internal/powerleasehelper`) | sysfs settings, lease file, lock | enter, restore, recover, status | many writes, each may fail or be the last; two helpers at once |
| Power lease manager (`power_lease.go`) | slot, `blocked`, `active` | recovery at boot, Acquire, Restore | a slot handed over on every path; memory that must agree with the file |
| Evidence executor (`evidence_executor.go`) | results, done channels, two levels of slots | Execute | goroutines that wait for each other and for slots, cancellation |
| Chat sessions (`main.go`) | session map, counters | create, heartbeat, delete, chat start and end, reaper, unload | counters touched by deferred calls; expiry under a running chat |
| Web interface (`frontend/app.js`) | session id, composer | open, heartbeat, send, leave | lost and late requests and replies, of a page that has given up waiting or goes away |
| Chats and History (`storage.go`, `history_*.go`, `persistence.go`) | tables `chats`, `messages`, `history_entries` and satellites | create and delete a chat, start and finalize an entry, recovery at boot, reads | two transactions around a long stream; deletion, departure and death in between |
| Investigation router (`investigation_router.go`, `conversation_context.go`) | none | question and conversation to a subject, a route and its evidence requirements | precedence of goals, domains and windows; the subject of "it" |
| Evidence planning and follow-up (`evidence_plan.go`, `evidence_pipeline.go`, `evidence_followup.go`) | one request's evidence | plan, execute, reduce, one more round, merge | a second round that fails after the first succeeded; sums at a limit |
| Reduction and confidence (`evidence_reducers.go`, `confidence.go`) | none | results to items, limitations and conflicts, then to a confidence | limitations resolved by a later round |
| Evidence packet (`evidence_packet.go`, `evidence_packet_projection.go`) | one request's packet | projection, compaction to a size | a chain of removals whose steps refer to each other |
| Reasoner and Ollama transport (`reasoner*.go`, `phase2c_stream.go`, `agent_transport.go`) | one request; goroutines and channels of a model call | gates, call, validation of the draft | what the model may cite; a body that breaks, a client that leaves |
| Diagnostics (`diagnostic_*.go`, `change_diagnostics.go`) | one request's snapshot and sources | snapshot, expansion, assessment, answer | a window the logs do not reach back to |
| Repository index (`repository_index.go`) | cache of indexes | look at the version, build, answer | a version read before the lock, a pull in between |
| Agent (`agent.go`, `agent_protocol.go`, `agent_prompt.go`) | - | retired: no route reaches it | - |
| ReactorLab reads, capabilities, authorization | constants | bounded reads, registry | none over time |
| Administrator boundary (`admin_auth.go`, `admin_http.go`) | key set of an external library | token and origin checks | stateless here |
| Deployment files | - | systemd unit, sudoers, tmpfiles | what survives which death |

How the parts interact:

* A page opens a session, sends heartbeats and posts messages. `handleChatStream` checks the
  session (ChatSessions), stores the question and a running History entry (ChatHistory),
  then serves the question on one of these paths: a question about one application is
  diagnosed (Diagnostics); one about code is answered from the index (RepositoryIndex); one
  that needs an investigation is routed (EvidenceRouting), planned (EvidencePlanning), read
  (EvidenceExecutor), reduced (EvidenceReduction), perhaps read for once more
  (Investigation), packed (EvidencePacket), given to a model under the power lease
  (PowerLease, ModelTransport) and its draft checked against the packet (Reasoner). The
  deferred functions of the handler store the outcome (ChatHistory) and count the chat down
  (ChatSessions).
* The reasoner's answer may leave a suggestion to restart an application. It is stored as an
  action proposal and changes nothing until an administrator confirms and executes it
  (ActionService); the executing handler posts to MiniDeploy.
* The service starts the helper with sudo, one short process per call; the manager and the
  helper share the lease file and nothing else.
* SQLite has one connection, so the transactions of all parts are serial. Sessions, manager
  and executor live in memory and die with the process; tables, lease file, CPU settings
  and requests already sent survive it.

What makes each modelled part correct:

* **Actions.** An action restarts its application at most once, whatever is repeated, lost
  or cut short. A recorded outcome is the real one, an unknown outcome is never recorded as
  either. The assistant never acts alone. Every stored action stays readable.
* **Power.** The original settings are in force or on file at any moment. Protected
  inference only runs at low power, one at a time. A manager that admits requests has no
  lease outstanding. Whoever waits is answered.
* **Evidence.** Slots are neither lost nor invented; a read starts only after what it depends
  on was of use; nothing starts after a cancellation; Execute returns. A question is read for
  within its budget, in two rounds at most, about the subject it names or refers back to.
  What is reported as read was read, and the confidence claimed is the one the evidence,
  with everything that is missing from it, allows.
* **Packet and answer.** However much a packet is shrunk, the evidence that decides stays,
  with its fields, sources and derivations, and what was dropped is counted. An accepted
  draft cites only what stands in the packet.
* **Model call.** Pieces are heard in order and once; an answer that was cut off is not taken
  for complete by a client that still listens; the call ends and leaves no goroutine behind.
* **Diagnosis.** "Healthy" and a stated cause need the sources and the part of the log that
  could contradict them.
* **Index.** An answer shows nothing older than what the request's own look at the
  repository showed.

* **Sessions.** The counter is the number of running chats; the reaper and the unloader touch
  nothing that is used; a closed session disappears, and so does one its page has lost sight
  of; a page leaves nothing behind.
* **Chats and History.** Messages and entries refer to each other one to one; no work goes
  unrecorded; an outcome is final; every execution ends in History.

The behaviours that are hard to test are listed line by line under `hazards` in
`PROJECT.json`, each with the properties that cover it.

## Modules and how they correspond to the code

`PROJECT.json` maps every definition to its lines. In all modules a variable that records
the place of a goroutine (`pc`, `phase`) has one value per step on shared state; the steps
between two accesses to shared state are folded into the access before them. A call to an
external program (MiniDeploy, Ollama, sudo, SQLite) ends in every way the code tells apart.
Operators introduced by a comment "Mutant" are not part of the model: each is a plausible
mistake in the definition that follows it, for which some property is shown to fail.

### Actions

**ActionDomain** (constant operators). Kinds, origins, the policy of each pair, the event of
each transition and `RestoreProposal`, the validation that every load performs. An event is
a record of its type, its two states, the failure category and the actor.

**ActionAudit** (extends ActionDomain) builds every log the table's CHECK constraints admit,
event by event, beside every state; `IsWalk` is a definition of a legal history written
independently of the validation.

**ActionStore** (`rows`, `logs`; extends ActionDomain). One operator per transaction:
`Insert`, `Transition` with the WHERE condition of each UPDATE in its caller, `Stamp` (the
timestamp, clamped to the stored one), `Readable` (what a load accepts). Rows written before
execution was supported are among the initial states.

**ActionService** (extends ActionStore). A request is one goroutine: `pc`, what it asked
(`call`), the row it has read (`snap`), what it was told (`answer`). A load is two steps,
row and events, because it is two queries outside a transaction. `wire` is the fate of a
request's POST, which outlives the handler and the process; `restarts` counts what
MiniDeploy did. `StorageFault` fails any database operation, `Crash` kills all handlers.

**RestartLifecycle** is the abstract specification of one action without requests, database
or network: decided once, begun at most once, effective at most once and only while
executing, ended only as its effect warrants. `ActionService!LifecycleSpec` is the
refinement, with the stored state as `status` and the restarts performed as `effects`.

### Power

**PowerHelper** (`cpu`, `lease`, the lock and the locals of its holder). A helper process is
a sequence of steps; each sysfs write and each file operation is one, may fail in the ways
the code distinguishes, and the process may be killed before it. `original` is a history
variable, the settings when no lease was held.

**PowerLease** (extends PowerHelper) adds the manager, the requests that queue for its slot,
the service's boot and death, and an operator who asks for the status at any time and
recovers while the service is stopped, as `POWER_LEASE.md` documents.

### Evidence

**EvidenceRouting** (constant operators). A question is the set of concepts its words show
per table of the router, the applications it names, the times and windows in it, and the
conversation it refers back to. `classifyInvestigationGoal` to the requirements of the route
follow the order of the tests in the code, and so does the resolution of the subject.

**EvidencePlanning** (extends EvidenceRouting). A read is a capability with its subject and
window. `BuildEvidencePlan` is the first plan with its costs and limits; the follow-up operators are the
material gaps, the alternatives to what failed, and the plan of the second round.

**EvidenceReduction** (extends EvidencePlanning). A result is a read with its outcome; the
operators give the items, the missing entries, the conflicts between current sources, the
merge of the rounds and the confidence, rule by rule of `confidence.go`.

**Investigation** (extends EvidenceReduction) is the handler: `phase`, and what each stage
leaves (`plan`, `results`, `evidence`, `second`, `limitation`, `answer`). Every stage may
fail where the code returns an error, with what the code then falls back to; the client may
leave before each. `ran` records the reads that ran.

**EvidenceRounds** is the abstract specification of an investigation towards the services it
reads from: a first round within one limit, at most one second within another, no read
twice. `Investigation!KeepsToRounds` is the refinement.

**EvidencePacket** (`items`, `derivations`, `sources`, `protected`, `dropped`, `compacted`,
`plain`, `stage`). One action per relief of `compactEvidencePacketToTarget`: removable
fields, relevant items, secondary items, metadata, supporting items, the causal ones, the
hard limit. The size is the number of parts, and which item goes next is chosen freely among
those the code's order would not distinguish by what is modelled.

**Reasoner** (extends EvidencePacket). A draft is its keys, the references of its conclusion,
facts and uncertainties, and what each text says as far as the checks can tell (a causal
claim, a hedged one, a confidence). `Reason` is the validation, all or nothing.

**ModelTransport** (`caller`, `helper`, `scanner`, `answer`, `said`, `heard`). A piece of
the answer is known by its position, so that one lost, doubled or out of order shows. The goroutine
that sends the request, the one that decodes a whole answer or scans a streamed one, the
channel between it and the caller, the body that ends, breaks or is closed under a reader,
and the client that leaves. **ModelExchange** is what a call promises, liveness included;
`ModelTransport!KeepsExchange` is the refinement. EvidenceExecutorMC composes it with the
executor: a question first reads, then asks the model.

**EvidenceExecutor** (`pc`, `awaited`, `result`, slot counters, `cancelled`). One goroutine
per read of the plan, from spawn to the closing of its channel; the releases and the close
are deferred calls and steps of their own. The plan is chosen in the initial state from
`Plans` and validated by the model of `validateExecutableEvidencePlan`.

**EvidenceReads** is the abstract specification of Execute: each read of the plan gets one
outcome for good, the one its dependencies and the cancellation allow.
`EvidenceExecutor!ReadsSpec` is the refinement.

### Diagnosis and code

**Diagnostics** (`snapshot`, `logs`, `history`, `repository`, `verdict`). A message is the
set of what its wording shows, a log a sequence of lines with a time or none. The steps are
the handler's: classify, snapshot, expansion round by round (each source may be
unavailable), summary of the log with its window, assessment, answer by the software or by a
model held to the assessment.

**RepositoryIndex** (`revision`, `present`, `commit` of the checkout; the place and locals of
each lookup; `lock`, `cache`). Looking at the version and building the index under the lock
are many steps, one per file; a pull changes files one by one beside them.

### Sessions, chats and History

**ChatSessions** (`status`, `beat`, `talk`, `inFlight` by session; `pc`, `on` by chat).
A time is abstracted to the answer the code asks of it: has the last heartbeat exceeded
`sessionTTL`, has the last chat exceeded `modelIdleTTL`. `unloading` says which caller of
the unload is under way.

**ChatTab** (extends ChatSessions) is one page of the web interface as client of that
service, step by step as `sendMessage` goes: ask for a session, learn its id, post, wait
(`phase`). The page may be throttled, and `sendMessage` may end at any of these steps, because
a request of it failed, because `ensureChat` failed while the session was being opened, or
because a reply never came. What it has sent stays under way (`requests`, `replies`, `posts`,
`closing`) and may arrive later or never: a lost request is one that never arrives, and no
fairness makes it. So a page may own several sessions. The service creates a session before
it replies, a page that gave up asks for another one, and a late reply replaces the id in
use. That a page has one session at most is therefore not claimed; that a session it does
not name ends is (`UnnamedSessionsEnd`). A heartbeat takes effect when the timer sends it.
A page brought back from the browser's cache after `pagehide` would be a new page and is
not modelled.

**ChatHistory** (`chats`, `messages`, `entries`; the handlers; crash and boot).
`StartEntry` and `StoreOutcome` are the two transactions, `Forget` is what the foreign keys
do when a chat is deleted, `Interrupted` the recovery at boot. What happens between the two
transactions is abstracted to what the deferred finalizer looks at: did the stream reach its
done event, with text, with a failing error category, and has the client left.

The modules ending in MC define the constants of the runs; those ending in Proofs hold the
theorems of the modules they extend. ContractsMC puts four parts that share no state side by
side in one run: a behaviour of it is a behaviour of one part.

## Runs

| Run | Instance | Shows |
| --- | --- | --- |
| `action_execution` | one action, four requests of seven kinds, one crash, one storage fault, a clock with two readings | at most one restart, true outcomes, readable history, true answers, nothing runs without its warrant (decided once, warning acknowledged, supported when stored, a torn load never taken for an action), refinement of RestartLifecycle |
| `action_suggestion` | two ids, two targets, three requests, one crash, one fault, fairness | one suggestion per History entry, the assistant never acts alone, every request is answered |
| `power_lease` | two policies, three levels, two requests, one fault, one crash, one operator call, fairness | originals kept, inference at low power, an open manager is restored, answers, no silent lease |
| `evidence_executor` | every dependency graph of three reads (and invalid plans), one global slot; after a plan of one read, a model call of up to three pieces; fairness | slots, cancellation, refinement of EvidenceReads, Execute returns, refinement of ModelExchange |
| `chat_tab` | one page, two sessions, two chats, one restart, fairness of the service only | the counter, the unloader, the reaper, the end of a closed session and of every session the page does not name, nothing left behind |
| `chat_history` | two requests, one chat, one fault, one crash, fairness | references, recorded work, linked answers, final outcomes, every execution ends |
| `investigation` | questions that reach every route, window and way to name a subject; two applications, three databases; every outcome of every read | budgets, reported reads ran, the right subject, earned confidence, refinement of EvidenceRounds |
| `contracts` | every log of up to five events; every packet of a catalogue of twelve items; two lookups and a pull on two files; diagnoses of every kind | the audit validation accepts exactly the walks; packets keep what decides; answers rest on the packet; index answers are no older than the look; verdicts are earned |
| `action_torn_read`, `power_status`, `chat_dropped`, `chat_expired` | as small as the disagreement allows | the findings below |

Why the bounds are enough. A race needs two requests, and a third to see what they left; the
fourth request of `action_execution` lets create, confirm and two executions be distinct
requests. One fault at any place and one crash at any place, together, cover every single
failure and the failure of the recovery from it; more than that is covered by the proofs,
which bound neither. Two CPU policies are the least number with a state between writes of
different policies, and `MixedTunings` contains settings that already agree with low power
in part. Three reads are the least for a chain and for a fork; one global slot makes every
read compete. Two sessions are the least for one in use and one the page has lost; two chats
let one run or be late while the other is refused or ends its session. One chat and two requests in it suffice for
ChatHistory because requests interact only through the chat they share. Five events are one
more than the longest legal history, so that every too long log is met. The questions of
`investigation` are chosen so that every branch of the router is taken and every follow-up
plan arises; its states are finite without further bounds. The catalogue of `contracts` has
an item of every criticality, kind and removable field, a derivation of each sort and a
conflict; its limits are scaled down so that each is passed and met by some packet. Two
files let a pull move a declaration and be seen half done, two lookups let one replace the
other's index. Log lines (three read, two patterns kept) are the least with a line before,
in and after the window. Three pieces of an answer let one be lost, doubled or swapped. The counters bounded by constants (`MaxCrashes`, `MaxFaults`,
`MaxRestarts`, `MaxOperatorCalls`, the finite sets of ids) count events of the environment
and stop nothing else. Every bounded system stops when its requests are spent and its
environment has done its worst, so deadlock is not checked; that nobody waits for ever is
stated as liveness instead.

Symmetry is used in runs without liveness only (requests of the action runs, requests of
`power_status`, sessions and chats of `chat_dropped`, lookups of `contracts`); the elements
are not distinguished in any initial state or property.

Fairness, and why the code justifies it:

* ActionService: weak fairness of each handler. Goroutines are scheduled, SQLite answers,
  and the POST has a timeout of its own; MiniDeploy, crashes, faults and callers are not
  fair. The mutex is only ever held by a handler that is itself fair.
* PowerLease: weak fairness of the helper (short, no waiting: the lock is not waited for) and
  of the service collecting its word (`exec.CommandContext` with a timeout). Strong fairness
  of each request: the slot is a channel with a queue of waiters, and inference ends because
  the HTTP client has a timeout of ten minutes. Nothing is assumed of the operator.
* EvidenceExecutor: weak fairness of Execute and of each goroutine. Reads end by the
  timeouts of their clients.
* ModelTransport: weak fairness of the caller, of the helper and of the scanner, which are
  goroutines, and of the end of the body, which the ten minutes of the HTTP client
  (`main.go:210`) enforce when Ollama does not. Ollama and the client are not fair.
* ChatSessions, ChatTab: weak fairness of the end of each chat, of the reaper's ticker, of
  the unload (30 s timeout) and of time passing for a session no heartbeat is sent for. The
  page itself is not fair, and nothing it has sent need arrive.
* ChatHistory: weak fairness of each handler that has begun and of the start after a crash
  (`Restart=on-failure` in `miniai.service`).

## Findings

Four runs end in a counterexample on purpose: each states what a document, comment or test
of the repository says, and the code disagrees (`findings` in `PROJECT.json` has the lines).

* `action_torn_read`. A load is two queries outside a transaction. The loser of two
  executions may read the row before and the events after the winner's commit; the pair
  fails validation and the loser is told 500, where the concurrency test of the endpoint
  demands 409. The safety half, that such a pair is never taken for an action, holds
  (part of `OnlyWarranted`).
* `power_status`. The helper never waits for its lock and the manager never retries, so one
  `status` asked by an operator while an inference ends makes the restoration fail: the CPU
  stays at low power and protected models are blocked until the service restarts, with
  healthy hardware.
* `chat_dropped`. A chat request on a closing session deletes the session without looking at
  `InFlight`, although another chat still runs on it; that chat is no longer counted and the
  models may be unloaded under it. The two other ways to remove a session spare it.
* `chat_expired`. The page throws an error without status for a stream reply that is not
  ok, so its branch for 410 is never taken: it keeps an expired session until it is reloaded.

One more divergence is known and not run: the database is opened in WAL mode with
`synchronous = NORMAL` (`storage.go:97`), so a power failure of the machine may take back the
"durable executing transition" of an action whose POST was sent. The models let the process
die, not the machine.

Observations made while modelling, that no document of the repository contradicts:

* A streamed call whose client leaves may return without an error: the scanner stops and
  closes its channel, and the caller's select may see that before the cancellation
  (`agent_transport.go:203`). Only a client that is gone can be affected, which is how
  `ModelExchange!End` states it.
* The events of services are sorted by their formatted timestamps, whose fractions have no
  fixed width (`evidence_reducer_projection.go:48`), not by time.
* A packet with more relevant items than its limit loses some before the compaction looks at
  what is protected. No route produces so many; `InputsAssumption` states what is relied on,
  also that evidence in conflict is current and therefore critical.
* `BudgetExhausted` of a diagnosis cannot become true: there are as many rounds as sources.
* No reducer produces direct causal evidence, so no accepted answer about a deployment claims
  that it caused anything.

## Proofs

TLC checks one instance; the theorems hold for every set of actions, requests, chats,
policies, reads, plans and limits and for any number of faults and crashes. They use only
the named ASSUMEs of the modules, all of which TLC evaluates in the runs.

**ActionServiceProofs.** `TypeInvariant`; `ExecutionInvariant`; from it `OneShotRestart` and
`OutcomesAreTrue`; and `ServiceImplementsLifecycle`, the refinement of RestartLifecycle.
AtMostOneRestart is not inductive: that the counter is at most one says nothing about
who may still raise it. `ExecutionInv` adds the missing facts: who has begun is recorded as
executing or ended (`BegunIsRecorded`), at most one request ever begins for an action
(`OneExecution`), the row stays executing while that handler is inside or its POST is
written (`HandlerHoldsExecution`, `WireHoldsExecution`), and every restart is one of that
POST (`RestartsAreOwned`). The step proof has a lemma per kind of step: a quiet step, a
decision, begin, write, MiniDeploy's restart and refusal, completion, crash.

Three more inductive invariants carry the remaining properties. `AuditInv` gives
`AuditTrailReadable`: the event chain `ExpectedEvents` builds by concatenation is rewritten as
a decision followed by appended events (`ExpectedChains`), so that appending the event of a
move to the chain of the state it leaves gives the chain of the state it enters
(`ChainsGrow`), and a stamp no earlier than the last update keeps the timestamps in order
(`TimestampsGrow`). `WarrantInv` gives `OnlyWarrantedActions` and `AssistantNeedsAnOperator`:
the row a handler has read may be stale, but not in kind and origin, which decide the warning
(`SnapshotsHold`), and authority an origin does not have by policy comes from an answered
confirmation (`AuthorityIsGranted`). `AnswerInv` gives `AnswersAreTrue`: an answer 202 is
stable because no handler is left inside the execution. `SuggestionInv` gives
`SuggestionsAreUnique`: whoever is past the lock holds it, so what it found missing is still
missing when it inserts. `StoreSteps` and `RowsKept` say once what any step does to the table.

**PowerLeaseProofs.** `TypeInvariant`; `LeaseInvariant`; from it `OriginalsAlwaysKept`,
`InferenceIsProtected` and `OpenIsRestored`. `LeaseInv` says what the lock holder works with
(`SnapshotInv`: its copy is the original, on file before the first write and until all are
back), who holds the lock (`LockInv`) and the slot (`OwnerInv`), that an operator's helper is
only asked for the status while the service is up (`OperatorInv`), and that a word the
service has received and not yet used is still true (`WordInv`). Without the last one,
"entered" might describe a CPU that has been retuned meanwhile.

**InvestigationProofs.** `AnswersReportTheirReads` and `InvestigationKeepsToRounds`, the
refinement of EvidenceRounds. `RoundsInv` ties the rounds to the phase: nothing ran before
the first plan was executed, what ran is what the two plans asked for, the plan of the second
round is disjoint from the first. The plans are cut to their limits by the planner; lemmas
on finite sets carry that to the cardinality of the reads.

`EveryPlanIsAffordable`: no plan of any route passes six reads and twelve units, because the
router's own requirements already fit. The cost is a fold over the requests; the requests of a
route are at most five and written out, so the fold is unrolled (`PlanCostIs`) and the table
of routes is gone through (`RequirementsWellFormed`, `DraftAffordable`).
`ReadsAreAboutTheSubject`: the conversation is searched for the last message that names an
application; that the message found is the last one is shown by least counterexample
(`LeastNumber`), and `SubjectInv` keeps it with the requirements, the plans and the reads.
`ConfidenceRestsOnReads` joins the two rounds and everything the reduction concludes:
`EarnedInv` says with what each result was read and in which round (`ResultsAreRead`,
`SecondIsLater`), that each limitation of the first round is of a requirement and of the
capability it is read with first (`EvidenceIsFirst`), and that the confidence decided on the evidence at hand is earned
while the model may still be asked (`EarnedSoFar`). It rests on `RoundsInv` and on
`EvidenceEarns`, which is about the decision itself: a limitation is dropped only if a result
of the second round settles it.

**ReasonerProofs.** `PacketsKeepWhatDecides` and `AnswersRest`, for every evidence that
satisfies `InputsAssumption` and limits that satisfy `LimitsAssumption`. Neither
property is inductive, because each relief relies on what the others left. `PacketInv` says
that the items are some of those received with some of their fields, that derivations and
sources are closed and named, that every drop is counted, and that what is material to the
route is held, intact and, once the protection is computed, protected; each action's lemma
shows each part. `SaidStands` then carries the accepted references.

**ContractsProofs** holds the three other parts of `contracts` and the call of the model.

*The audit.* `OnlyWalksAreRestored`: validation accepts exactly the walks, for logs of any
length and not only those of five events. No induction is needed. The accepted chains are ten,
and each, spelt out (`Chains`), is a walk; conversely every event that may follow
a state is known (`Moves`), the lifecycle graph has no cycle, and so a walk is followed for
three steps and cannot have a fourth (`WalksAreChains`).

*The index.* `AnswersAreCurrent`. The invariant compares versions along the way
an answer goes: the revision a lookup has seen is no newer than the checkout, an index under a
label holds nothing older than the label, and the label of an answer is the lookup's own.
It bounds neither pulls nor lookups nor files.

*The diagnosis.* `OnlyEarnedVerdicts`. `DiagnosisInv` says that every source tried was read or
is missing (`ReadsAreTried`), that nothing called for is left out when the assessment begins
(`NothingIsLeftOut`: three rounds suffice for three sources, which is why
`RoundsAssumption` is needed), and that no verdict stands before. An assessment then cannot
claim what it has not read: by `QuietLogs` a summary without trouble covers the whole window
although it looks at the last lines only, because logs are in order of time
(`LogsAssumption`); by `CeilingIsEarned` and `NothingRaisesConfidence` the model's word adds
nothing; and by `TroubleIsSaid` causes are listed as possible only when the message, a service,
the database, the deployed version or a log tells of trouble. The attempt showed one limit of the claim: of several lines dated at the very instant
at which the window begins, the older may be cut off unseen although the window counts as
covered. `Asked` says so, and the run has a log of this kind.

*The call of the model.* `CallsKeepTheExchange`, the steps of the refinement of ModelExchange, for
answers of any length: each piece of text is heard once and in order, and an answer counts as
complete only when all of it was heard or nobody waits any more. `CallInv` follows the piece
from the scanner to the caller (`CallProgress`): what was heard is the text up to the piece
that is being offered, and a scanner that stopped by itself has read everything.

**EvidenceExecutorProofs.** `TypeInvariant`, `SlotsInvariant`, `DependenciesInvariant`,
`NothingReadAfterCancel`, and `ExecutorImplementsReads`, the refinement of EvidenceReads.
The counters equal the cardinality of the sets of holders, so each acquire and release is a
lemma about adding or removing one element of a finite set. The refinement needs that the
dependencies a goroutine has seen done keep their results.

**ChatSessionsProofs.** `TypeInvariant`, `InFlightInvariant`, `ReaperSparesChats`,
`ModelsUnloadedWhenQuiet`, and for the page `PageIsAClient` and `ForgottenForGood`. That the
counter never goes below zero (part of the type invariant) and that it equals the number of
chats streaming on a session that is in the map are proved together; the invariant also says
that a closing session has a chat.
`PageIsAClient` shows that ChatTab implements ChatSessions, so these theorems hold of the page
too; it needs that every session the page names was issued (`NamesInv`). `ForgottenForGood` is
the safety half of `UnnamedSessionsEnd`: a session that no request, no reply and no variable
of the page refers to (`Forgotten`) stays so and gets no heartbeat and no message; its chats only end, and between their ends its
heartbeat only ages (`OnlyFades`). That it is then reaped needs fairness and is checked by TLC.

**ChatHistoryProofs.** `TypeInvariant`, `RunningOwnedInvariant`, `WorkIsRecordedInvariant`,
`ReferencesInvariant`, `AnswersAreLinkedInvariant`, `OutcomesAreFinal`. Two inductive
invariants: `OwnInv` for the handlers (no entry before the start, a running one while it
works) and `StoryInv` for the tables (an entry that names a chat names one that is there, and
has its question). `AppendKeepsReferences` is the core: a transaction that adds one message
with a fresh id to the chat of the entry it touches keeps the one-to-one correspondence.

The type invariants are proved, and those of the large runs are not run again. Every invariant
of the passing runs, and every property of them without liveness, is a theorem. Only model-checked: everything under fairness
(`EveryRequestAnswered`, `NoSilentLease`, `ExecuteReturns`, `ClosingEnds`,
`LeavesNothingBehind`, `ExecutionEnds`), which is outside the prover's reach, and of
`KeepsExchange` the part that the call ends and leaves nothing running (`Settles`).

Where the code tries conditions in turn, the models use IF and ELSE: the arms of a CASE are
not ordered, so a definition with overlapping arms says nothing certain although TLC
takes the first.

## Assumptions

What the models take for granted about the world:

* MiniDeploy answers 404 or 409 only if it did not restart, and 200 naming the application
  only if it did. `httptrace.WroteRequest` is reported before the request can have reached
  MiniDeploy completely, so that "not written" is final.
* A database operation that fails has committed nothing. With one connection a transaction is
  one step; SQLite enforces its constraints and foreign keys.
* A crash is the death of the process; the machine keeps its files.
* Others tune the CPU only when no lease is held and none is being taken; the operator
  follows the documented procedure (recover while the service is stopped) and does not
  start the service in the middle of it.
* `exec.CommandContext` returns only after the helper has ended, and a helper of the service
  dies with the service (one control group).
* Identities from `randomID` are not repeated; ids of messages are AUTOINCREMENT.
* An identifier denotes one kind of subject: no application shares one with a database, with
  the host or with the marks of an unresolved subject (`SubjectsAssumption`; the code keeps
  the kind beside the identifier, `evidence.go:96`). The platform lists finitely many.
* The dated lines of a log are in order of time (`LogsAssumption`).
* In the executor, looking at the context and calling the capability is one step. The
  dependencies are sorted by `withStableID` (`evidence_plan.go:47`), so awaiting them in the
  order of their numbers is what the code does. Registry look-ups and the cost budget are one
  Boolean of the plan, `registered`.
* Proposals have valid names, identifiers and reasons; a stream is what the finalizer sees
  of it.

## Not modelled

`PROJECT.json` gives the status of every component and what is left out of it. In short:

* Texts: the validation of names and reasons, which words show which concept, prompts,
  frames, wording, the rendering of the page. The models start from what a text shows.
* The extraction of fields from JSON by each reducer, and ReactorLab's validation of them: an
  item of evidence is what it is about, where it comes from and the fields that packets treat
  differently. Sanitising, costs and deadlines of single reads; the invalid-plan error of
  Execute, which the planner's own plans cannot cause.
* Stateless or external parts: the administrator boundary, ReactorLab's HTTP reads, the
  registry's dispatch, the path checks and search of `tools.go`, deployment files.
* Of History the redaction, reads, targets, links, schema validation and migration.
* The agent: `handleAgentChatStream` is reached by no route and a test keeps it so
  (`planner_retirement_test.go`). Its exchange with Ollama is used elsewhere and modelled.
* The keepalive tickers, which only write comments to the client.
* The shutdown of the service waits for nothing (`main.go` ends with ListenAndServe), so it is
  a crash.

## What is left

In order of what it would add: the finalizing transaction of ChatHistory with its targets,
evidence reads and links, and History reads beside it; ChatSessions, ChatHistory and
PowerLease composed for one request, to show the order of its deferred calls under
cancellation; the migration of the tables as a map of rows that keeps every action readable;
the reducers' fields, which would let `ConfidenceIsEarned` and `DecidingEvidenceKept` speak of
the same items.

## How to run it

In this directory, for a run of `PROJECT.json`:

    tlc -workers 2 -config ChatHistory.cfg ChatHistoryMC.tla
    tlapm ChatHistoryProofs.tla

The longest runs are `action_execution`, `chat_history` and `contracts`, each within minutes.
