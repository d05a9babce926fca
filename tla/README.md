# Formal models of the AI receptionist

TLA+ specifications of the parts of this repository where concurrency, crashes
and retries decide whether the product is right, the TLC configurations that
check them on small instances, and TLAPS proofs of what matters most for every
size of instance. The repository is a multi-tenant receptionist: chat and voice
agents that answer visitors, book appointments, remind and follow up, run
tenant-defined workflows and place outbound calls. It is TypeScript on serverless
request handlers, cron endpoints and a long-lived voice gateway (with a Python
worker for the audio), over one Postgres database; nothing is shared between
handlers but the database, and almost nothing is locked.

Run from this directory:

    tlc -workers 2 -config MCAppointments.cfg MCAppointments
    tlapm AppointmentsProofs.tla

## 1. Inventory

Paths are relative to the repository. *Hard* names the behaviours that tests
hardly reach; *correct* says what makes the component right.

| component | state | operations | interacts with | hard | correct |
|---|---|---|---|---|---|
| **Appointments and lifecycle** `packages/scheduling`, `packages/lifecycle`, `src/features/appointments`, migrations 0008, 0010, 0011 | `appointments` rows: status, staff, start/end, conversation | book, reschedule, cancel, check in, running late, staff transitions, no-show sweep | reminders, calendar, confirmations, event bus | every operation checks a copy it loaded and later writes by id only; cron against people | no two active rows of a staff member overlap; histories follow the state machine; one active appointment per conversation; overdue rows get closed |
| **Reminders** `reminder-service.ts`, `claim_due_reminders` | `appointment_reminders` queue | schedule, clear, claim, deliver, requeue, give up | appointments, messaging provider | overlapping cron runs, lost answers, crashes between claim and mark, moves in between | no double send, nothing lost but by a crash or a lost write, queue follows the start |
| **Workflow engine** `packages/workflows`, migration 0009 | workflows, events, runs, logs, timers | dispatch, manual run, step, retry, time out, claim, fire timer, edit | every emitter of events, CRM, messaging | processes killed mid-run, overlapping cron, unknown outcomes, edits between attempts | one process per run, logged steps not re-run, unknown outcomes never retried, runs end |
| **Booking conversation** `booking-orchestrator.ts`, `booking-draft.ts` | `booking_drafts` row per conversation | merge what was said, match it to an open slot, commit, book, move, cancel, save, clear | appointments, availability, LLM | an agreement kept between turns while others take slots; lost draft writes; overlapping turns that upsert the whole row | only a committed time is booked; nothing described as booked unless it is |
| **Availability** `availability.ts`, `timezone.ts` | none | generate slots | appointments, external calendars | DST, buffers, partial overlap after a settings change | a slot offered is free of active rows and busy time |
| **External calendar** `booking-service.ts:378-409`, `packages/providers/calendar` | `external_event_id`, the remote calendar | create, update, delete event | appointments | id written back after an await; swallowed failures | at most one event per row, none for a cancelled one |
| **Confirmations, feedback, intake** `packages/lifecycle` | feedback and intake rows | send, upsert | appointments, messaging | best effort | – |
| **CRM and leads** `packages/crm`, 0009, 0024, 0028 | `customers`, `customer_timeline`, `lead_state`, transition events | find, insert, patch, merge, count, note; lead transitions | event bus, campaigns, calls | a merge is four statements; errors of a lookup look like "none"; nothing is unique; two implementations of the lead states | history and totals survive a merge; transitions legal, DO_NOT_CONTACT final |
| **Campaigns** `packages/campaigns`, 0025, 0029, Twilio dialer | contacts (state, attempt, due, call), campaigns | claim, authorize, dial, settle, bind callback, complete, pause | CRM, voice gateway, carrier | callback before answer, stale attempts, unique index aborting a batch, killed dispatchers | one live call per customer, one dial per attempt, no dial after a refusal |
| **Voice session** `packages/voice/voice-session.ts` | session state, five timers, turn, playback, held words | speech start/end, finals, commit, turn, speak, barge-in, transfer, end | agent runtime, STT/TTS, gateway | timers against speech events, barge-in, late results | one turn at a time, every word accounted for and none answered twice, never silent for good, ends once |
| **Voice gateway and call state** `gateway.ts`, `call-state.ts`, stores, 0020, 0030 | sessions in memory, walks in flight, `calls` rows | admit, claim, start, disconnect, reattach, carrier status, finalize, record, shut down | voice session, campaigns, CRM | un-awaited walks, two gateways, capacity before awaits, partial finalization | call state legal, one session per call, every outcome recorded |
| **Pipecat session and worker** `packages/voice/pipecat`, `services/pipecat-worker` | the session's mirror of the voice session; the worker's gate, pacer and playback | the session's handlers; speak, cut, report | gateway, speech vendors, carrier | four asyncio tasks on one playback, reports lost or crossing a cut | as the voice session; what was cut is not heard; every line is reported |
| **Agent runtime and phone channel** `packages/runtime`, `phone-channel-adapter.ts`, 0019 | transcript rows, `conversation_state` (a whole-row upsert, no compare-and-set), the reply waiting for its delivery, the speech stream | run a turn (context, actions, model, tools, persist, save), cancel, deliver, stream sentences | all channels | cancellation at any await, turns given up while they act, deliveries reported late or twice | a cancelled turn persists nothing; what was said is on record; what was heard is the reply |
| **Qualification** `packages/qualification`, `core/services/voice/sales-call.ts`, `visit-booking.ts` | the snapshot of a call and its booking step, in memory; visits | take in an utterance, read back, confirm, drop, offer and book a visit, compute the outcome | runtime, CRM, scheduling | read-backs against new answers, cancelled turns that were taken in, lost answers of an insert | utterances keep what was confirmed, fields to be confirmed are read back, one visit told as it is |
| **Negotiation** | none (pure) | decide | runtime | boundaries | policy bounds kept |
| **Agents and versions** 0013, 0018, 0030 | agents, versions, live pointer | publish, archive | calls, campaigns | pinned versions | published versions immutable |
| **Learning** 0027 | proposals | propose, decide | agents | – | only approved proposals applied |
| **Providers with fallbacks** `packages/providers/llm/fallback-router.ts`, `packages/providers/voice-vendors`, `llm-adapter.ts` | cooldowns shared by all calls of the process; per request the candidate tried, queue, kept audio, timers | complete, stream, synthesize, recognize, fall over, give up | agent runtime, voice session | failure after half an answer, answers to callers who gave up, replay into a socket that is not open yet | one source per request; what the caller said reaches a recognizer whole |
| **Website widget** `widget/src` | voice loop, messages in flight, live call being set up | tap, type, listen, speak, fall back to turn by turn, hang up, open and close the panel | the site's API, the gateway | late callbacks of stopped engines, promises that settle after a hang-up | no dead end; one user of the microphone, released when the page is done with it |
| **Other adapters, platform, language, knowledge, analytics, tenancy, dashboard, scripts** | none, or third-party | – | – | I/O and text | – |

Components meet in three ways: by **rows** (a handler writes, a cron job or
another handler reads later), by **events** (`emitBusinessEvent`, fired after
the primary write and never failing it), and by **callbacks** (carrier webhooks,
media sockets, speech events).

## 2. Modules

| module | what it is |
|---|---|
| `AppointmentLifecycle` | abstract specification: what the state machine of `appointment-state.ts` promises of a row |
| `Appointments` | the table and all its writers |
| `BookingChat` | the conversation that leads to an appointment: draft, agreement, matching, engine |
| `Reminders` | the reminder queue with its requests and workers |
| `WorkflowRuns` | the workflow engine, its claims, timers and retries |
| `Campaigns` | contacts of outbound campaigns, their dispatchers, and the carrier's and the gateway's side of the calls |
| `Customers` | the CRM's rows, their merges, and the events that make them |
| `MediaSession` | abstract specification: what the gateway may rely on of a media engine |
| `VoiceSession` | the in-process engine |
| `RemoteSession` | the gateway's side of the Pipecat engine |
| `MediaGate` | the worker of the Pipecat engine: playback, cuts, attribution of audio |
| `CallStates`, `CallLifecycle` | the table of call states with its shortest paths; abstract specification of a row of `calls` |
| `VoiceGateway` | one call at several gateways |
| `AgentTurns` | the turns of a phone conversation: runtime, phone channel, media session's part |
| `SpeechStream` | the reply of one turn while it is streamed |
| `Qualification` | the qualification engine, as operators |
| `SalesCall` | the qualification call around it |
| `WidgetVoice` | the voice of the website's widget |
| `OneSource` | abstract specification: what the caller of a provider with fallbacks may rely on |
| `LlmRouter`, `TtsFailover`, `SttFailover` | the three that implement it: models, synthesis, recognition |
| `AppointmentsProofs`, `MCAppointmentsProofs`, `RemindersProofs`, `WorkflowRunsProofs`, `CampaignsProofs`, `VoiceGatewayProofs`, `ConversationsProofs`, `MediaEnginesProofs` | theorems, section 5; `MCAppointmentsProofs` is about the serial instance and `BookingChat` as `MCAppointments` composes them, `ConversationsProofs` about everything that `MCConversations` composes, `MediaEnginesProofs` about `VoiceSession`, `RemoteSession`, `MediaGate` and `WidgetVoice` as `MCMediaEngines` does |
| `MC*` | instances for TLC; each `.cfg` is one run |

### Appointments

*State.* `rows` is the table; `task[p]` what actor `p` holds between two awaits
(a chat turn with the appointment it found, a loaded copy with the status or slot
to be written, a sweep's batch); `clock` the time. Ids are given in creation
order, which is what "newest" means to `findLiveAppointmentByConversation`.

*Steps.* An operation is cut where the code awaits the database: **load**
(`TurnLoad`, `LinkRescheduleLoad`), **decide on the copy** (`TurnCancels`,
`TurnReschedules`, `TurnBooks`, `LinkReschedulePick`) and **write** (`Insert`,
`UpdateTimes`, `UpdateStatus`). Where nothing but the loaded row decides, load
and check are one step (`LinkStatus`, `StaffStatus`): the check reads only the
copy. The slot to be written is taken from availability as of the decision, and
the write comes later, so every race the code has is there. `Excluded` is the
exclusion constraint of migration 0010, applied by the database to the row being
written: a violation makes the INSERT or UPDATE fail and changes nothing.
`SweepScan` loads a batch in order of end times and keeps the rows
`isNoShowOverdue` accepts; `SweepWrite` writes them one at a time.

*Abstractions.* A slot is a member of `Slots` (staff, start, end); which slots
working hours, buffers and time zones produce is folded into that set. What the
visitor means is left open: any slot that is open may be the agreed one. Names,
notes, settings other than the sweep's, and side effects on other tables are left
out here; reminders have their own module. A killed request is `Crash`. A
database error in the middle of a sweep is the same step, although the code would
go on with the batch's next row.

*Refinement.* `ImplementsLifecycle` is `AppointmentLifecycle`'s specification
with the table read as its variables: status and slot of each row. An abstract
`Move` goes along `Transitions`, an abstract `Reschedule` needs a live row.

### BookingChat

*State.* `draft` is the conversation's row of `booking_drafts`; `appointment` its
active appointment; `rivals` the slots others hold; `said` the days and hours that
recent messages named (the window is parsed from the message, or from them) and whether
one was about a visit; `chat` the turn under way; `told` the outcome of the last turn.
Only properties read `agreements`, the slots the visitor has agreed to since the draft
was begun, and `seen`, what the appointment was since the turn loaded it.

*Steps.* `TurnBegins` loads draft and appointment and searches availability;
`TurnExtracts` merges what the message and the model made of it (`mergeDraft`),
matches it (`resolveSlot`, `Picked`), commits, and calls the engine or saves the
draft; `EngineBooks` and `EngineCancels` are the engine's answer and what becomes of
the draft. Every write or delete of the draft may fail and is then only logged
(`MayStore`), a failed lookup counts as no draft, and the turn may fail at any
await. Between any two steps, those of one turn too, others take and give back slots and
the manage link or staff move, check in or close the appointment: the engine's guards look
at the copy the turn loaded, its statements name only the row.

*Abstractions.* A message is what the parsers make of it (cancels, commits, is about
scheduling, day, hour); the answer of the model is any its schema allows, a failed one
is `none`. Names, contact data and service are the set `Details`. What a turn hands on
is its outcome, from which the reply's permitted claims follow (`actionsForOutcome`),
and not the words of its prompt section (one of them contradicts its outcome, section
6). One staff member. Turns do not overlap (overlapping ones are in `Appointments`).
That time passes (minimum notice) and that a statement's answer may be lost after it was
done are in `Appointments`, not here.

### Reminders

*State.* What the reminder side sees of an appointment (`phase`, `start`), the
`queue`, the steps a request has left, the batch a worker has left, the clock;
and four history variables that only properties read (`delivered`, `lost`,
`orphaned`, `torn`).

*Steps.* A request writes the row and then clears and schedules in separate
steps, as `BookingService` does. A worker claims a batch (`Claim` is one SQL
statement, hence one step), then per row loads, sends and marks. A failed
delivery (`DeliveryFails`) may have delivered all the same. Every write of a worker may
fail and is then only logged (`Written`, `WriteLost`), and so may a request's clear and
its inserts, after which it goes on. `CrashWorker` leaves the rest of the batch as claimed.

`torn` is the history of missed clears: an appointment whose clear failed, whose request
was killed before it, or that two requests were in the middle of at once. A later clear
that succeeds, alone and with nothing newer written, takes it out again.
`RemindersFollowStart` speaks of the others.

*Abstraction.* `Requests` has one member in the run (overlapping ones are in the proof,
for any number). Leads are a small set of integers. A retry that would be due after the
bound on time is due at its last moment.

### WorkflowRuns

*State.* The five tables (`defs`, `emitted`, `timers`, `runs`, `logged`) and, per
process, the **job**: the loop it is in, the workflows, timers and runs that loop
still has to do, and the run being executed (`exec`: attempt, steps as loaded,
index, try). Time is one bit per failed run: whether its backoff is over.

*Steps.* One per await: `createRun`, the first `updateRun`, each step's execution, its
log entry, the `currentStep` update, the settling update, each claim and each emission.
A log entry names the step by its id; which list it was executed from, and at which
place, is kept as history beside it, because a retry resumes by place under a definition
that may have been edited. `LogFails` is the case that the log of a success throws
inside the `try`, which makes the code try the step again. `DispatchFails` is an
exception that `dispatch` swallows inside the timers loop; everywhere else an exception
ends the process's work and is `Crash`. `NextRun` loads the definition as it is now,
which `Edit` may have changed since.

*Abstractions.* `defs` is a fixed set of workflows (deleting one cascades to its
runs and is not modelled); a step is its id, its action and its retries; conditions are a
nondeterministic `Skip`; ids of events are a finite set, each used once. Effects
of actions outside the engine are invisible except for the timer that
`schedule_followup` arms.

### Campaigns

*State.* `contact` is the `campaign_contacts` table (a row before enrolment has
state `none`; `due` says that `due_at` has passed); `active` the campaigns that
run, `callable` the customers whose lead state and number permit a call;
`dispatcher[d]` the claim an invocation of `CampaignEngine.dispatch` works on and
the rest of its batch. An attempt dials once, so `phone[c][n]` (the carrier's
view: not placed, up, over) and `leg[c][n]` (the row of `calls` and its session:
none, queued, talking, lost with its gateway, closing, closed) are indexed by
contact and attempt; `call` in a row is the attempt whose call id it holds.
`dials` counts requests, for one property.

*Steps.* `Claim`, `Settle` and `Bind` are one SQL function each, hence one step;
`Authorize` and `Dial` are the engine's other two awaits. `Dial` places the call
and fixes the answer together, but the answer is settled in a later step, so
callbacks overtake it. A lost or malformed answer is `unknown` with or without a
call. `Settle` has the three cases of `settle_campaign_contact`: stale (it raises,
which ends the loop), overtaken (it returns), settled. An accepted row inserts its
row of calls by trigger (`Record`). `SessionEnds`, `RecordOutcome` and `Status` are
the three ways in which the gateway closes a call; the triggers' part in each is
`Complete`. `SessionEnds` does not end the carrier's call, because nothing in the
code does (finding 1).

*Abstractions.* The calling window, the agent and the number are not variables:
`Authorize` may refuse at any time, `Claim` may leave any row unclaimed (which also
stands for the order of due times). That a completed or cancelled campaign never
runs again is not kept. A statement that fails ends the invocation as a kill does.
A callback carries the attempt's key, which the carrier echoes and signs.

### Customers

*State.* `customers` is the table in the order of insertion (known email and phone,
`total_appointments`, `merged_into`); `timeline` the rows that timeline entries are
of; `sync` the event being taken in, with the copies that `CrmService` holds.

*Steps.* One per statement, in the order of the code: the lookups, then insert or
merge (the keeper's new columns, the repointing of the loser's history, the stamp on
the loser, an entry) and patch, then the count of a booking and its entry. Any
statement may fail (`SyncFails`): `emitBusinessEvent` logs the error and the rest is
not done. A lookup that fails counts as "none".

*Abstractions.* Names, stages and revenue (added up like appointments) are left out,
and so are lead states. Events do not overlap; see section 6 for what happens if they
do.

### MediaSession, VoiceSession, RemoteSession

`MediaSession` is the interface of a media engine: turns are serialized, none begins
during a handoff or while the session closes, and it is over once. `VoiceSession` and
`RemoteSession` each implement it (`ImplementsInterface`), the second with
`Exclusive = FALSE`: its handoff does not wait for a turn in flight.

*State.* A session is a record with the fields of the class that decide anything:
state, held finals, words carried over from a cancelled turn (`superseded`), timers
that run, the turn in flight, the playback with what follows it, the delivery of each
reply. *Steps.* JavaScript runs a handler to its next await, so a handler is an
operator from session to session that applies the operators of the methods it calls,
and an action applies one event's handler. Timers fire in any order, results arrive
in any order, and a turn that was aborted may still end, well or badly.

Histories say what became of the caller's words: `answered`, `refused` (a line followed
the failed turn), `dropped` (cut by `maxUtteranceChars`, or lost with a failed turn of
which nothing was said).

*Abstractions.* What the caller says is a set of utterances, numbered as they arrive, each
final once; how many of a turn's fit below the limit is left open (`Texts`), and one that
is cut in its middle counts as kept. The
endpointer is speech start and end, the sentence chunker whole lines. The worker holds
finals back while the caller speaks, so a final during speech is more than
`RemoteSession` will see.

### MediaGate

*State.* `worker` is the process: the active playback and its chunk, the queue of
lines, the tasks that wait for the control socket and the frames they send, the audio
in the pacer; `peers` is HALO (lines spoken, cuts) and the carrier (audio and marks
not yet played). *Steps.* Four asyncio tasks (the speak loop, system frames, data
frames, the reader of the socket) run to their awaits; each of their suspension points
is an action. The synthesizer may answer late, for a line already cut, or never.

*Left out.* Transcripts, languages, DTMF, usage, handshake.

### CallStates, CallLifecycle, VoiceGateway

*State.* `row` is the row of `calls` with what `begin_call_conversation` and
`record_call_outcome` put beside it; per gateway `admission` (a `startSession` in
flight), `entry` (the registered session) and `draining`; `walks` the un-awaited
`advanceTo` walks, each along the shortest path of `call-state.ts` from the state it
remembers, one compare-and-set at a time.

*Steps.* A handler to its next await, a statement each: lookup, insert, claim, walk,
start; sockets that close, return and time out; the carrier's final status at any
gateway; the session's own end; finalization and outcome; shutdown; a process that
dies; a statement that fails. A progress status with no live session walks the row
to `completed`, as `gateway.ts:431` does.

### AgentTurns, SpeechStream

*State.* `turn[n]` is where call n of `handleTurn` is, with the words it answers;
`transcript`, `saved` and `pending` are the rows and the held reply; `session` is the
media session's view. *Steps.* One await each; the session may abort a turn at any of
them, give it up after `ABANDON_GRACE_MS`, commit the next utterance meanwhile, and
report deliveries late, twice or never.

`SpeechStream` follows one turn's reply: rounds of tools and repairs, sentences that
are held while a tool call may follow, released, capped or revoked.
`HeardIsTheReply` compares what the channel played with the reply on record.

*Abstractions.* Prompts, memory, escalation, budgets (`maxTurns`), hooks and the
contents of answers are left out; a repair is part of the model step. An action, of the
system or a tool's, does something and reports it, does it and reports nothing (it returns
no outcome, or its answer is lost), or does nothing (`Performs`); only the report commits
the turn. Nothing in production binds a sink yet
(`tests/integration/runtime-safe-streaming.test.ts` does).

### Qualification, SalesCall

`Qualification` is `applyUtterance` branch by branch, over an utterance as the
language pack reads it (intents, and for each question the reading with its
confidence). `SalesCall` is the call around it: the late lookup of the customer and
`restore`, the read-back of poorly heard answers, the offering and booking of a visit
whose answer may be lost or whose time may be taken, cancelled turns whose words come
back, and the outcome.

*Abstractions.* Two values per question, one of which disqualifies or skips; the
negotiation and the sections' wording are left out; turns that are given up while they
act are in `AgentTurns`.

### WidgetVoice

*State.* `voice` is `VoiceSession` of the widget with its speech provider (HALO's own,
or the browser's): the state, what the current listen has got, timers, the recognition
and the playback, and whether a callback of a stopped one is still to come; `widget` the
panel and the conversation's token; `sends` the messages in flight; `call` the live call.
*Steps.* Callbacks, settled promises and taps. A generation counter is modelled by what
it tells apart: whether a callback is of the current listen (or utterance) or of an older.

*Abstractions.* One callback of a stopped engine is kept at a time; interim transcripts,
rendering and the audio of the live call are left out. Two histories only properties
read: `over` (the reply began while the session listened) and `late` (the panel was
closed while an offer of live voice was awaited); section 6 says what happens then.

### OneSource, LlmRouter, TtsFailover, SttFailover

`OneSource` is what a consumer may rely on: pieces of one source, one end, an answer
only if there was something in it, and nothing afterwards.

`LlmRouter` has the process's `cooldowns`, per call the locals of `stream` or `complete`
(`routes`), and what `invokeModel`'s consumer was given (`replies`): a call that was
aborted or timed out is given up by `withDeadline` while its route goes on to find out.
Time is in seconds. A provider's answer is a number of deltas; categories of failure are
limits, retryable outages and refusals. The adapter's second attempt is only for
providers that do not manage retries, which the router does.

`TtsFailover` is one line of speech: the loop over two providers (`line`), the queue of
the one asked (`vendor`: Sarvam's `ChunkQueue` with its timers, or the local engine's
callbacks), and what reached the session (`spoken`), which itself tries once more when it
has heard nothing. A text is one run for the local engine; a split sample is a first
piece of audio that fills no queue.

`SttFailover` is the recognition of a call: what `open` of the fallback provider keeps
(`ear`), the recognizer in use, the frames said, and the finals told. `AllIsHeard`
compares, frame by frame, what was understood and what is still held with what was said.
Its `lost` marks the losses that the recognizers are free to have: no text, a
connection that opens too late for the audio kept. Local trimming of silence and too
short or too long utterances are such losses or failures.

### Compositions

`MCAppointments` runs the table under overlapping requests, the same table with one
operation at a time (an instance), or the chat; `MCCron` the reminders or the sweep;
`MCMediaEngines` either engine, the worker or the widget; `MCConversations` the turns,
the streamed reply, the qualification call, the CRM, or one of the three fallbacks. The
parts of a composition meet nowhere (each has variables of its own); a variable
(`scope`, `job`, `engine`) says which one a behaviour is of, so that one run asks the
question of all of them.

## 3. Runs

The largest passing runs take about three minutes with two workers.

| run | instance | checks | shows |
|---|---|---|---|
| `appointments` | **overlapping**: 2 requests and the cron, 2 rows, two slots of which one is within the other, time 0..2, crashes; **serial**: one actor that is every handler and the cron, 3 rows, 2 conversations of one business, an early and a late slot, grace 2, time 0..4; **chat**: 3 turns, 4 slots on 2 days, six kinds of message, 2 acts of others in or between the turns (1 404 356 states) | `TypeOK`, `NoDoubleBooking`; `SerialImplementsLifecycle`, `OneActiveSerially`; `BookedHourWasAgreed`, `OutcomeWasTrue` | the constraint keeps active rows apart under every interleaving, also when a stale write revives a closed row; without overlap the checks on copies are checks on rows; a chat books no hour that was not agreed to, and what its outcome lets the reply claim was so in that turn |
| `cron` | **reminders**: one appointment, one request at a time, 2 workers, 2 leads, 2 attempts, crashes and lost writes; **sweep**: 1 request and the cron, two businesses of which one opted in, 3 rows, batches of two (642 000 states) | `NeverDoubleSent`, `OnlyCrashesLose`, `RemindersFollowStart`, `QueueDrains`; `OverdueIsClosed` | the queue's guarantees under overlap, loss and crashes; the sweep reaches every overdue row, beside rows that it never closes, as long as these do not fill its batch |
| `workflows` | 2 processes, one workflow that is edited once, 2 events, two definitions of two steps that share a step at different places, 2 run attempts, crashes (277 584 states) | `RunIsExclusive`, `CompletedStepsNeverRerun`, `UncertainIsParked`, `RunsFinish` | the engine's guarantees |
| `campaigns` | two campaigns that want one customer, of two attempts and of one; two dispatchers; dispatchers and the gateway may die (298 848 states) | `OneOngoingCallPerCustomer`, `NeverRedialed`, `RowMatchesCarrier`, `DecisionsStand`, `EveryCallIsAccounted` | the claim, the attempt number and the unique index together keep calls apart |
| `media_engines` | sessions: 2 utterances, 1 reprompt, 1 reconnection, 2 failures; worker: 2 lines, the second not interruptible; widget: both speech providers, 2 silent listens, 1 retry, 2 messages (169 356 states) | `WordsAccounted`, `NoDeadAir`, `DeliveryIsFinal`, `EnginesImplementInterface`, `SessionsEnd`; `SilencedStaysSilent`, `EveryLineIsReported`; `MicHasOneUse` | every word has its place and none is answered twice (which are dropped, the property says), no call and no loop of the widget falls silent for good, both engines keep the interface, what was cut is not heard, the widget's microphone has one user at a time and is released, but for two interleavings (section 6) |
| `gateway` | 2 gateways, 1 lost socket, 1 callback, 1 failure (756 625 states) | `OneSessionPerCall`, `ImplementsCallLifecycle`, `EverySessionHasOutcome` | one session per call, legal states, an outcome for every session |
| `conversations` | **call**: 2 utterances, 1 round of tools, 1 failed statement; **reply**: 2 rounds, 5 model calls; **sales**: 2 questions, 2 visits, each question asked 2 times, a known bill; **crm**: 4 events about one email and one phone; **model**: 2 calls of 3 models, two of one provider; **line**: 3 pieces of audio; **hearing**: 4 frames of which 3 are kept, 2 ends of utterances; both orders of the speech providers (1 168 568 states) | `CancelledPersistsNothing`, `ConversationIsOnRecord`; `HeardIsTheReply`; `UtterancesKeepConfirmed`, `CriticalIsReadBack`, `VisitIsAsTold`; `MergeLosesNothing`; `FailoverIsOneSource`; `AllIsHeard` | what a conversation leaves behind is what happened in it; a request is served by one provider, whichever fails when, and no word of the caller is lost in between |
| `campaigns_lingering` | one attempt each, one dispatcher, nobody dies | `OneCallPerCustomer`, violated | finding 1 |
| `gateway_interrupted` | one gateway's lost socket against the session's end | `InterruptedProceeds`, violated | finding 2 |
| `turns_rerun` | 2 utterances, nothing fails | `ActionsRunOnce`, violated | finding 3 |
| `sales_dropped` | the qualification call alone | `DroppedIsAskedAgain`, violated | finding 4 |
| `appointments_agreed` | the chat alone | `BookedSlotWasAgreed`, violated | finding 5 |

*Bounds and why they are enough.* The properties speak of pairs (two rows, two
processes, two gateways, a copy and its row, a turn and the next), so two of each kind
of actor that meet, and rows enough for both to hold one, exhibit every conflict; a
third row in the serial scope lets a conversation book, lose and book again. `MaxTime`
lets a row be booked, end, wait out its grace and be swept. Two attempts separate
"retried" from "given up"; two leads and two reminders let a batch be half done. Two
events let one be business and the other a timer's. Three turns of a chat are: agree,
complete, and come back; its four slots contain two in one hour, one in another hour,
and the same hour of another day, which is what `resolveSlot` tells apart. One email
and one phone make at least two rows of one person, and four events make a merge that
fails and one that is tried again. Two utterances make one extend or follow the other;
one failed statement is enough to stop between any two.
Two models of one provider and one of another are what a cooldown tells apart, and two
calls share it; three pieces of audio make a line that fails before, after and between;
four frames with room for three make the buffer overflow and be replayed before that.
Two silent listens and one retry of the widget separate "again" from "given up".

Each module of state has a type invariant. Those of `Appointments`, `Reminders`,
`WorkflowRuns`, `Campaigns`, `VoiceGateway` and `AgentTurns` are theorems; the others
hold on the instances above, where they can be added to the `INVARIANTS` of a run, and
are left out of it except in `appointments`.

At a bound an insert behaves as a failed insert, which the code handles; the clock
just stops, a chat has its last turn, a closed session is not used again, gateways
that have all shut down admit nothing: where a system may really stop, its
configuration says `CHECK_DEADLOCK FALSE` and why. `OverdueIsClosed` speaks only of rows
that become due before the clock stops; of the queue every row does.

In `campaigns` the two contacts are of different campaigns, which is what makes
them compete, so every batch there has one row; what a batch of several adds (the
rest of it after a stale answer or a kill) is covered by the proofs, for any batch.

*Fairness.* Time passes (`WF` on `Tick`). The sweep is called again and again by
its cron and an invocation may be killed, but not every one of them before it acts
(`SF` on its steps). A reminder worker that is not killed goes on (`WF`); no
fairness at all is assumed of requests or of failures. A workflow process that is
not killed goes on (`WF`), cron invocations keep starting, and not every one is
killed before it claims (`SF` on `ClaimRuns`); a backoff elapses (`WF`). Nothing
obliges a kill to be repaired. Of campaigns only this is assumed: calls and sessions
end, and the carrier delivers its signed callbacks sooner or later (`WF` on
`CallStep`), which is its retry policy; no dispatcher need ever act.

Of a media session: its timer for the longest call fires, the watchdog of a line that was
synthesized does (in `RemoteSession`, that of any line), an aborted turn is given up after
its grace, and the teardown finishes (`WF` on each: all are timers or promises of the
process itself). Nothing is assumed of the caller, the carrier or the synthesizer. After
the first audio of a line nothing bounds the wait for the rest of it
(`sarvam-tts-provider.ts:203`), and a goodbye is waited for; so of the in-process engine
`SessionsEnd` says that it closes whatever happens, and that it ends if the synthesizer
leaves no line open for ever. Of the worker:
its loop goes on whatever else happens (`SF`, since a sender may hold it up again and
again) and the socket takes frames or closes (`WF`); synthesizer and carrier need never
answer, the timeouts of the loop do. Of a gateway that does not die: its statements
return, sessions end, reconnection timers fire, walks proceed (`WF` on each).

*Mutants.* Each property of a passing run is broken by a mutant of one mapped
definition, defined just before it and marked "Mutant": the constraint before
migration 0010, a claim that does not flip the status, a retry limit that is off by
one, a corrected time that keeps the old agreement, a loser stamped before its history
is moved, and so on.

## 4. Findings

1. **A customer on the phone may be called** (`campaigns_lingering`). A session
   that ends by itself (goodbye, speech failure, time limit) closes the row of calls
   and completes or reschedules the contact, but nobody hangs up:
   `TelephonyProvider.hangup` has no caller and the in-process media socket stays
   open. The index of migration 0025 (`0025_campaigns.sql:175`) no longer holds the
   customer. `docs/VOICE_STATE_MACHINE.md:133` promises "goodbye + hang up". As
   long as the gateway has the call, `OneOngoingCallPerCustomer` holds.
2. **A finished call may stay interrupted** (`gateway_interrupted`). The walk to
   `interrupted` is not awaited (`gateway.ts:406`); a session that ends meanwhile
   walks from the state its entry remembers, misses, and nothing moves the row again.
   `docs/VOICE_STATE_MACHINE.md:50` says it recovers or proceeds.
3. **An action may be done twice** (`turns_rerun`). A turn that has acted is waited for
   only one second after a barge-in; then its words are put before the caller's next
   ones (`voice-session.ts:656`). `docs/PIPECAT_INTEGRATION.md:208`: "never re-run".
4. **A dropped answer is not asked for again** (`sales_dropped`). Dropping an answer
   that was read back late leaves the status `complete` (`engine.ts:238`), so no
   question follows. The comment says "Drop it and ask again" (`engine.ts:198`).
5. **A time that was never agreed to is booked** (`appointments_agreed`). A committed
   10:00 that somebody takes before the details are complete is read as "some time at
   10" and books 10:30 (`booking-draft.ts:278`). "Only a committed time may be booked"
   (`booking-draft.ts:31`). To the hour, `BookedHourWasAgreed` holds.

Nine more disagreements were found with models of this project and are stated without
a run of their own:

- *The sweep can starve.* Its batch is global and oldest first; rows of businesses
  without `autoNoShowEnabled` stay live and may fill every batch
  (`scheduling-repository.ts:120`, against `:115` and item 9 of `docs/ROADMAP.md`).
  `OverdueIsClosed` names that case and exempts it.
- *Terminal is not final.* `updateAppointmentStatus` (`scheduling-repository.ts:250`)
  names only the id: of two requests with copies of one live row the later overwrites a
  terminal status (`appointment-state.ts:41`).
- *A checked-in visitor can still cancel*: `cancel` uses `assertTransition`, not
  `isLive` (`booking-service.ts:284`, `appointment-state.ts:63`).
- *A killed run does not recover*: the claim looks only at `failed` rows
  (`0009_workflows.sql:100`, `docs/CURRENT_STATE_AUDIT.md:925`).
- *The remote handoff does not wait.* `RemoteSession` commits an utterance whenever
  speech has ended, whatever the state (`remote-session.ts:292`), where its comments
  (43-44, 647-650) say otherwise; this is why its interface is the one with
  `Exclusive = FALSE`.
- *Something uncertain is accepted silently.* A poorly heard or ambiguous answer to a
  question without `confirm` is kept unconfirmed when the caller moves on, and may
  disqualify (`engine.ts:204-211`, against `:16-17`).
- *A confirmed answer is asked for again.* A customer lookup that failed is tried again
  later, and its `restore` wipes confirmed answers and re-opens a closed qualification,
  do-not-call included (`sales-call.ts:140-152`, against `engine.ts:18`, `265`).
- *A done step is done again.* If the log of its success fails, the step is tried again,
  and a retry resumes by place, which after an edit may be that of a done step
  (`packages/workflows/engine.ts:247`, against `:164`).
- *The widget hears its reply.* One that arrives when the visitor has tapped twice is
  spoken while the session listens (`widget/src/voice-session.ts:191`, against `:12`).

## 5. Proofs

Proved from nothing, `ConversationsProofs` and `MediaEnginesProofs` take about a quarter of
an hour each, the others a minute or two. A leaf names a prover where the default order
(SMT, then Zenon) wastes its time or is near its limit.

`AppointmentsProofs` proves, for any sets of actors, conversations, staff and
slots and any bounds (assumptions `SlotsAssumption` and `ParametersAssumption`:
a slot ends after it starts, parameters are naturals, `TenantOf` and `Grace` are
functions):

- `TableIsWellTyped`: `Spec => []IInv`. `IInv` is `TypeOK` with
  `CopiesAreOfRows`: every copy in memory is of a row of the table. `TypeOK` alone
  is not inductive: an UPDATE by the id of a copy must find a row, or the write
  would give the placeholder of an unused id a status. Rows are never deleted, so
  it holds of every task; one lemma per group of steps, over two lemmas that say
  when moving to a task keeps the invariant.
- `NeverDoubleBooked`: `Spec => []NoDoubleBooking`, from `IInv`. The
  argument is that every write of a row passes `Excluded` against all others, and
  `Overlap` is symmetric; nothing else of the code is used, which is the point:
  stale copies and kills cannot matter.
- `OneActiveAtATime` and `ImplementsLifecycleAtATime`, from the hypothesis `OneHandler`
  (there is one actor, so operations do not overlap): `OneActivePerConversation`, and the
  refinement `ImplementsLifecycle`. Without the hypothesis both are false of the code
  (section 6). `SerialInv` says of every task that it is `AsLoaded`: its copies hold what
  the table holds, what was decided on a copy is legal for it, and a turn that found no
  appointment, or is about to insert one, is of a conversation that has none. A sweep that
  goes on after a write has copies of other rows, so it is not disturbed. With it every
  change of the table is a `LegalWrite`: an insert for a conversation without an
  appointment, a move of a live row, or a status along `Transitions`, and each of these is
  a step of `AppointmentLifecycle`.

`MCAppointmentsProofs` proves, of the behaviours of `MCAppointments`:

- `OneAtATimeOneActive` (`OneActiveSerially`) and `OneAtATimeImplementsLifecycle`
  (`SerialImplementsLifecycle`), from `SerialAssumption` (one handler; slots, graces and
  bounds as in `AppointmentsProofs`). The theorems of `AppointmentsProofs` are taken as
  theorems of an instance, `Single`; that its operators are those of `Serial`, the instance
  of the run, is shown operator by operator.
- `WhatIsToldWasSo` (`OutcomeWasTrue`) and `OnlyAgreedHours` (`BookedHourWasAgreed`), for
  any calendar, messages, details, limits, turns and acts of others, from
  `ChatAssumption`: days and times of slots are positive, because 0 is the model's "not
  given", and `None` is not a record. `ChatInv` follows the agreement through every copy
  of the draft: the stored row, the one a turn has loaded and the one the engine was called
  with are each committed only to a day and hour of an agreed slot, and the engine's slot
  is of such an hour; what was agreed to is only forgotten together with the draft. And
  while a turn is under way the appointment is the one it found, and nothing has been told.
  `BookedSlotWasAgreed`, about the slot and not its hour, is false (finding 5).

`WorkflowRunsProofs` proves, from `WorkflowAssumption`:

- `EngineIsSound`: `Spec => []IInv`. `IInv` adds to `TypeOK`: jobs hold disjoint
  runs; each run a job holds is `running` in the table (or `pending`, before its
  first write), with the attempt the job counts; a claimed run has an attempt left;
  what is logged lies, by its place, below the run's next step, except the entry whose
  `currentStep` update is due (`JobFits`); a failed run has an attempt left and its log
  lies below its next step (`RunFits`). The table and log are parameters of these, so a
  lemma can speak of the values before and after a step.
- `OneProcessPerRun` and `NoStepRunsTwice` follow from `IInv`:
  `RunIsExclusive` and `CompletedStepsNeverRerun`. The second speaks of ids: in the list a
  step was logged under, different places have different ids. Under a list edited since,
  the place may be that of a done step, and a step whose entry was not confirmed is tried
  again; the code does both (section 4). `UnknownIsNotRetried` is
  `UncertainIsParked`, inductive together with `IInv`: whoever holds a run of unknown
  outcome is about to give it up.

`CampaignsProofs` proves, from `CampaignAssumption` (a campaign has a customer at
most once, which is a unique constraint; attempts are bounded by the table's check):

- `Invariant`: `Spec => []IInv`. `IInv` adds to `TypeOK`: **claims** are disjoint
  between dispatchers, an untouched claim is fresh (its row is still `dialing` with
  its attempt, nothing requested) and an answer says the truth about the carrier
  (`ClaimsOK`); **rows** agree with their calls: traces of an attempt exist only in
  the order request, call, row of calls, none of them for attempts to come, an
  ongoing call is the present attempt's and keeps the row holding its customer, an
  uncertain row is in nobody's hands (`RowOK`); and the unique **index** holds. A
  fresh claim is what makes a dial the first of its attempt; that the answer of a
  refused dial is truthful is what lets the row be released.
- `OneCall`, `NoRedial`, `RowsMatch` follow from `IInv`; `DecisionsAreFinal` is
  the action property `DecisionsStand`, from the types alone.

`RemindersProofs` proves, from `ReminderAssumption` (budget and batch are positive),
for any appointments, lead times, requests and workers:

- `SentOnce` and `NoneIsDropped`, from `IInv`: claimed rows are in one batch of one
  worker, and once (`ClaimsApart`); what is claimed is marked failed with its attempt
  counted (`ClaimsAreCounted`); a row has had no more deliveries than attempts, fewer
  while an attempt is made, and after a confirmed one none is made (`RowSound`); a
  failed row with attempts to spare is held, undeliverable or orphaned
  (`RowAccounted`). That the attempt is counted before it is made is what bounds the
  deliveries whose confirmation was lost.
- `RemindersKeepUp` (`RemindersFollowStart`), whatever fails and however requests on one
  appointment overlap. `FollowInv` says that of an appointment that is not torn one request
  at most is in the middle (`Alone`), what a request that has yet to schedule knows of the
  row, and that a waiting reminder at another time is about to be cleared. The clear that
  makes an appointment whole again is alone and of the row as it is; the theorem does not
  say that one comes, since the code retries none.

`VoiceGatewayProofs` proves, from `GatewayAssumption`:

- `OneSession`: `IInv` is `TypeOK` with: there are as many sessions as claims of
  `begin_call_conversation` (one or none). The single flight of a gateway is not needed;
  the claim alone makes it.
- `RowKeepsLifecycle`: the refinement `ImplementsCallLifecycle`. Each compare-and-set of
  a walk, each callback and each finalization is a step of `CallLifecycle` or a stutter.

`ConversationsProofs` proves, the first two of `AgentTurns` and the others of the
behaviours of `MCConversations`, from `TurnsAssumption`, `SpeechBounds` and
`ProviderBounds` (bounds are naturals, a stream has a delta, a socket's buffer room for one
frame) and `SchemaIsParsed` (the schema and the utterances are such as
`parseQualificationSchema` accepts and the language pack answers):

- `CancelledIsNowhere` (`CancelledPersistsNothing`), from `IInv`: what is in the transcript,
  in a state or held for delivery is of a turn that is past its persistence, and a turn in
  which an action reported success passes every checkpoint. It does not say that a
  cancelled turn did nothing: an action that reports nothing does not commit its turn.
- `OnRecordWhenClosed` (`ConversationIsOnRecord`), from `OrderInv`: as long as no turn
  was given up and no statement failed (the property's own premise), one turn runs at a
  time, the state it loaded is what all earlier ones saved, their replies are written or
  the last is held, and the rows are in the order of the turns (`Orderly`).
- `ReplyIsHeardOnce` (`HeardIsTheReply`), for any number of tool rounds and sentences:
  `SpeechInv` numbers the sentences by the call of the model that made them. What is held
  belongs to a round that offers tools, what is released to the one that offers none, so
  there are never both; both are of the call in flight, and preambles of earlier ones.
- `ConfirmFieldsAreReadBack` (`CriticalIsReadBack`) and `NoUtteranceUnconfirms`
  (`UtterancesKeepConfirmed`), for any schema, any set of readings and a call of any length:
  `InterviewInv`. Between two utterances (`Sound`) neither the answer that is read back
  nor that of the question that is open is confirmed, and an answer which must be read back
  is confirmed, being read back, or was asked for often enough. While an utterance is taken
  in, the question that was just confirmed may still be open until the next is chosen;
  `Midway` is what holds then, and lemmas say what each branch of `applyUtterance` may change.
- `OneVisitAsTold` (`VisitIsAsTold`), for any times, attempts and turns, from `VisitInv`:
  where the booking step was left says what it knows (`TurnKnows`, `CallKnows`). It inserts
  only having seen no appointment of the conversation, so that a visit whose confirmation
  was lost is found and not booked twice (`OneVisit`), and what it says afterwards is said
  of the calendar as it then is.
- `HistoryIsConsolidated` (`MergeLosesNothing`), for any emails, phones and events:
  `CrmInv`. An event's copy of a row is what the row holds, since the events of the model
  come one at a time; entries are moved before the loser is stamped; and between the first
  and the last statement of a merge the loser's total is counted twice (`Twice`), which is
  the only excess unless a statement failed. The model's `Counted` is a fold over the rows;
  `FoldIsSum` shows it equal to a running sum, of which the lemmas on single writes speak.
- `AnswerIsOfOneModel`, `LineIsHeardInOneVoice` and `CallIsUnderstoodByOne`, together
  `ProvidersAreOneSource` (`FailoverIsOneSource`): the refinement of `OneSource` by the
  router, for any number of concurrent calls, of deltas and of seconds, and by synthesis
  and recognition. `RouterInv` says of each call what its route and its consumer know of
  each other, `LineInv` that a line from which audio was released stays with its provider,
  `HearInv` that a recognizer that had a final is not left.
- `NothingSaidIsLost` (`AllIsHeard`), for a call of any length: until the first final
  the buffer is all that was said, and a recognizer that takes over is given it in
  order. The replay is a fold over the buffer, and `LEMMA Induction`, over a *set* of its
  positions, stands in for the induction theorem, whose parameter is an operator; the
  library's definitions of folds and of `FlattenSeq` are unfolded one step at a time.

`MediaEnginesProofs` proves, of the behaviours of `MCMediaEngines` and from
`VoiceAssumption` and `WidgetAssumption`, for a call of any length:

- the engines. `SessionIsKept` and `RemoteIsKept` say of either session where its words
  are (`Accounted`: held as finals, left by a superseded turn, with the turn in flight,
  answered, refused or dropped, and each in one of these places), that something is
  under way which leads out of its state (`Awaited`: a turn in flight while it thinks, a
  line while it speaks, a timer while it listens, and so on), and that a line, a turn
  and a state fit each other (`Core`, `LineFits`). Two parts differ. In process, a reply
  that transfers or ends the call plays with no turn in flight and no timer that could
  begin one (`Obeyed`); of the worker's engine the line of a handoff or a goodbye is not
  interruptible (`Owned`), which is why a cut by the worker always finds a live call.
- From these follow `EveryWordHasItsPlace` (`WordsAccounted`), with the widget's
  `LoopHasNoDeadEnd` also `NeverDead` (`NoDeadAir`), and `DeliveryStands`
  (`DeliveryIsFinal`), since only the reply that plays is without a delivery.
  `EnginesImplement` (`EnginesImplementInterface`) is the refinement of `MediaSession` by
  both, through `Seam`: each step is one of the interface's or a stutter. `Leads` carries
  the difference between the two, that the handoff of the worker's engine does not wait for
  the turn in flight.
- the widget. `PageIsKept` ties the page's phase to the recognizer, the audio element and
  the request in flight, and the session to the live call: while one has the microphone the
  other is idle. `MicrophoneHasOneUse` (`MicHasOneUse`) and `LoopHasNoDeadEnd` follow.
- the worker. `SilencedStaysSilent` (`SilenceIsKept`), for any number of lines, chunks and
  cuts, from `GateIsKept`. A line that was cut is *dead*: its playback is over or a cut that
  covers it is on its way, and no later step takes it up again, because the lines are taken
  in the order they were queued. Audio passes only for the line that plays and is not over;
  what is still to be synthesized and that nobody waits for lies before a cut; a cut that
  was applied leaves no audio of its line behind it; each suspended task has one frame of
  its own in the queue. The model's CHOOSE of the first cut is replaced by the least
  position of a non-empty set of naturals (`LeastOf`), which exists because they are
  well-founded.

Every invariant and action property of the passing runs, and every refinement, is thereby a
theorem. Model-checked only is liveness (`OverdueIsClosed`, `QueueDrains`, `RunsFinish`,
`EveryCallIsAccounted`, `SessionsEnd`, `EveryLineIsReported`, `EverySessionHasOutcome`),
since fairness and ENABLED are beyond the prover; and the five violated properties of
section 4 are what their traces show.

No module declares a RECURSIVE operator: paths over the call states are a recursive
function.

## 6. Known behaviour outside the properties

Facts met while modelling, by inspection or in traces, that the properties allow or that a
model leaves out; each is a candidate for a decision by the team. Most contradict nothing
that is written; where a comment, a document or a prompt says otherwise, it is quoted here
or in section 4.

*Appointments and chat.* With overlapping operations the sweep can close a visitor who
has just checked in, two overlapping turns of one conversation can book twice, and two
overlapping reschedules leave reminders of the losing start (`booking-service.ts:259`).
A turn that answers "unchanged" returns without saving the draft, so an older committed
time survives and may move the appointment once that time is free; a stale committed
draft whose deletion failed does the same. `namesTimeOf` compares only the hour, so
"10:30 instead" is "unchanged" for an appointment at 10:00. When the move of a
checked-in appointment is refused the prompt says "The booking FAILED and no appointment
exists" (`booking-orchestrator.ts:348`), against the outcome, which lets the reply claim the
one that does. An appointment that is closed in the middle of a turn is moved all the same,
and told as moved: the update names only the row (`scheduling-repository.ts:281`). Details
given in the message of an "unchanged" or "nothing to cancel" turn are dropped. A failed
lookup of the draft counts as none and the next save overwrites it, and overlapping turns
overwrite each other's draft.

*Calendar.* Moving to other staff updates the event id in the new person's calendar;
busy times are read from `member.calendarRef || connection.calendarRef` while events go
to `connection.calendarRef`; an id written back after a move or cancellation leaves an
orphan or a second event.

*Reminders.* A clear that fails is only logged (`scheduling-repository.ts:428`) and the new
rows are scheduled all the same: the visitor is reminded of the old start too. Nothing
clears again until the appointment is next moved or closed.

*Workflows and campaigns.* A timer is marked fired before its event is emitted
(`0009_workflows.sql:150`): a kill in between loses the follow-up. A conflict in the
claim aborts the whole batch (`0025_campaigns.sql:176`). A campaign paused between claim
and authorization leaves its contact `blocked` (`engine.ts:43`). A call that ends in
another state without an outcome leaves its contact accepted (`0029:49`).

*CRM.* The schema says "merges keep the oldest row" (`0009_workflows.sql:166`); the code
keeps the email match. The comment on `markMerged` calls a re-run harmless, but the
keeper's totals are added before the loser is stamped, so a re-run after a failed stamp
counts them twice (`MergeLosesNothing` allows exactly that). `recordAppointment` and
`recordRevenue` are read-modify-write: overlapping events lose one of two updates, and
may set a stage back. No index makes email or phone unique, so overlapping events create
duplicates, and a loser's own email is lost when the keeper has another. A merge ignores
`lead_state`: the number of a LOST loser lives on with a callable keeper.

*Voice session.* If the grace timer commits a turn while a reprompt plays, the
reprompt's end leaves the state `thinking`, and the answer is recorded as not delivered
and counted as a failure. A turn that times out, or fails, loses its words: an apology
follows if the caller has not spoken on, otherwise nothing does. What exceeds
`maxUtteranceChars` is cut without a word (`voice-session.ts:504`,
`remote-session.ts:378`). A transfer ordered by a turn whose result is discarded is
lost, although `transferIssued` is set.

*Gateway.* `interrupt` has no production caller. A hangup or shutdown during the
admission's walk leaves the row `in_conversation` for good; shutdown misses a call that
is being admitted; a stale socket's close ends a call that was re-attached; concurrent
admissions exceed the capacity (`gateway.ts:243`); a `start()` that throws leaves its
entry registered; a progress status without a live session walks the row to `completed`
(`gateway.ts:431`); in Pipecat mode a closed socket ends the session at once.
Suppression of a number comes with the outcome's trigger, so a lost outcome loses it.

*Runtime.* An action that acts and reports nothing does not commit its turn
(`contact_suppression` returns null, `sales-call.ts:157-160`; a provider that throws after
its insert is caught, `agent-runtime.ts:317-323`): the turn may be cancelled and its words
acted on again. A conversation state that fails to load is empty and later saved over the old
row; `withTimeout` does not cancel a late save; a delivery's write may be in flight when
the next turn loads the history; an append that fails leaves its held reply; the web
channel does not serialize turns; a retry of a streamed model call would repeat
sentences that were heard.

*Worker.* The mark of a chunk may overtake its last audio (`worker.py:715`, against
`media_gate.py:25`); `stop_playback` of a queued line is ignored; a cut that crosses a
completion reports the line twice; a synthesizer's start after the 15 s timeout may bind
to the next line's chunk; a cut drops pending finals; the watchdog of `RemoteSession`
does not stop the worker, so a later line queues behind.

*Qualification.* Read-backs of poorly heard answers
raise no attempts, so `maxAttempts` can be exceeded and the loop need not end; a poorly
heard answer may disqualify without a read-back. A cancelled turn has already been taken
in and its words come again. The outcome is computed while the last turn may still be
taking in a do-not-call. `visit-booking.ts` ignores its idempotency key. Concessions may
still be offered after a do-not-call, and conditions are evaluated on unconfirmed values.

*Agents.* Drafts number themselves by maximum plus one and collide under overlap (a
unique constraint refuses the second); publish and rollback check a status that may be
stale; that the live version is published is left to a trigger.

*Providers.* The model router never resets its strikes on success; a shorter cooldown
overwrites a longer one (`fallback-router.ts:49`), and after waiting for one the provider
is asked although another call may have renewed it (`:71`). After the first audio nothing
bounds the wait for the end of a line (`sarvam-tts-provider.ts:203`); without a fallback
around it, that provider ends a line whose completion came before any audio as if it had
been said; the timer of the local engine may fail a line whose last piece is out
(`local-tts-provider.ts:67`). `pendingFinalize` of the recognition's fallback is never
reset (`fallback-stt-provider.ts:50`): after an utterance of which no final came, a
recognizer that takes over is told to end the next one in the middle. A replay of up to
480 kB into a Sarvam stream that is still connecting keeps the newest part only
(`sarvam-stt-provider.ts:225`). A non-fatal error of the recognizer after the first final
closes the stream.

*Widget.* A reply that arrives after the visitor tapped twice is spoken while the
session listens (`over`, section 4). A live call, or the turn-by-turn session in its
place, starts although the panel was closed while the offer was awaited (`late`). Two
messages in flight without a token start two conversations.

## 7. Not modelled, and why

- *Calendar sync*: best effort against a vendor whose behaviour the code does not fix.
- *Confirmations, feedback, intake*: single upserts whose failures are swallowed.
- *Lead states*: one statement each, guarded twice by the same table.
- *Negotiation, language, knowledge, prompts*: pure functions of text and policy.
- *Agents and versions, learning*: SQL guards on single statements.
- *Other provider adapters, platform, analytics, tenancy, dashboard, scripts*: input and
  output, read-only, or presentation; their failures are nondeterministic outcomes above.

The map covers about 15 % of the repository's implementation lines. Most of the rest is
of these kinds: dashboard pages and settings forms, prompts and text parsers, vendor wire
formats, schema and row-level policies, seeds and scripts. A model of them would restate
the text. What is left with protocol state of its own is small: the capacity of a gateway
(a counter over many calls, `gateway.ts:243`) and the external calendar's event ids
(`booking-service.ts:385`, under *Calendar* above), neither of which any property covers.

## 8. Plan

No safety property that a run checks is left to prove. What would say more is more of the
code: the parts of section 7, the overlapping events of the CRM and the overlapping turns
of the web channel (section 6) as models of their own, and the calendar's event ids. When
the code closes one of the races of section 6, the hypothesis or the exemption that stands
for it (`OneHandler`, `torn`, `over`, `late`, `dropped`) should be dropped from its theorem.
The late restore of section 4, item 7, would be the next finding with a run of its own.
