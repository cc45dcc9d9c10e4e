# NanoClaw in TLA+

NanoClaw is a personal assistant host: one Node process (`src/`) connects chat
platforms to agents, and every conversation with an agent (a *session*) runs in
a container of its own (`container/agent-runner/`). Host and container share no
memory and no socket. They exchange rows through two SQLite files per session:

- `inbound.db`, written by the host: `messages_in` (what the agent has to do),
  `delivered` (what became of its output);
- `outbound.db`, written by the container: `messages_out` (what the agent says),
  `processing_ack` (which rows it has claimed and completed), `container_state`.

The rest of the coupling is a heartbeat file and `docker run` / `docker stop`.
What can go wrong here is what goes wrong in a distributed system: both sides
act on what they last read of the other.

## 1. The system's parts

| part | state | operations | what is hard |
|---|---|---|---|
| session databases | rows with status, tries, process_after, trigger, on_wake; claims | insert, claim, complete, sync, reset, drop claims | the same row is judged from two files at two moments |
| agent poll loop (`poll-loop.ts`) | the open batch, the follow-up poll, `endedForCommand`, `unwrappedNudged` | poll, /clear, scripts, query, follow-ups, results | two pollers in one process; awaits between claim and push; crashes anywhere |
| container runner (`container-runner.ts`, `container-restart.ts`, `container-runtime.ts`) | `activeContainers`, `wakePromises` | wake, spawn, close, kill, restart, orphan cleanup | several wakers, a kill racing a wake, a host restart with containers alive |
| host sweep (`host-sweep.ts`) | none of its own | sync acks, wake, judge a running container, reset after a dead one | reads the runner's map before and after an await; must tell a hung agent from a slow one |
| outbound delivery (`delivery.ts`) | `inflightDeliveries`, `deliveryAttempts` | two polls, drains, retries, verdicts | two timer chains over the same sessions; effects that land and still throw |
| router, session manager | messaging groups, wirings, sessions | engage, gate, choose a session, write a row, wake, fan out | the fan-out awaits a wake per agent; stored messages are routed again later |
| permissions (`modules/permissions`) | members, sender and channel approvals, name prompts | ask, click, grant, replay | messages keep arriving while a card is open; a replay meets changed gates |
| approvals, OneCLI, questions (`modules/approvals`, `interactive`, `self-mod`) | pending rows and in-memory promises | card, click, expiry, start-up sweep, handlers | double clicks, clicks before the row, restarts between row and promise |
| agent to agent, ncl commands (`modules/agent-to-agent`, `cli/`) | groups, sessions, destinations and their projections, `source_session_id` | route, create, project, dispatch, approve | who may reach whom is copied into every session's file; checks and effects lie far apart |
| container configuration, circuit breaker | `container_configs`, `container.json`, attempt file | update, spawn, restart, back off | a restart works off a map that does not show a spawn in flight |
| providers (container) | SDK stream or engine process with a buffer of follow-ups, continuation | query, push, end, turn, resume | a row is completed when it is pushed, long before the engine has it |
| scheduling | task rows, recurrence | schedule, cancel, pause, resume, update, next occurrence | a task that edits its own series while it runs |
| setup (`setup/auto.ts`, `setup/channels/`) | completed steps, the machine | steps, retries in new processes, channel branches | progress crosses processes in an environment variable; Back after changes |
| typing, channels, databases' schema, formatting | see PROJECT.json | | |

What makes each part correct: a row is completed only when the agent (or a gate
script, or /clear) has had it; a row the agent dies on is retried a bounded
number of times and then failed, never lost and never judged twice; a verdict
never changes; the host writes `outbound.db` only when no container runs; an
outbound row is delivered once unless a delivery of it failed, in order, and
always gets a verdict. Around a session: an agent hears nobody whom no gate has
let in, hears everybody who was granted, and is told one verdict on what it
asked; it sees and changes no group but its own; a session has one container,
with the configuration that was last applied; what is pushed into a query
reaches the engine; and setup repeats nothing and leaves a service that serves
what was wired.

## 2. The modules

| module | models | notes |
|---|---|---|
| `SessionTables` | `messages_in` and `processing_ack` with the statements run on them (`session-db.ts`, `messages-in.ts`) | variables, queries and updates; no behaviour of its own |
| `AgentRunner` | `runPollLoop` and `processQuery` | one action per step between two awaits; extends the tables |
| `HostSweep` | router's last step, `wakeContainer`, `spawnContainer`, `killContainer`, `restartAgentGroupContainers`, `sweepSession`, `cleanupOrphans` | extends the agent, because a kill ends its process |
| `SessionQueue` | the composition: `Next`, fairness, all properties of a session, the inductive invariant | proved in `SessionQueueProofs` |
| `RetryQueue` | the abstract specification: submit, claim, consume, complete, give up | `SessionQueue` implements it (`ImplementsQueue`) |
| `Delivery` | `delivery.ts` with both polls, over any sessions | proved in `DeliveryProofs` |
| `Outbox` | the abstract specification: rows attempted in turn, effects, faults, verdicts | `Delivery` implements it (`ImplementsOutbox`) |
| `Scheduling` | one series of a scheduled task: `scheduling/db.ts`, `actions.ts`, `recurrence.ts`, the sweep around the fan-out | proved in `SchedulingProofs` |
| `ProviderQuery` | one query of the Claude or the amplifier provider with the poll loop around it | the level below `AgentRunner`: where pushed rows go; proved in `ProviderQueryProofs` |
| `Admission` | `routeInbound` with its gates, and the sender and channel approvals | a message becomes a row for each agent, or context, or nothing; proved in `AdmissionProofs` |
| `Approvals` | credential requests, self-modifications and ncl commands that wait for an admin, questions | the dispatcher of clicks and all that expires; proved in `ApprovalsProofs` |
| `AgentGroups` | agent-to-agent routing, destinations and projections, the ncl dispatcher | an approval is one step here, `Approvals` has its details; proved in `AgentGroupsProofs` |
| `Containers` | `index.ts` start-up and shutdown, circuit breaker, container runner for one group, self-modification and configuration | the level beside `HostSweep`: several sessions, stray containers, versions of the configuration; proved in `HostProofs` |
| `SetupFlows`, `Setup` | the channel branches as scripts, and `setup:auto` that runs steps and branches | scripts are data, so the branches share one interpreter; proved in `HostProofs` |
| `MCSessionQueue`, `MCDelivery`, `MCAdmission`, `MCAgentGroups`, `MCContainers` | instances for TLC | symmetry, maps and first states of the database |

How they meet: `AgentRunner` and `HostSweep` are composed in `SessionQueue`,
which abstracts from where a row comes from (`Admission`, `Scheduling`,
`AgentGroups` create rows), from what the provider does with it
(`ProviderQuery`) and from other sessions (`Containers`). Rows that a session
writes are `Delivery`'s; what a delivered row then does is the step `Land`
there and an action in `Scheduling`, `Approvals` and `AgentGroups`, each of
which delivers it again after a failure.

### State and code, side by side

*Rows.* `status`, `seq`, `tries` are columns. `kind` folds the columns the code
branches on: `trigger = 0` (context), `kind = 'task'`, the /clear and other
slash commands, `on_wake = 1` (restart). `ack` is the row's `processing_ack`
entry.

*Time.* No clock: `deferred` holds the rows whose `process_after` is ahead,
`age` counts how many tolerances a claim has outlived (none, 60 s, a declared
Bash timeout too), `silent` holds the claims made since the last heartbeat
(`heartbeatMtimeMs > claimedAt` fails for them), and `hb` is absent, fresh or
older than the 30 minute ceiling. `ClaimAges`, `BackoffElapses` and
`HeartbeatExpires` may fire whenever they can, so every ordering of timers is
explored, impossible ones between independent timers included; that only adds
behaviours.

*The agent.* `phase` is where `runPollLoop` stands. `batch`, `follow` and
`stray` are what its closures hold: the initial prompt, the rows of a follow-up
poll that awaits its scripts, and the rows of such a poll after its query has
ended. `owed` counts prompts that have no result yet: a provider emits events
only while a prompt is owed.

*The host.* One event loop, so one host action at a time. `host` names the
synchronous sections within which the container can still take a step: between
sync and decision (`decide`), between the decision to kill and the return of
`docker stop` (`kill`), between the on_wake row and the stop (`stop`). `slot` is
the runner's two maps for the session. A sweep that awaits a wake (`sweeping`)
goes on when the promise settles, and any other callback may run before that.

*Histories.* `attempts`, `handled` in the session and `landed`, `faults` in the
delivery are not in the code; they record what properties talk about and
influence no step.

*Delivery.* One deliver call is `Send`, `Land` (the effect happens) and
`Return`, or `Throw` before or after the effect. `Refuse` is a throw before the
adapter is reached, `Drop` a return without any effect. A crash forgets the
guard, the counters and the drains.

*ProviderQuery.* `queue` is the Claude stream's queue or the amplifier
provider's buffer, `prompt` what the next turn is to be given, `gen` where the
generator of events stands. `taken` is what the engine was given, `forfeited`
what one of the named events kept from it: `end()` of the buffered provider, its
cap, a push behind the last event, an error, a crash. `stored` is the row of
`session_state`, `continuation` the loop's own variable, `transcripts` what the
engine still finds on disk; a session id may be stored before there is a
transcript.

*Admission.* A pass of the router is a record with the agents that are left;
each `Visit` is the code up to the next await, so passes interleave. A wiring is
an agent, a mode, a sender scope and what to do with ignored messages. A replay
is a new pass with the stored event. Roles are folded into `members` and the
owner who approves.

*Approvals.* `stage` is where a request's own function stands, `row` its row,
`resolvers` the map of promises and timers, `running` the handlers that await.
A card may be seen before the row exists, so clicks may come first. A host
restart empties `resolvers`, `expiring`, `running` and `clicks`, and starts
`sweep`.

*AgentGroups.* Sessions are numbered as they are created. `map` is what
`writeDestinations` projected into the session's file. A call goes through
`state` (due, dispatched, responded, settled), which is its outbound row and
response; redelivery starts it over. Histories: `reached` (groups a call read or
changed), `scoped` (the scopes it was checked under), `asked`.

*Containers.* Versions stand for configurations. `cli` is the docker process the
runner knows, `stray` containers without one: a failed stop kills the docker
client only, and a dead host leaves its containers. `spawning` is the set of
spawns between reading the configuration and the docker process, with the await
of the credential gateway in between. `LoadConfig` is the moment the container
reads the mounted `container.json`.

*Setup.* A process is `pc` with its list `skip` and what it has `done`; a retry
or the entry into the docker group starts the next process with both joined. An
operator answers in any way, a step fails or not. Of a branch the script keeps
where Back is offered, which step changes what (`items`), which restarts the
service, and what follows a failure: stop, go on beside the open question (an
un-awaited `fail()`), or throw.

*Scheduling.* `Issue` is a scheduling tool writing its system row, `Apply` the
delivery action on the host and `Mark` the row's verdict; a crash between them
delivers the command again. `sweep` names the awaits of `sweepSession` at which
a command can be applied: after the ack sync, after the judgement, and before
each row of the fan-out. `half` is the old row between `insertRecurrence` and
`clearRecurrence`, which only a crash can interrupt. The poll loop, the wake and
the stuck rules are reduced to what they do to these rows, `Claim`, `Finish`,
`Die`, `Boot` and `Judge`, which may reset whenever it is reached: `SessionQueue`
has their details, among them a killed container that writes once more. Ids of
settled rows that no query returns any more are used again, which keeps a series
of any length finite.

## 3. The runs

| run | question | instance | outcome |
|---|---|---|---|
| `SessionQueue` | are rows lost, judged twice, revived; does the host ever write beside a live agent; is it a retry queue | 2 rows, all 6 kinds, MaxTries 1, prompts of 2 rows, crashes of both sides unbounded | passes, about 1.5 million states |
| `SessionLiveness` | is every row settled if agents hang | 2 chat rows, MaxTries 1, prompts of 1 row | passes |
| `Delivery` | duplicates, order, a verdict for every row; is it an outbox | 2 rows in one session, another session in the rounds, 2 attempts, 1 crash, 2 seconds | passes |
| `Scheduling` | does a series fork, survive a cancel, or get lost; is a finished occurrence followed by the next | 3 rows, MaxTries 1, 2 commands, 1 host crash | passes |
| `Admission` | do gates, cards and replays admit exactly who was admitted | 3 messages of 2 senders, an unwired group and one with 4 agents of different wirings | passes |
| `Approvals` | do clicks, expiry and restarts settle every request once | 2 requests of every kind, 2 sends of a card, 2 clicks each | passes |
| `AgentGroups` | do maps, replies, scopes and approvals keep groups apart | 2 groups and a third to be created, 3 sessions, 3 acts, 1 crash, 2 tries | passes |
| `Containers` | one container per session, with the configuration applied; does the breaker count crashes | 2 sessions, 4 starts, 1 configuration change, 1 stray each | passes |
| `Setup` | is anything repeated, skipped undone, wired and unserved, or left by Back | all 8 channels, chains of 2 processes and the docker group's | passes, about 7.2 million states |
| `ProviderQuery` | do pushed rows reach the engine, does the conversation resume, does a command get through | 3 rows of 3 kinds, both providers, buffer of 2, 2 crashes | passes, about 0.7 million states |
| `FanOutIndependent` | does one agent's refusal leave the others alone | 1 message to 4 agents | violated |
| `ErrorLeavesClaim` | is the row of a failed query left for the host to retry | 1 row | violated |

What a pass shows, in order: what the type and safety properties named in
PROJECT.json say of every reachable state, and the action properties of every
step, of the instance. Every property is tied to the code by a mutation of one
mapped definition that breaks it.

*Bounds.* Two rows are enough for every hazard listed: a row in the open batch
and one in the follow-up poll, a row that hides another in the window, a row
that wakes a container while another awaits its backoff. MaxTries 1 gives one
retry and one failure; larger values repeat the retry. A prompt of 2 rows lets
both be claimed at once; the runs with a prompt of 1 make the window bite. In
`Delivery` two loops and two rows of one session exercise the guard, the order
and the counters; the second session makes a round visit more than one. In `Scheduling` three rows hold an occurrence, its successor and one
more that a fault could add, and two commands are a schedule and one that meets
it. Three rows in `ProviderQuery` are a batch, a follow-up and a command behind
it, or two follow-ups that are joined; a buffer of two overflows with a nudge.
Three messages in `Admission` are one that asks, one that meets the open card
and one that meets the outcome; four agents give the fan-out something before
and after each kind of wiring. Two requests in `Approvals` are all pairs of
kinds; two clicks are a double click; two sends a redelivery. In `AgentGroups`
three acts are a question, its reply and the command that comes between, or a
call, its approval's effect and a message. Four starts in `Containers` reach the
last entry of a schedule of three and one beyond it. Two processes in `Setup`
are a failure and its retry; a third repeats what the second did, with the same
list. The theorems below hold for all values.

*Fairness* (`SessionQueue!Fairness`). The host's timers fire again and again and
queued callbacks run. Such a step is enabled only while the host is between
other sections, so strong fairness is used for the sweep, a spawn and a close.
Inside a section the host proceeds (weak fairness). The poll loop polls, a
script ends (it has a timeout), time passes. Nothing is assumed of the agent:
no event, no result and no end of a turn is fair, which is why `EveryRowSettles`
says something about hung agents. It assumes `Calm`: from some point on no
process dies of itself, no spawn fails, the host does not crash and the agents
that are given nothing new are silent. In `Delivery` only the sweep poll is
fair, and adapter calls end in a return or a throw. In `Approvals` timers fire
and awaits return; no click and no answer is fair. In `Containers` only the end
of a stopped docker process is fair. In `ProviderQuery` the loop and its timer
run, scripts have a timeout, and the engine ends its turns or fails: a turn that
hangs is left to `SessionLiveness`, where the host's sweep ends it. Crashes are
bounded there. In `Scheduling` the sweep
is weakly fair: its timer is set again after every round, errors included, and
nothing disables its next step; the agent, the commands and the crashes are not
fair.

## 4. What is proved

Eight modules of proofs are checked by TLAPS for all values of the constants,
under the assumptions that the modules state:

| proofs | assumption |
|---|---|
| `SessionQueueProofs` | `TablesAssumption`: finitely many rows, sane bounds |
| `DeliveryProofs` | `DeliveryAssumption`: every row has a home session |
| `SchedulingProofs` | `SchedulingAssumption`: natural bounds |
| `ProviderQueryProofs` | `ProviderAssumption`: kinds that the loop knows, natural bounds |
| `HostProofs` (`Containers`, `Setup`) | `BackoffAssumption`, `BoundsAssumption`: a schedule that is not empty, natural bounds; `SetupAssumption`: channels that setup has a branch for, one process at least |
| `ApprovalsProofs` | `ApprovalsAssumption`: a card may be sent once at least |
| `AgentGroupsProofs` | `GroupsAssumption`: the first rows of the database refer to each other |
| `AdmissionProofs` | `AdmissionAssumption`: types of the maps; a channel is wired to an agent once, the schema's UNIQUE(messaging_group_id, agent_group_id) |

*Session.* `IInv` adds to the types three parts. `RowInv`: a row's columns, its
claim and its history belong together, e.g. a claimed row is not scheduled for
later and has been claimed more often than it was retried, which is what makes
the tries check of the sweep count each claim once. `HeldInv`: what the process
holds is claimed, and consumed only when the turn starts; without it nothing
stops a late `markCompleted` from completing a row that the host has failed.
`ProcessInv`: memory lives and dies with the process, and the runner's map knows
of every process of this host; it carries `SingleWriter`, since the sweep only
looks at the map. The proof takes each action of agent, time and host in turn.
From it follow `TypeCorrect`, `RowsAreConsumed`, `RowsGetTheirTries`,
`HeldRowsAreCovered`, the action properties `VerdictsAreFinal`, `AcksAreFinal`,
`OneWriterAtATime`, and the refinement `SessionImplementsQueue`.

*Delivery.* `IInv` says that a drain holds its session's guard and works on
unsettled rows of that session (`DrainInv`), that two loops never visit the same
session (`Exclusive`), that each effect is paid for by a fault, a verdict or the
call that has not returned (`HistoryInv`), and that what a drain has passed over
it has tried (`OrderInv`). From it follow `TypeCorrect`, `NoDuplicateDelivery`,
`RowsGetTheirAttempts` and `RowsGoInOrder`.

`DeliveryImplementsOutbox` says the same without loops, guards and counters: the
two polls implement `Outbox`, where a row is attempted in its turn only, takes
effect while it has no more effects than faults, fails only with enough faults of
its own, and a crash cuts short at most one attempt of each session. The mapping
is the identity on the tables and histories; the rounds, the snapshot and the
counters disappear. Beside `IInv` it needs `TurnInv`: a row that is being
delivered stays in its turn, although rows are written and another loop settles
rows meanwhile, because a row written now is no earlier than any other
(`Forward`, `TurnLasts`). `RowsGetTheirAttempts` has no run of its own: what it
says is a guard of `Outbox`.

*Scheduling.* `FanInv` says that the rows of the fan-out's list keep the
recurrence they were read with and that an uncleared row's successor is there;
`AckInv` that a row that was never inserted or was given up on has no ack left
that the sync could turn into a completion; `StopInv` that a cancelled series has
had a row. With them `OneOccurrence` and `CancelStops` are inductive together:
a cancel leaves nothing behind because it finds at most one row, and the fan-out
inserts nothing after it because its list is part of what the series hangs on.
From it follow `TypeCorrect`, `SeriesIsSingle`, `CancelIsFinal` and
`SeriesIsKept`.

*Provider queries.* `HeldInv` says that rows wait only within a query, that none
waits for anything after its last event, and that the batch is kept like the
rows that were pushed; so the only step that takes a kept row away is a crash,
which forfeits it by name. `ResumeInv` says that the session of an open query is
the stored one. From them follow `FollowUpsReachTheEngine` and
`LoopResumesStored`, next to `TypeCorrect`.

*Containers.* `FleetInv`: a spawn in flight is the only one and its session has
no process, so no spawn takes the entry of a process that lives; what runs
beside the map had a failed stop. `VersionInv`: what a spawn has read is not
newer than `container.json`, and not older than the last restart unless that
restart came in the middle of it. `BreakerInv`: the attempt file counts the
unclean ends and the start under way. They give `OneContainerPerSession`,
`RestartReachesAll` and `WaitCountsCrashes`, and with `RestTypes` for the
variables they do not mention `TypeCorrect`.

*Setup.* The host that `Containers` runs is the one `Setup` installs, so one
module proves both. They share no variable; `Setup` names its formulas
`SetupInit`, `SetupNext` and `SetupSpec`. The branches are data, and what has to
be known of them is the order of their steps. `Orderly` says it of every pair of
steps of a script, and of what is left of one: nothing is changed before a place
where Back is offered, and in a branch whose failures stop it nothing is changed
after a restart and nothing after the wiring. `ConcatOrderly` puts orderly parts
together, so each of the eight branches is proved from the parts that the source
calls, whatever the machine holds when it is chosen (`Whole`). `ServedInv` then
follows the process: what is left of the branch is orderly, the channel's parts
are there or to come, and the service has them unless a restart is to come
(`BranchFollowed`); between branches a wired channel is served (`Supplied`). From
it follow `SetupServesWhatItWired` and `SetupBackIsClean`. `RepeatInv` adds that
a process has logged only steps that lie behind the one it is at (`Behind`), and
that a step was carried out never, or once and is on the list or in the log:
`SetupNothingTwice`. `SkippedIsDone` is inductive with the two
(`SetupSkipsOnlyDone`), and with `ChainBounded` (the process under sg is the one
beyond the bound) the types are (`SetupTypeCorrect`).

*Approvals.* One invariant per request, by its kind, and a lemma (`Others`) that
a step leaves the other requests' alone. `CredentialInv`: whatever drops a row
or answers the gateway has closed the request first. `ActionInv`: an action has
its row until its verdict, and one handler at a time unless it is excused.
`QuestionInv`: every response was paid for by a send of the card. They give
`TypeCorrect`, `WaitersKeepTheirRow`, `VerdictsAreKept` and `AnswersArePaidFor`.

*Agent groups.* `Types` says more than shapes: nobody names a group that is yet
to be created, and the group of a session that sent, called or has a container
never changes again (`Kept`). With it the maps are inductive as they stand
(`MapsAreCurrent`): every step writes a map, or leaves what it shows alone, or
counts a projection to come, or makes the session lag. A candidate's group is the
one its message names, hence `RepliesReturn`. `AskInv` (a call that no crash gave
back has no response before it was asked about) gives `CallsAreAskedOnce`.
`ScopeInv` gives `CallsAreConfined`: what is pending for a call is confined as
what it has reached is, which is what an approval relies on.

*Admission.* A pass goes through wirings of its message's channel, and wirings,
members and sessions only grow (`Grows`); so what admitted a wake still admits
it (`OnlyAdmittedWake`), and a wiring that engaged on a message and refused it
is the only one of its agent and engages again (`Distinct`, `RefusedInv`, hence
`RefusedStaysOut`). `SettledChannelsStay` needs the types alone, and with
`TypeCorrect` no pass is ever without a wiring to look at.

`GrantedReplayReaches` has to relate all passes of a message to each other: a
replay inserts under `<event>:<agent>`, so whichever pass of the same message
comes to an agent second throws and ends. A pass holds a slice of its channel's
wirings (`Slices`: wirings are only appended, so a slice has one place, `From` to
`Till`). `GrantInv` says that a granted agent that has not been woken lies ahead
of some pass with nobody in between who has the message, and before the end of
every pass of the message. Then whichever pass takes an agent in between does so
as the first, does not throw, and takes the other's place. That no pass ends
before the granted agent is the hard part, since wirings may have been appended
between two passes: the sender is asked about at a place that a pass has come to,
and a pass gets beyond the end of an older one only by leaving somebody with the
message on the way (`PassesInv`, `AsksInv`, by `FromWithin`), in which case the
grant promises nothing. `ChannelsInv` says that a message that waits for its
channel is in no pass at all, so a registration starts the first. TLC checked all
five parts on the instance of the run and on one with four messages in a single
channel to which two agents come to be wired, before they were proved.

Only model-checked: liveness (`EveryRowSettles`, `EveryRowGetsVerdict`,
`OccurrenceFollows`, `CredentialSettles`, `RestartWakes`, `CommandGetsThrough`),
since the prover does not reach fairness and ENABLED. Every invariant and every
action property of a passing run has a theorem.

## 5. Where code and documents disagree

Two disagreements have a run of their own, and PROJECT.json ("findings") quotes
the sentence. `FanOutIndependent`: denying an admin command writes through a
read-only connection, throws out of the fan-out, and the agents behind it are
not evaluated (router.ts:258). `ErrorLeavesClaim`: a row whose query failed is
completed, and never retried (docs/agent-runner-details.md:446).

The following are stated in the modules with the sentence they come from. They
have no run; TLC finds each violated in its module's instance, the two liveness
properties under `FairSpec` with kinds chat and context, `PromptCap = 1` and
`MaxTries = 0` (`TriggerNotStarved`) and with kinds chat and restart
(`RestartRowSettles`), `StickyNeedsMention` with the events e3 and e4.

| definition | what the code does |
|---|---|
| `SessionQueue!CrashCountsAsTry` | a crash shortly after a claim costs no try, so a row that kills its container is retried for ever |
| `SessionQueue!FreshContainerSpared` | the sweep can kill the container it has just started for a crashed one |
| `SessionQueue!AccumulateContract` | the follow-up poll hands context-only rows to the agent |
| `SessionQueue!TriggerNotStarved` | context rows can hide the row that woke the container |
| `SessionQueue!RestartRowSettles` | an on_wake row whose backoff outlasts the next container's first poll waits until that container is gone |
| `Delivery!DeliveredWasSent` | rows that no adapter or handler takes are recorded as delivered |
| `Scheduling!PauseHolds` | a task paused during its own run goes on with its next occurrence |
| `Admission!StickyNeedsMention` | an accumulating wiring creates the session that makes a mention-sticky agent engage without a mention |
| `AgentGroups!RestartOnlyCaller` | an approved restart of an agent restarts every session of its group |

Met while modelling, and not stated as properties:

- Providers. `end()` of the amplifier provider discards follow-ups that are
  already pushed and completed, while `types.ts` calls it "Signal that no more
  input will be sent". An engine error forfeits the buffer and the overflow
  notice. That provider never throws, so `isSessionInvalid` is not consulted and
  a refused continuation stays stored; its errors are logged and nobody is told.
  With Claude, a throw in a conversation's first query leaves the loop without
  the continuation that init has stored, and the next query forks the
  conversation until the container restarts (the exception in
  `ResumesWhatIsStored`).
- Setup. WhatsApp's four `fail()` calls and Teams' three are not awaited, although
  runner.ts:347-349 says that callers must; `WiredIsServed` leaves the two
  branches out. `ASSISTANT_HAS_OWN_NUMBER` is written after the restart that would
  read it (whatsapp.ts:106). A step that fails after its effect was logged
  (create-terminal-agent after the wiring, the time zone's second write) is
  passed over by the retry. The fallback without launchd and systemd is never
  started although the step reports it running. Teams and Telegram offer Back at
  later gates than back-nav.ts:10-13 describes; `BackLeavesNothing` still holds.
- Groups. `groups.ts` says that configuration updates "do NOT take effect until
  restart", but `container.json` is mounted: a spawn for another session of the
  group rewrites it under a container that has not yet read it (`json` in
  `Containers`).

## 6. Assumptions and what is left out

- In `SessionQueue`, `docker stop` succeeds and the process is gone when it
  returns. The fallback of `killContainer` kills the docker client only;
  `Containers` has it, and `OneContainer` excepts the session it happened to.
- SQLite transactions are atomic and reads see the last commit.
- `messages_in` rows of kind `system` (answers to `ask_user_question`) are left
  to `Approvals`.
- A round of the delivery polls that throws is assumed to be repeated and not to
  throw for ever; the hazard at delivery.ts:125 is in PROJECT.json.
- A cancel that is delivered between the ack sync and the fan-out matches no live
  row and does nothing; `CancelStops` speaks of cancels that matched one. An
  occurrence that is given up on ends its series (`SeriesSurvives` allows it).
- `Admission`: one approver; clicks of others do nothing. Channels that are
  wired stay wired. `AgentGroups`: destinations that are channels, and rows that
  are no agent's, are left out; an approval's click is one step.
- `ProviderQuery`: pre-task scripts and context rows (both in `AgentRunner`), the
  migration of the legacy continuation, texts of events, MCP translation, archives
  of transcripts.
- `Setup`: a list `NANOCLAW_SKIP` that the user sets, questions that providers
  ask, the offers after a failed ping or verification, wording. The migration
  from version 1 and the advanced flows are not modelled.
- The type invariant of every module is proved; the runs spend their properties
  on what could be wrong.
- Channel adapters, prompt formatting, the schema's migrations, mounts, the
  generic resource handlers of ncl, evaluation and scripts are I/O or text over
  the state that the modules above hold, and are not modelled.

## 7. Plan

1. `Containers` refined to an abstract slot per session that holds at most one
   live container; `ProviderQuery` compared with a stream that submits
   everything pushed.
2. Sequence numbers of the two databases, as lemmas.
3. The migration from version 1, along the lines of `Setup`.
