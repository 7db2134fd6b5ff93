# A verification project for OmniArena

OmniArena serves one prompt to two language models, streams both answers
blind, records a vote and rates the models. These TLA+ modules model the parts
of it where requests, timers, streams and crashes interleave; TLC checks them
on small instances and TLAPS proves what matters most for every instance.

Every definition is translated from the source; `PROJECT.json` maps each one to
its lines. Paths below are relative to the repository.

## Inventory

| Component | State it keeps | Operations | What must hold |
|---|---|---|---|
| Chat handler and store: `server/src/routes/chat.ts`, `repo/postgres.ts`, `routes/vote.ts`, `db/migrations/` | `conversations`, `matchups`, `turns`, `responses`, `preferences`; each handler's locals between two awaits | open or continue a conversation, insert a round, save an answer, vote | a conversation is one line of turns, each built on the voted answer before; one vote a round, credited to its owner; nothing partial survives a crash or a lost reply |
| Slot join: `arena/join.ts` (`JoinBroker`) | pending scopes, their timers and promises | claim, window close, publish, fail, deadline, sweep | two siblings share one matchup; everybody waiting is answered; memory is bounded |
| Generation: `core/arena.ts`, `control/registry.ts`, `routes/control.ts` | event queue, abort flags, producers, the registry | stream, stop, steer, persist each event | what is shown, what is saved and what is acknowledged agree; a response always ends, with nothing behind it |
| Joined round: `arena/join.ts` (`JoinedRound`, `SlotChannel`) | one bounded channel per connection | pump, push, drain, abort, overflow | slot B is saved whatever its client does; each connection ends |
| Arena mode, matchmaking: `arena/mode.ts`, `matchmaking/` | none | resolve a plan and the default model, draw a pair | a request is compared only where the trigger engages it; a pair is of two models |
| Adapters: `adapters/` | what one format keeps of a stream; nothing else | parse a request, serialize an event | every format gives its reader the same two answers, each its own slot's |
| Server assembly: `server.ts`, `db/migrations.ts`, `db/seed*.ts`, `docker/entrypoint.sh` | `schema_migrations`, `models.enabled`, the resolved default | migrate, seed, boot, restart | each migration once and in order; a deployment comes back |
| Reading routes: `routes/leaderboard.ts`, `analytics.ts`, `conversations.ts`, `matchups.ts` | none | count votes, tell a conversation's state | the counts of different queries agree |
| React SDK: `packages/react-sdk/src` | current request, matchup, conversation, view | send, vote, stop, reset, handle an event | the view belongs to the current round; only a continuable id is sent |
| Rating worker: `worker/omniarena_rating` | ratings and their history, warm state, cadence | a pass: screen, read, fit, write back, style | what is published is true of the votes read; the loop goes on |
| Open WebUI bridge: `integrations/open-webui/bridge` | chats, a persisted file, votes in flight, a rendezvous | pair slots, look up, retry and consume a continuation, vote once | no prompt lost to a stale handle; a reported vote is the recorded one |
| AG-UI hosts: `integrations/assistant-ui`, `integrations/copilotkit` | a store, browser storage, a matchup cache | run, poll, vote, toggle, reload | a verdict stays; an open round stays votable; a rebuilt chat is not refused |
| Vercel host: `integrations/vercel-ai-chatbot` | vote states, continuation, its own message database | run, vote, store a reveal, look up, hydrate | a verdict shown is the recorded one |
| Providers; dashboards, examples | none; views | call a model; draw | not modelled |

How they interact: the chat handler claims a scope of the broker, awaits its
sibling, reads and inserts through the repository, opens `ArenaCore.stream`
(through a `JoinedRound` when it has a sibling), registers it with the registry
and persists each event before it writes it. The control route reaches a
running round only through the registry; the vote route reaches it only through
the database. The SDK, the bridge and the hosts are clients of those routes over
one of the wire formats; the worker and the deployment's scripts share the
database.

What is hard: two handlers that read before either writes; several awaits
between a read and the write that relies on it; timers racing the requests they
release; a steer or a stop landing between a producer's end and the restart; a
query failing in the middle of a stream; a crash between two commits; a page
reloaded, a reply overtaken by the next round; a roster that changes between two
reads. The `hazards` of `PROJECT.json` list them at their lines.

## Modules

| Module | Models | Role |
|---|---|---|
| `Conversation` | chat and vote handlers over the tables, crashes | detailed specification |
| `Thread` | an append-only chain of rounds, each settled before the next | abstract specification of a conversation |
| `Conversation_proofs` | | inductive invariant and theorems of `Conversation`, refinement of `Thread` |
| `MCConversation` | | a small instance |
| `JoinBroker` | claims, timers, promises, leader and follower halves of the handler | detailed specification |
| `ArenaCore` | one generation: producers, driver, queue, saving, registry | what the two below share |
| `ArenaStream` | `ArenaCore` with `streamRound` on one connection | detailed specification |
| `ArenaStream_proofs` | | inductive invariants and theorems of `ArenaStream` and `WiredRound`, refinement of `SlotView` |
| `JoinedRound` | `ArenaCore` with the pump, two `SlotChannel`s and two connections | detailed specification |
| `JoinedRound_proofs` | | inductive invariant and theorems of `JoinedRound`, refinement of `SlotView` twice |
| `SlotView` | what the reader of one slot, and the database, see of it | abstract specification of both |
| `Wire` | what each adapter writes for an event, and what its reader makes of it | operators |
| `WiredRound` | `ArenaStream` read through six readers at once | composition |
| `ArenaChat` | the React hook, over a server that replies at its own pace | detailed specification |
| `ArenaChat_proofs` | | inductive invariant and theorems of `ArenaChat` |
| `RatingData` | the worker's screen and aggregates, the analytics counts | operators |
| `RatingWorker` | the worker's loop and pass, voters, operator | detailed specification |
| `RatingReader`, `MCRatingReader` | one leaderboard request beside it, statement by statement | composition, instance of both |
| `RatingWorker_proofs` | | theorems of both |
| `ArenaService` | the arena as its HTTP clients see it | abstract specification of the server, used by the three below |
| `Bridge`, `MCBridge` | the Open WebUI bridge | detailed specification, instance |
| `Bridge_proofs` | | inductive invariant and theorems of `Bridge` |
| `AgUiHosts`, `VercelHost` | the chat hosts | detailed specifications |
| `Hosts`, `MCHosts` | an initial state chooses one of the three hosts | composition, instance |
| `Hosts_proofs` | | inductive invariants and theorems of the hosts |
| `Plans` | requests, modes, matchmakers | operators |
| `Deployment`, `MCDeployment` | migrations, seeds, boot, restarts and the handler's use of `Plans` | detailed specification, instance |
| `Server_proofs` | | inductive invariants and theorems of `JoinBroker` and of `Deployment` |

### Conversation

A *request* is one `POST /api/arena/chat`, a *ballot* one `POST
/api/arena/vote`. Requests name the ids they mint. One SQL statement, or the
inserts of `createMatchup` up to their COMMIT, is one step; between two awaits
of a handler anything else may happen. The order is the code's: read the
context (`ReadContext`), pick and open the transaction, read the latest turn
(`CheckLatest`), insert and commit under the UNIQUE constraints (`Commit` or
`RollBack`), stream and save answers (`SaveResponse`) until the stream is cut
(`CutStream`). A lost reply to COMMIT or INSERT leaves the row and tells the
caller 500. `Crash` keeps the tables only.

The transaction runs at READ COMMITTED, so `CheckLatest` and `Commit` are two
steps: the check is not what keeps two turns apart, the constraints are, and
the mutant `Unique_Unchecked` shows it. A `single` round touches no table and is
left out. `both_good` and `both_bad` are recorded as `skip` is, so one of the
three stands for them. Refused calls that change nothing are not steps.

### JoinBroker

Requests carry a `joinKey`; a *scope* is the tuple its HMAC covers. `Lead`,
`Follow` and `TurnAway` are the outcomes of `claim`, each after the sweep.
An entry and its promises are kept under the request that created them, as they
outlive the map's entry: after a sweep a second leader of the same scope may
coexist with the first. Timers count down; `Tick` passes a unit of time and
waits for due timers and settled promises, because the event loop runs them
before it has waited that long. Other requests may come while a timer is due.
The leader's reads and writes succeed, are refused or throw at each place the
handler handles differently.

### ArenaCore, ArenaStream, JoinedRound, SlotView

One round of any kind. `Token`, `ProviderEnds` and `TornDown` are the outcomes
of a producer's race; `DriverEnds` and `DriverRestarts` the driver's
continuation when all producers have left; `Take` persists the event at the
queue's head; `PersistFails`, `GeneratorFinally` and `LoopEnds` are the ways
out of the loop; `Stop` and `Steer` the control plane's. A token stands for the
generation it came from, which is what the properties tell apart: `wire` is
what a client that resets its buffers on `steered` has. `steering` stands for
`pendingInstruction` too, set and cleared with it. A `slot_error` is always
followed by its slot's `slot_done` and changes nothing but what is written, so
only `WiredRound` has it. `UnhandledRejection` is the unregistered provider, whose exception leaves
`produce` before its `try`.

`ArenaStream` writes each event it takes (`Deliver`) and ends the response with
the loop (`EndResponse`). `JoinedRound` puts it on the channels instead
(`Pump`, `Routed`): a connection reads its own (`Read`) and ends when that is
closed and empty (`Leave`), the leader's end taking the matchup out of the
registry. The sibling may attach late, never, or hang up. A reader that waits is
modelled by an empty backlog, so an event it could be handed directly counts
against `MaxQueued` until it is read: the lag is over-approximated by one.

Both implement `SlotView` for each slot, by an instance whose variables are
expressions over theirs: text grows or is emptied, then becomes the answer and
the row, and nothing changes after.

### ArenaChat

The hook's refs and state, and the calls it has in flight. A callback runs to
its next `await` in one step. `Opens`, `Refuses` and `Records` are the server's,
in any order the hook cannot see. An aborted fetch delivers no more events
(`Hears`), yet the server may still open its round. The control socket opens or
fails when it likes; `SocketCloses` stands for a failure to open, the close
after a `stopped` reply and a lost connection.

### Wire, WiredRound

`Wire` has, per format, an operator from an event to what is written and one
from that to the reader's *view*: a column of tokens per slot, whether it is
open, the slots told to have failed, how the run ended. Frames, ids and JSON are
left out; which message, part or choice a text goes to is kept, as that is where
formats go wrong (`adapters/openai-sse.ts` tells of two models' tokens spliced
into one choice). `WiredRound` conjoins it with `ArenaStream`: each event written
goes through every adapter. A slot may be told to have failed before its
`slot_done`. No reader acts on `steered`, so `EveryReaderAgrees` claims equality
with the judged answer for unsteered rounds and that it is the last part of what
is shown otherwise.

### RatingData, RatingWorker, RatingReader

A ballot is a row of `preferences`. The ridge makes the objective strictly
convex, so a fit *is* a function of its aggregates: a rating stands for the
pairs it was fitted on, and the question is which votes those are. Every query
of `run_once` is a step and each of the two commits is one; `Fail`,
`CommitReplyLost` and `Crash` may come at any point. `warm` is the warm vector,
by its length and the warm fits behind it. The screen's p-values are thresholds
on counts. The five analytics endpoints count the same ballots by different
queries (`GetHeadToHead`, `LeaderboardRow`, ...), translated one by one and
compared by `TalliesAgree`. The style report of a pass is its own commit, and
`effects` the votes its coefficients were fitted on.

A vote needs no saved answers (`Conversation` has it so, too), and the ratings count
it like any other. The two reads that measure style join both answers:
`fetch_style_votes` (`style.py:400`) and `readStyleFeatureSpread`
(`postgres.ts:868`). `answered` holds the matchups with both rows in `responses`,
and `SaveAnswers` adds one before its vote, after it, or never; no other query of
these modules joins `responses`. So the style fit leaves votes out, and a pass may
find none at all ("no style votes"): `StyleReadCovers` says which are left out, and
that the sessions screened out stay out.

`RatingReader` adds one `GET /api/arena/leaderboard`. Its four statements share
no snapshot: the rows run beside the context, which reads the component groups,
then the coefficients, then the sample of votes that scales them. Between any two
the worker may commit, a vote arrive, or a model be switched on or off.

### ArenaService, Bridge

`ArenaService` is the arena for a client: the rounds stored, which continuation
is refused, what a vote is answered. `Bridge` has one action per stretch between
two awaits of `server.mjs`: the rendezvous of two columns and its timer, the
lookup of a held continuation, the chat call with its retry, the vote shared by
two columns, expiry, and a restart that keeps the file. A failed call may have
taken effect. Single and raw rounds store nothing. `sends` is the `Map` of
votes in flight, with an entry only while a call is shared, as in the code.

### AgUiHosts, VercelHost, Hosts

A page and the arena. For the AG-UI hosts: the store, the browser's storage, the
two ways a round's metadata arrives (header; event, and a poll of a cache that
outlives the page), votes and their lost replies, the toggle, "Start fresh", and
reloads that read the conversation again. For Vercel: the provider's state, the
route that records a vote and then stores the reveal, and `hydrate` on every
render. A reload happens when the server has answered what was sent; replies
still on their way are lost. Faults are bounded by `MaxFaults`. `begun` and
`lost` are histories: the rounds this browser was told of, and those whose token
a failed read of the thread cleared.

### Plans, Deployment

`Plans` translates the request adapters, `resolveArenaPlan`, `findDefaultModel`
and both matchmakers; a draw is the set of assignments some random number
gives. `Deployment` runs the scripts of the container, and of an operator beside
it, one query a step (a migration file is one commit, and `RenameOld`
takes the three UPDATEs of `migrations.ts:32-37`, which rename different
names, together), kills either anywhere, and
serves requests whose handler reads the roster as often as the code does. The
conversation and join parts of the handler are left to the modules above.

## Runs

| Run | Instance | Shows |
|---|---|---|
| `thread` | 3 requests, 2 voters; 1 blind conversation, or 2 requests of 2 sessions, blind and shadow, both seatings | `LinearThread`, `HistoryIsThread`, `RepliesAreTrue`, `OneVoteCounts`, `VoteCredited`, `OwnerContinues`; refinement of `Thread` |
| `pairing` | 3 requests, 2 scopes, room for 1 | `SlotsShownOnce`, `OneRoundPerScope`, `FollowerMirrorsLeader`, `RendezvousBounded`, `EveryoneAnswered` |
| `round` | blind, single and shadow rounds, 1 token a generation, 2 steers, every format | `EveryReaderAgrees`, `AnswersStand`, `NothingRunsBehind`, `StopHolds`, `ResponseEnds`; refinement of `SlotView` |
| `joined` | a joined round, 1 token, 1 steer, backlog of 2 | `EndsWithItsSlot`, `BothRecorded`; refinement of `SlotView` |
| `hook` | 2 prompts, 2 tokens | `ViewIsTrue`, `NextPromptContinues` |
| `worker` | 3 models, 4 matchups, 1 change of the roster, 1 fault, a cold fit every 2; 1 leaderboard request | `PassIsFaithful`, `StyleReadCovers`, `WarmChainBounded`, `TalliesAgree`, `StylePanelTrue`, `RatingsCatchUp` |
| `bridge` | 1 chat, 2 columns, 2 votes, 1 more prompt, 1 fault, 1 expiry | `PromptServed`, `ReportedIsRecorded`, `PairedTogether`, `RequestsEnd` |
| `hosts` | each host, 2 prompts, 2 votes, 2 reloads, 1 fault | `VerdictIsRecorded`, `OpenRoundVotable`, `VerdictStays`, `ReloadContinues` |
| `plans` | 3 migrations, 2 lineups of 2 models, 7 configurations, 5 bodies, 4 protocols, 2 deaths, 2 runs by hand | `MigratedOnce`, `ServedAsPromised`, `ServesAgain` |
| `fault` | one blind round | violation of `FaultIsolated` |
| `late` | the AG-UI hosts, 3 prompts, 1 vote, 2 reloads, 1 fault | violation of `OpenRoundSurvives` |
| `wedge` | the hosts, 2 prompts, 1 reload, no fault | violation of `FreshMessageAccepted` |

Some properties are conjunctions of named parts, each with its own comment:
`RepliesAreTrue` (`ConflictIsReal`, `SavedThreadContinuable`),
`EveryoneAnswered` (`LeaderReleased`, `FollowerAnswered`), `AnswersStand`
(`WireIsAnswer`, `DoneIsWhole`, `SameInstructions`), `ResponseEnds`
(`TearDownEnds`, `RoundEnds`), `EndsWithItsSlot` (`NoSilentEnd`,
`DoneIsDelivered`, `OwnEnd`), `ViewIsTrue` (`ViewIsCurrent`,
`StreamingIsShown`), `NextPromptContinues` (`HandlesAgree`,
`ClosedStaysClosed`), `StylePanelTrue` (`StyleReportCovers`, `ReplyScaled`).
`AnswersStand`, `EndsWithItsSlot` and `ViewIsTrue` also
include the type invariant of their module.

**Bounds.** Three requests let two race to continue the turn of a third, twice
over; a second conversation matters only for what crosses conversations, so
`Focus`, an action constraint of `MCConversation`, has three requests in one blind
conversation and two otherwise. Three joins are a pair and an intruder or a late
leader of the same scope, and on two scopes a pair and a join turned away; `Continuing` holds one
scope so that both the path that reads a context and the one that does not are
taken. A window of 1, a grace of 2 and a deadline of 3 units keep the order of
the real 2, 7 and 32 seconds. Two steers let the second be accepted while the
first is being recorded. A backlog of 2 is the least that holds a slot's
terminal frames, and one token more overflows it; the real floor of 16 is there
to keep that rare. Every property of the hook relates the round shown to one
earlier round, so two prompts are enough, as they are for the hosts: a round and
the one it continues; a second reload is what loses what the first one kept. That
reasoning is not proof: `OpenRoundVotable` once claimed more, held with two
prompts, and fails with three (`late`); what it claims now is proved for any
number. In `worker` the uuids sort otherwise than the roster, one session votes twice
so that either test may screen it out during a pass, one vote has no session. The answers
of one round come late or never; as they matter with their vote only, to the raw
read and the sample, `Focus` of `MCRatingReader` saves them after the vote and before
a raw read. A cold fit every second time makes the cadence come due, also after a
fault or a change of the roster. A leaderboard request begins in any state the worker
reaches; while it is read, `Focus` keeps passes from failing and two votes from
coming, and has the rows read first, which `ReplyScaled` does not look at.
The bridge's instance has both columns of a turn, two votes that
disagree, and a prompt that may come before, between or after; one fault may be
any failed call or a restart. Three migrations have one before and one after the
renamed one; the lineups share a slug and a display name, so that a name can
become ambiguous. The runs turn deadlock checking off because the instances are
finite: when every request is answered the system may stop. `worker` never stops
and is checked for deadlock.

**Symmetry** is over model values that only name requests, voters or sessions,
and only in runs without liveness.

**Fairness.** In `JoinBroker` time passes, due timers fire and settled promises
resume their handlers; there is none for the database or the matchmaker, so
`FollowerAnswered` holds although the leader may hang. In `ArenaStream`,
`WiredRound` and `JoinedRound` the process runs what is ready and the database
answers or rejects; there is none for providers, so `TearDownEnds` holds although
they stay silent, and `RoundEnds` states its own assumption that they end, as
`BothRecorded` does; a connected reader reads on, a sibling need not attach. The
worker sleeps and works for ever: some step of its own is always enabled and
keeps being taken, while voters and operator owe nothing. In `Bridge` timers
fire, the arena answers (or the call fails, within its bound) and a settled
promise runs its handlers. In `Deployment` a running process goes on and compose
restarts the container; nobody need send a request. `Conversation`, `ArenaChat`
and the hosts state none: all their properties are about what may not happen.

## What the violations show

1. `fault`: a model whose provider is not registered ends the process; the
   documented outcome is a `slot_error` beside a slot that keeps streaming
   (`core/arena.ts:157`).
2. `wedge`: a reload of the Vercel host feeds the stored reveal of round 1, a
   decisive one, into the continuation although round 2 of the same conversation
   was a tie; the page promises a fresh conversation and the next message is
   answered `409 conversation_not_ready`, again after every reload.
3. `late`: a fresh page of copilotkit reads its thread in the background; when
   the read fails after the user has begun another thread, it clears the whole
   storage (`history.ts:29`), the tokens of the new rounds with the old ones. A
   vote's reply then saves the new handle again, and the next reload shows a
   round that is open and cannot be voted on, which `persistence.ts:2` rules out.
   assistant-ui clears it likewise. `OpenRoundVotable` is what holds: every open round
   shown has its token unless such a failure cleared it.

Further disagreements met while modelling have a property but no run here; each
named property is in its module, and is violated on the instance given.

- `ContinuableIsAccepted` (`MCConversation`, as `thread` with two requests):
  `routes/vote.ts:95` says `continuable` from the vote alone, while the chat
  route also needs the winner's response row (`docs/md/api.md:393`).
  `SavedThreadContinuable` is the part that holds.
- `FailureForwarded` (`JoinBroker`, three requests on one scope): an exception of
  `getConversationContext` (`routes/chat.ts:582`) is the one failure of a leader
  that is not forwarded (`docs/md/api.md:177`); the sibling waits for 504.
- `StopReachesRound` (`JoinedRound`): the end of slot A's connection forgets the
  matchup (`routes/chat.ts:165`), so slot B can no longer be stopped or steered
  (`docs/md/architecture.md:255`).
- `RevealedAfterVote` (`ArenaChat`): the reply to a vote is applied to whatever
  round the hook shows (`useArenaChat.ts:299`, `docs/md/architecture.md:444`).
- `StopCancelsItsOwn` (`ArenaChat`): `stop` reads the matchup before it awaits
  its socket and the request after (`useArenaChat.ts:329`).
- `ReplyQualified` (`RatingReader`, three models and matchups): a pass commits
  between the statements of one leaderboard request, and the reply has rated rows
  without the group that qualifies them; `routes/leaderboard.ts:12` says no
  request returns such a leaderboard.
- `SampleIsSuperset` (`RatingReader`): a model is disabled after a pass, and the
  sample that scales the style effects leaves out votes they were fitted on;
  `repo/postgres.ts:822` calls it a superset in that very case. `ReplyScaled` is
  what holds: the votes left out are those of disabled models.

And some have no property:

- `ARENA_JOIN_MAX_PENDING` is documented over unpaired scopes; the code counts
  paired and expired ones too for their grace period. `RendezvousBounded` is the
  bound that holds.
- No client acts on `steered` (`docs/md/api.md:79`). After a stop the AG-UI stream
  has neither RUN_FINISHED nor TEXT_MESSAGE_END, the Vercel one no finish, the
  OpenAI one no finish_reason; a joined slot-B connection opens Vercel's other
  text part and never ends it.
- The bridge writes back a matchup captured before it awaited a vote
  (`server.mjs:287`), so a newer round of the chat can be forgotten; a rejected
  vote is replayed for 30 s.
- In the hosts a late vote reply can restore the handle of a round that a newer
  one has superseded; a lost reply to an indecisive vote leaves a refused handle
  until a reload or "Start fresh"; copilotkit's poll may unlock the bar for a
  second vote, which the server refuses; assistant-ui forgets a thread that
  cannot be continued on the second reload, and drops its tokens on any failed
  read.
- `seed.mock.ts` says it leaves only its two models enabled; run beside the
  container's seed it leaves both lineups. `shadow_challenger_missing`
  (`chat.ts:347`) is unreachable (`ServedAsPromised` shows it).
- `docs/md/data-model.md:232` calls `games` of a style rating the non-skip votes
  involving the model. Votes on rounds without both answers are not counted there,
  so it may be less than `games` of the rating itself (`StyleReadCovers`).
- The worker's "model set unchanged" test compares sizes only; the labels of a
  model disabled and enabled again are those of an old fit until the next.

## Proofs

Eight modules prove what follows for every value of the constants, from the
named assumptions of the module proved about and nothing else; TLC evaluates
those assumptions on every run. Each safety theorem has the same form: an
invariant `IndInv` that holds initially, is kept by every action, and implies the
property. What is worth reading is why the property alone is not inductive.

| Module | Theorem | Property |
|---|---|---|
| `Conversation_proofs` | `Linear`, `HistoryTrue`, `OneVote`, `VoteCreditedToOwner`, `OwnerOnly` | `LinearThread`, `HistoryIsThread`, `OneVoteCounts`, `VoteCredited`, `OwnerContinues` |
| | `RepliesTrue` | `RepliesAreTrue` |
| | `ThreadImplemented` | the refinement `ImplementsThread` |
| `Server_proofs` | `OneRound`, `Mirrors`, `ShownOnce`, `FewWait`, `Watched` | `OneRoundPerScope`, `FollowerMirrorsLeader`, `SlotsShownOnce`, `RendezvousBounded`, `WaiterIsWatched` |
| | `MigratedInOrder`, `Promised` | `MigratedOnce`, `ServedAsPromised` |
| `ArenaStream_proofs` | `NothingBehind`, `Answers` | `NothingRunsBehind`, `AnswersStand` |
| | `StopFinal` | the action property `StopHolds` |
| | `ReadersSee` | the refinement `ReadersView` |
| | `ReadersAgree`, `SameRound` | `EveryReaderAgrees`, of `WiredSpec`; `WiredSpec => Spec` |
| `JoinedRound_proofs` | `ReadersSee` | the refinement `ReadersView`, on both connections |
| | `NoEndIsSilent`, `DoneReaches` | `NoSilentEnd` and `DoneIsDelivered`, the safety half of `EndsWithItsSlot` |
| `ArenaChat_proofs` | `ViewTrue`, `HandleTrue` | `ViewIsTrue`, `NextPromptContinues` |
| `RatingWorker_proofs` | `ChainBounded` | `WarmChainBounded` |
| | `FaithfulPass` (with `LabelsAreJoined`), `OneStory` | `PassIsFaithful`, `TalliesAgree` |
| | `SameVotersRead` | the action property `StyleReadCovers` |
| | `PanelTrue` | `StylePanelTrue`, of `ReaderSpec` |
| `Bridge_proofs` | `PromptIsServed`, `ReportIsRecorded`, `HalvesShareARound` | `PromptServed`, `ReportedIsRecorded`, `PairedTogether` |
| `Hosts_proofs` | `VerdictsTrue`, `OpenRoundsVotable` | `VerdictIsRecorded`, `OpenRoundVotable` |
| | `VerdictsStay`, `ReloadsContinue` | the action properties `VerdictStays`, `ReloadContinues` |

### The chat and vote handlers

`IndInv` adds to `TypeOK` that rows are those of the requests past their commit,
that what a request read is still true of the tables, that rows belong to the
session of their conversation, that no two turns share an index or a parent, and
that votes are of rows. Its core is *what was read stays true*: a turn's winner
exists only once its vote and its answer do, both are insert-only, so the context
of a request is a fact about the tables from the moment it is read. With the
UNIQUE constraints that gives one line of turns without any lock.

`RepliesInv` is inductive beside it: a request told of a conflict names a
conversation whose latest turn is not the one it read, and tables only grow.
`ContinuableTrue` relates the vote's reply to the next request's checks.

`ThreadImplemented` is a step simulation. `Chain` says that the thread of a
conversation is its turns in the order of their indices, none missing and all but
the last won. That no index is missing is the one fact proved by induction, over
the index, through the least number that is not taken; a step of the handlers
then appends the turn (`Commit`), settles the last one (the vote's and the
answer's inserts, whichever comes second), or maps to a stutter.

### The rendezvous

`IndInv` says what the code keeps in closures and never writes down:

- *Roles*: a request leads, follows or was turned away, never two of these, and
  is answered only at its end;
- *Entries*: the state of an entry, its promises and its timers agree; above all
  its window is armed exactly while it is open;
- *Handed*, *Told*: what a leader publishes is its own answer, or the deadline's
  504 came first, and that is what its follower is told;
- *InMap*: the map holds the leader of each scope it knows, and a leader it has
  lost has settled and outlived its grace;
- *Siblings*: a paired entry has exactly one follower;
- *Bounded*: the scopes that wait are within the cap.

`InMap` carries `OneRoundPerScope`: a new leader finds no entry, so every earlier
one is past its grace. `RendezvousBounded` follows because each waiting leader
holds its own scope in the map, an injection into the waiting scopes.

### One generation and its reader

What the reader has cannot be compared with what the producers made: the queue is
in between, and a steer makes what is in it obsolete. `Queued` says that there is
a chain of views (`Leads`), one per queued event, from the view the reader has to one that
agrees with the producers (`Future`), each the effect of its event (`After`) and
each event legal where it stands (`Legal`): no token after its slot's answer, an
answer equal to the text before it, no reset after an answer. Taking an event
moves along the chain, queueing one lengthens it by an event that `Future` makes
legal. Once the loop is left the chain is given up and only `Reads`, on what was
taken, is kept. `Control` ties the flags, the driver and the counters together;
`NothingRunsBehind` and `StopHolds` need it alone. `ReadersSee` reads each step of
the round off the same invariant as a step, or a stutter, of `SlotView` for slot
A and for slot B.

### The wire formats

Six readers take different parts of different messages, so nothing relates two of
them directly. `Agreed` relates each to one: the view of a client that folds the
native stream, the SDK's hook (`Hook`). What the others hold is a function of it,
with the mark of a failure where a format has no other place for it (`Annotated`),
without the end where it has none (`Finished`, `Broken`); the state of the OpenAI
adapter is one too (`KeptFor`). `Displayed` relates the hook to the round: a
column ends with what was written of its slot (`Ends`) and is all of it until a
steer. Two parts are about what is queued: a slot is told to have failed only
while its `slot_done` heads the queue (`Failing`), which is why its mark is the
last thing in its column, and what is `steered` was asked for (`Asked`).

An event keeps this if it `Follows`: read in each format from what its reader
should hold, it gives what the reader should hold next. There is one such lemma
per kind of event (`TokenFollows`, `ErrorFollows`, `DoneFollows`, ...), each about
the operators of `Wire` alone. They need the slot of a token or a failure to be
open, which is the `Legal` of the queue, proved before. `InTurn` unrolls the
reading of an event's parts, at most four, where a fold would be recursive.

### A joined round and its two readers

In a joined round there are two queues between a slot's producer and its reader:
the generator's, which the pump takes from, and the backlog of the slot's
channel. `InTransit` says that there is a view the pump has, such that the
generator's queue leads from it to what the producers made, and each
connection's backlog leads from what that connection was sent to the slot's part
of it (`Behind`). The first half is the chain of `ArenaStream`, of the same
`ArenaCore`, so it is not proved again: `JoinedRound_proofs` takes
`ArenaStream_proofs` as an instance (`Generator`), with the pump for the reader,
and cites what is shown there of each step of the generator (`Control`,
`Released`, `Leads`). The instance says nothing of `streamRound`: those parts of
`ArenaStream` that `JoinedRound` does not share are not among the lemmas cited.

A push is the step between the two chains: it takes the head of the one and
lengthens the other, for its slot only, and `matchup_done` lengthens both. A
backlog that overflows, or a client that leaves, breaks its channel: what it has
been sent is kept and `Behind` asks no more of it than that it was read
legally. `Calm` and `Left` say when the pump leaves its loop: unless a client
aborted, the saves failed or the matchup was stopped, every slot has its row by
then, so the slot's channel was closed with its `matchup_done`, and a connection
ends with it (`NoEndIsSilent`). TLC checked `IndInv` on three instances before
it was proved.

### The hook

Only the prompt last sent may still speak, as `Abort` is called on the one before
(`SentOnce`); a round's conversation is its own, the one its prompt named, or none
(`RoundsKnown`); a round that was voted on without a winner is the last of its
conversation (`UndecidedLast`). From these follows that what is shown is of the
current round and what the next call names is on screen.

### The worker and its reader

`CadenceInv` relates the chain of warm fits to the counter of the loop: every warm
fit moved both, and a pass that is not forced began below the cadence. For the style report and the reply, each
statement's result is bounded by what the tables had then, and neither votes nor
answers are ever withdrawn (`StyleInv`, `ReaderInv`).

`FaithfulPass` and `SameVotersRead` rest on `PassInv`: what a pass holds was computed
from a state c of `preferences` that the present one extends, so that at the raw
read every game of c is a vote still, read or without both answers
(`GamesBounded`). The rest is about the operators, for any roster and any votes.

- *The labels* (`LabelsAreJoined`). The union-find is a forest whose ranks grow
  towards the roots (`Forest`), so a walk of n steps has met a root, or it would
  have met n + 1 ranks on n members (`WalkEnds`); compressing the path leaves the
  trees (`FindFinds`) and `Union` merges two of them and no others
  (`UnionUnites`). After any number of pairs the trees are the classes the pairs
  generate (`FoldUnites`), and the labels, which count the classes that begin
  earlier, tell the classes apart (`EarlierApart`).
- *The counts*. A pair of the fit carries the wins of the right model through both
  re-orderings (`PairCounts`), two pairs have different models (`PairsAre`), and
  sums of counts of disjoint sets of votes are counts (`SumCounts`): the games of a
  model are the votes between it and the others (`GamesAre`), which a later read
  still finds, but for rounds without both answers (`GamesBounded`).

`OneStory` needs no more of the state than its types. Each query's count is a
partition of the same votes; for the head-to-head table the entries of a model
share no vote and hold all of its scored ones (`EntriesPartition`).

Folds are recursive functions over subsets and `tlapm` has no induction rule to
give them, so the module makes its own: the least element outside a set of
numbers (`NumberInduction`), subsets by their size (`SubsetInduction`), and the
existence of the function a fold is the choice of (`FoldExists`). `FetchModels`
is written as a function of places, because `SelectSeq` is opaque to the provers.

### The bridge

The arena's rounds only grow (`RoundsInv`, `Grows`). Whatever the bridge holds of
them, in memory, on disk or in a handler, is of the chat that holds it and is what
the arena recorded (`HeldInv`). The requests a start claimed stay together and no
two starts share a round (`SharedInv`). The proof attempt corrected
`PairedTogether`: a column that repeats its prompt shares the round of a start
that never paired, and the earlier statement, which the run's columns could not
contradict, denied that.

### The hosts

For the AG-UI hosts `PageInv` says that what is on the page was told by the
server (`Screen`), that the storage holds the token of every open round that was
not cleared (`Storage`), and, the part that took finding, that while a fresh page
still reads its old thread nothing on the page is of that thread and the server's
copy of it stands still (`Reading`, `Apart`): that is why merging the late reply
takes no verdict away and why the handle it gives is accepted. `ReloadContinues`
compares the number of turns with the greatest index among them, by an induction
of its own (`Least`, `Greatest`, `Ranks`). For Vercel `ChatInv` says that every
copy of a verdict, in a vote state, a stored reveal, a rendered part, a lookup or
a ballot, is the arena's. `HostsInv` joins the two by the host an initial state
chose.

### The deployment

`DeployInv` has four parts, one for each thing that outlives a query.

- *Tables*: the files in effect are the first ones in order, and what is recorded,
  once old names are replaced, is those and as many. Without the count two names
  of one file could stand for two.
- *Scripts*: what a script has left to do fits its place. One that listed what was
  applied has the last files left, from a point that may lie behind the other
  script's; one that runs a file runs the next, and nobody else runs one. That is
  why a commit appends the right file however the two interleave: a script that is
  behind is refused (by the DDL in effect or the primary key), and ends.
- *Roster*: the default the server resolved is the model the operator named, and
  stays so whatever the seeds do to the roster after the boot.
- *Handled*: at each place of the handler, what it needs to keep the promise later:
  the prompt, the plan, and before a draw the incumbent.

`MigratedInOrder` and `Promised` follow at once. The lemmas below them are about
the operators: the foremost of some places is one of them (`ForemostPlace`), the
default found is named by the operator (`DefaultFound`), the prompt of an envelope
is the newest user message (`NewestFound`, `Parsed`), and whichever matchmaker
draws, whatever the scores, draws two different enabled models (`PickedTwo`), one
of which is then not the incumbent.

The assumptions are about the constants: the migrations have different names, a
name that was replaced is no migration's, and what an older release has recorded
are the first migrations under one name each. A database migrated by hand to
something else is outside these theorems, as it is outside the code's.

### What is only model-checked

- Liveness under fairness: `EveryoneAnswered`, `ResponseEnds`, `BothRecorded`,
  `RatingsCatchUp`, `RequestsEnd`, `ServesAgain`. The prover does not do it.
- `OwnEnd`, the third part of `EndsWithItsSlot`, which is liveness.

No module declares a RECURSIVE operator.

## Not modelled

Providers are HTTP clients; `ArenaCore` lets them do anything. The dashboards,
the example pages and the layout of the hosts format what other parts decide.
The numbers of a fit, its confidence intervals and the style coefficients are
floating-point iterations; which votes they are computed from is modelled, with the
screen, the roster and the joins to the saved answers (the speed test of the screen,
which needs timestamps, is left out). The
latency and history curves are single queries. A server restart loses the broker
and running streams whole, so they are modelled without one; `Conversation`
models what a restart leaves in the tables and `Deployment` the restart. A client
that disconnects is not noticed by a plain round (writes to a destroyed socket
return), so it is no event there. Socket buffering, CORS, static files,
`seed.demo.ts` (demonstration data), `useArenaVote` and the read-only hooks are
left out, as are tests, harnesses and packaging.
