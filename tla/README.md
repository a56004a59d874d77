# callbot-master: a verification project

TLA+ specifications of `callbot-master` (Go), the TLC models that check them and
the TLAPS proofs about them. Line numbers are those of the repository's files;
`internal/` is `src/internal/` in `PROJECT.json`, which maps every definition
to its lines and lists runs, mutants, findings, hazards and theorems.

## The system

A voice bot. FreeSWITCH holds the phone channels; the program talks to it over
two ESL connections (events, commands) and over FIFOs (caller audio in, bot
audio out). ASR is a gRPC stream, TTS a WebSocket, the bot an HTTP text stream.
A browser can talk to the same bots over a WebSocket (voice) or HTTP (chat), and
an admin API edits bots, users and evaluations in Postgres.

| part | state it keeps | operations | hard behaviour | correct when |
|---|---|---|---|---|
| campaign pool (`campaign/`) | leads and their status, semaphore, canceled flag, context | Create, runWorkers, Cancel, SetLeadStatus, Wait | goroutine per lead, cancel at any point, callbacks from calls | CCU bound, drains, cancel is final and stops dialing |
| outbound calls (`pipeline/outbound.go`) | pending map, wasAnswered | Originate, onAnswer, onHangup | handlers are goroutines, events overtake each other and the job result | every lead settles, an answered call is picked up, nothing leaks |
| ESL (`freeswitch/`) | two connections, handlers, job channels | SendAPI, SendBgAPI, SendOriginate, HandleEvents, maintainConnection, reconnectAPI | a command that times out while others wait with the old connection, late answers, events lost with a connection | an answer reaches the command it belongs to (but behind a bgapi the library gave up), the command connection comes back, hangups are delivered |
| sessions (`session/`, `session_runner.go`) | session map, context, playback registry | Run, Cancel, DrainAll, onPlaybackStop | hangup, shutdown, duplicates | a session ends with its channel and leaves the map |
| one turn, audio (`turn.go`, `filler_ctrl.go`) | sink, filler, FreeSWITCH's queue | Speak, Cancel, triggerBargeIn | three threads can empty one queue | the caller hears filler, then answer, then nothing after interrupting |
| one turn, words (`turn.go`, `bargein.go`) | sentence channel, pump, monitor, pendingTranscript | RunTurn, Speak, Listen | interruption in every phase | the answer is spoken whole, what the caller says reaches the bot once |
| caller audio (`audio/fifo_source.go`, `asr/`, Listen) | frame channel, gRPC window, sendMu, result channel | StartStream, SendAudio, CloseSend, Close, recvLoop, the source's reader | a server that stops reading holds sendMu, a FIFO that never ends | one reader of the frames, all ends with the call |
| bot stream and parser (`bot/`) | buffer, flushedTo, action | Feed, Finalize | chunks cut inside a rune, a trailer after the action | the sentences are the text, the action is not spoken |
| inbound calls (`inbound.go`) | none of its own | onPark | duplicate PARK, lookup between check and add | one session per channel |
| persistence, archiver (`persist.go`, `recording/`, `store/postgres.go`) | history row, archived file | Insert, Archive, SetRecordingURL | order of insert and update, retries | the row has its recording |
| web voice (`api/web_voice.go`) | turn counter, streams of the turn, frame channel | voice, run, listen, runBotTurn, bargeMonitor, readLoop | barge-in nests turns, pumps outlive their listen, the visitor leaves at any point | dialogue stored in order, accepted barge-in answered, session closed |
| web chat (`api/web_chat.go`) | turns of a session | post | several requests of one session, client leaves mid-answer | the answer of a stored message is stored |
| store and admin API (`store/`, `api/bots.go`, `users.go`, `tenants.go`, `qc.go`) | Postgres rows | create, update with version, soft delete, DIDs, users, evaluations, seeds of a start | handlers of several statements overlap, the process dies between them | no lost edit, history kept, an admin remains |
| campaign API (`api/campaigns.go`) | c and bound of a create request | create, cancel | the workers run its closure before Create has returned, and share it without a lock | every call reports to its campaign |
| auth, config, metrics, tools, generated code | - | - | none or pure I/O | - |

How they interact: a campaign worker calls Originate, which registers the call
as pending, sends `bgapi originate` and waits for its job. FreeSWITCH events
start handler goroutines; onAnswer starts Run, which adds a session and loops
over RunTurn. Speak starts the goroutines of a turn, and all of them send
commands to the same channel; Listen and the barge-in monitor take the caller's
frames from one channel. Callbacks take the call's fate back to the lead. The
web handlers use the same ASR, TTS and bot clients and write to their own tables.

## Modules

| module | models | kind |
|---|---|---|
| `DialPool` | what a pool promises: nothing is dialed twice or after it was skipped, late dials only of leads already let through, an outcome that is reported last | abstract |
| `Campaign` | `campaign/manager.go`, `lead.go`: dispatch loop, goroutine per lead, semaphore, Cancel, SetLeadStatus | detailed, implements `DialPool` |
| `Outbound` | `outbound.go`, the job wait of `eventsocket.go`, the events of FreeSWITCH, Run's life cycle | extends `Campaign` and implements its callbacks |
| `EventSocket` | the two connections of `eventsocket.go`: connect and subscribe, the event reader, SendAPI with its 5 s, SendBgAPI, reconnectAPI | detailed |
| `TurnAudio` | one Speak on the live path: filler controller, audio goroutine, main flow with its defers, playback registry, FreeSWITCH's queue | detailed |
| `Turn` | the loop of turns: RunTurn, the bot's reader, sentence pump, monitor, main flow | detailed |
| `CallerAudio` | FIFOSource, Listen's loop, the monitor's pump and watcher, the drain, `viettel_grpc.go` with sendMu, window and recvLoop | detailed |
| `BotText` | the reader of `http_stream.go` and `parser.go`, byte by byte where runes are cut | algorithm as a machine |
| `Streams` | either of the two provider streams of a call | composes `CallerAudio` and `BotText` |
| `Calls` | an inbound channel: the PARK handlers of `inbound.go`, `SessionRunner.Run` with its defers, the session map, HANGUP, the archiver, the row in `call_history`, the shutdown of `cmd/server/main.go` | detailed |
| `WebStore` | the rows of a web session: numbering under UNIQUE (session_id, idx), total_turns, end | shared tables |
| `WebVoice`, `WebChat` | a voice session with its goroutines and visitor; concurrent chat requests of a session | detailed, on `WebStore` |
| `TurnLog` | what the record of a web session promises its readers: lines are only appended, none twice, no message behind its answer, none after the end where one goroutine writes | abstract |
| `Web` | a session of either channel | composes the two, implements `TurnLog` |
| `AdminBase` | requests, each of several statements | shared by the next two |
| `AdminBots`, `AdminUsers` | tenants, bots, DIDs; users and evaluations | detailed |
| `Admin` | all requests, the seeds of a start, the process dying between two statements | composes the two |
| `MC*` | the constants of a run, with the cfg of the same name | TLC |
| `OutboundProofs` | the pool of `Campaign` and its refinement of `DialPool`, then the calls of `Outbound`, for all constants | TLAPS |
| `CallsProofs` | the session map and the row of `Calls`, for any number of PARK events | TLAPS |
| `StreamsProofs` | one reader of the caller's frames, one sender into a stream, the sentences of a reply, for any sizes, replies and chunks | TLAPS |
| `EventSocketProofs` | whose answer a command returns, for any number of commands and connections | TLAPS |
| `TurnProofs` | what a call hears and says, for any number of turns and sentences | TLAPS |
| `TurnAudioProofs` | who stops whose playback in one Speak, for any number of frames | TLAPS |
| `AdminProofs` | accounts, edits and history, for any number of people and rows | TLAPS |
| `WebProofs` | numbering, dialogue and recordings of a web session and its refinement of `TurnLog`, for any number of utterances and requests | TLAPS |

### Calls and turns

In `Campaign` a critical section of `c.mu` is one step and
everything between two of them is interleaved: the check of canceled
(`LoopCheck`) and the slot (`LoopAcquire`) are two steps, as in the code, and
so are `CancelFlag` and `CancelCtx`. `Callback` lets any status callback come
at any time; `Outbound` replaces it by the callbacks the handlers really make
and `ImplementsCampaign` checks that nothing new becomes possible. In
`Outbound` each handler has a program counter per call (`ans`, `hup`), because
each event is handled in a goroutine of its own; BACKGROUND_JOB is handled by
the reader. In `TurnAudio` the threads are `dec` (decider), `aud` (audio
goroutine) and `main` (Speak); "break" and "wait" are the two halves of the
filler's `stop()`. `Turn` has the same main flow for the other half of its
state; there the audio goroutine only ends and FreeSWITCH is not seen. In
`Calls` a handler and the Run it starts carry the number of their PARK; `hnd`
and `run` are their program counters, `sessions` is the map's entry of the
channel's uuid. A step of `Run` is what lies between two points where something
else can matter: the map, an API command, the row. `RunRemove` stands for the
defers up to `Sessions.Remove`, `RunArchive` for the start of the archive
goroutine, `RunInsert` for the defer that was registered first and runs last.

Abstractions. A lead stands for its call, so a uuid is the lead's. Transcripts
are "few" or "many" words (below or above BargeMinWords) with the number of the
turn they were heard in. TTS audio is a bounded number of frames, the channel of
16 frames holds one. Timers may fire at any time. Logging, metrics, spans and
the call history record are left out. External, modelled from how the code uses
it: FreeSWITCH's queue and events, the TTS provider, the bot server, the ASR
server. `uuid_break all` empties the queue and yields a PLAYBACK_STOP for the
playing head only; a broadcast to a dead channel is accepted and does nothing
(SendAPI does not look at `-ERR`). An API call that returns an error may have been sent
all the same, because the error may be SendAPI's 5 s timeout (`eventsocket.go:234`): in
`TurnAudio` such a call stays in `late` and FreeSWITCH may run it at any later time
(`FsRunsLate`), and `failed` remembers that it happened; in `Outbound` an originate whose
bgapi failed may ring. Speak's eager sink (offline tools) is left out. In `Turn` Listen
is one step that yields a transcript; `CallerAudio` has its loop.

### The connections to FreeSWITCH

`EventSocket` numbers connections in the order they are dialed. `at` is
maintainConnection's place; a command's `on` is the `c` it read from
`es.apiConn` before it waits for `apiMu`, so between the two the field may
change. `owed` is what FreeSWITCH has still to answer on a connection: a late
answer stays there. A timeout is two steps (`Timeout` closes, `Drop` clears the
field and starts reconnectAPI), because `es.mu` is taken in between. Events go
only to names subscribed on the current connection; those not read when it
breaks are lost; `via` is the connection a hangup was sent on. A command whose Send
errors keeps the connection in the field. There are two ways: it broke or was closed
(`SendFails`), or it works and the library's own 60 s for a reply are over (`GiveUp`),
which only a bgapi lives to see, since SendAPI stops after 5 s. The reply then stays owed
on a connection in use. A subscription that waits for 60 s closes its connections, as one
on a broken connection does (`SubscribeFails`). Left out: Close at shutdown.

### Caller audio

`run` is the goroutine of `SessionRunner.Run`: inside a Speak the frames belong to
the monitor's pump or to the drain, otherwise to Listen. `up` is the sending side of
the stream in use: `mu` is sendMu, `unread` what the server has not read yet; a
Send blocks at `Window`. `str` has one entry per stream whose recvLoop may still
run: it outlives the stream's use. SendAudio tests its flags before it takes
sendMu (`PumpTakes`, then `PumpLocks`), so a Send may follow a CloseSend. A pump
ends with the first SendAudio error, and during the rest of that Speak nobody
reads the FIFO's channel. `Turn`'s `SpeakComesBack` takes the stop of the monitor for
granted; `ReadingServerIsEnough` says when it is: as long as the recogniser reads.

### Bot text

A byte is known by what the parser tells apart: blank, newline (a delimiter that
TrimSpace also removes), another delimiter, the three bytes of the ellipsis, bar,
ENDCALL, letter. A sentence is the pair of places where it begins and ends in the
reply. Chunks end anywhere, inside an ellipsis too: the scan begins again at
`flushedTo` with every chunk (`Ends`), so it meets the cut rune whole. Feed
cuts all sentences of a chunk before the first is sent, but looks at `flushedTo` only
with the next chunk, so `Cut` may do one at a time. The sentences' channel
and its reader are in `Turn`.

### Web sessions

In `WebVoice` `at` is the goroutine that serves the socket, with runBotTurn's
recursion as a turn inside a turn: `turn` has a serial number `n` beside its
index, and only run advances `idx`. Audio is counted in utterances; `stale` is
the number of pumps of earlier listens that still wait on audioCh, each of which
eats one frame of `Frames`. `wavs` has the turn whose recording is in the file of a number:
newWavRecorder truncates the file of that name (`Record`), or fails before or behind
os.Create, which is logged, and the row names the file all the same (`RecorderFails`,
`unrecorded`). A recording directory is configured; write errors behind the
header are left out. The filler of a web turn (playFiller) is left out: it
writes audio to the socket and touches nothing modelled here. In `WebChat`
each request runs in a goroutine of its own; the append transaction is cut
between SELECT MAX(idx) and INSERT, where another request's commit fits, and
the UNIQUE constraint refuses the second.

`Web` maps its rows to `TurnLog`: `Log` is what GetWebSession returns, the rows in the
order of their numbers, and a message or an answer is known by the utterance or
request it comes from. `over` is the row's end stamp. `many` is true of a chat:
turns may be appended after it was ended, so only a voice session is promised complete.

### Admin

`req` is the place of each request with the row it looked up. A request is cut
between statements (GetBotByID and UpdateBot; the count of admins and the
DELETE); a single statement, or a transaction whose parts nobody else can see,
is one step. A form is a browser's copy of a bot and survives a restart; requests
in flight do not. `cfg` records the author of each field, so a lost edit is
visible. Configuration is the name, the URL and a token, which stands for the
secrets a form does not show. A start upserts the admin only if its environment has a password
(`BootAdmin`; otherwise main warns and the server comes up as it is), and the DID only
if it has one; `hadAdmin` says that there has been an admin, and before that nobody has a
token to make a request with. Left out: a bot's slug, which can be edited
(`store/bots.go:299`; one that is taken is refused by its UNIQUE), the defaults of
toWriteInput for values that are zero, and the flag is_bot_admin of a user, a third
statement like the two modelled.

## Runs

Passing runs (`expect: pass`); all but `outbound` and `admin` run a fair
specification:

| run | instance | distinct states | shows |
|---|---|---|---|
| `campaign` | 4 leads, CCU 2: both slots and the select can hold a lead when Cancel returns, and one is left to skip | 194,031 | `PoolSafe`, failed stays failed, the pool ends, `DialPool` implemented, by which a cancel is final (`CancelSticks`) |
| `outbound` | 2 calls, one slot, so the second starts while the first one's events are still under way | 1,483,952 | `StatusIsTrue`, no leaked pending entry, session map matches Run, `Campaign` implemented |
| `outbound_live` | 1 call | 5,021 | the pool ends although results are dropped; a canceled session leaves |
| `event_socket` | 2 commands, the events of a channel, 5 connections of which one breaks, one dial or subscription that fails | 346,368 | an answer is returned once, and another command's only behind a bgapi that was given up; a command returns, the command connection comes back, a hangup is dispatched unless the connection it was sent on broke |
| `turn_audio` | filler, barge-in, API calls that fail and may be run late, 2 frames (the first opens the sink, the second does not) | 791,504 | a canceled filler has a stopper unless the call that started or stopped it failed, one stopper, done means over, Speak returns after a hangup and is otherwise stuck only in the FIFO open |
| `turn` | 3 turns, 3 sentences, a channel of 1 (full with one sentence waiting and one held back) | 141,354 | transcript kept and fresh, whole answer, silence after barge-in, Speak comes back |
| `streams` | 2 ASR streams, channels of 1; every reply of up to 4 runes in any chunks | 179,463 | one reader of the frames, no CloseSend beside a Send, everything ends after a hangup, a recogniser that reads is enough for Listen and the monitor's stop to end, the sentences are the text |
| `calls` | 1 channel, 2 PARK events: two handlers of one uuid at any distance | 27,556 | the map entry is live, a URL is never blanked, a canceled Run ends, the process ends after SIGTERM |
| `web` | voice: a long utterance, which may interrupt, and a short one, which the monitor drops, a refused write, a recorder that fails; chat: 3 requests, a refused write | 489,638 | numbering, alternation, accepted barge-in answered, recordings lost only after a barge-in or a failed recorder, answers of stored messages stored, `TurnLog` implemented, the session ends |
| `admin` | 3 requests on 2 tenants, 2 bots, a DID, 3 users and an evaluation, 2 starts, each with or without a password and a DID | 362,148 | rows whole, no lost edit, history kept, the last admin lost only to two deletions that counted together |

Some properties are conjunctions, so that one exploration answers for parts that
belong together: `PoolSafe` (types, CCU bound, late dials, canceled leads, drained pool),
`StatusIsTrue` (`ReportedOnlyIfPickedUp`: what is counted was picked up;
`SettlesUnlessMissed`: a lead whose call is over is settled, unless the end was reported
before its uuid was recorded), `OutInv` (types, no leaked pending entry, the session map
matches Run), `AudioInv` (types, a canceled filler has a
stopper unless its own broadcast or stop call failed, and only one), `TurnInv` (types, a fired turn has a transcript), `WebInv`
(types, numbering), `ChatIsKept` (`AnswerIsRecorded`, `EndedChatIsComplete`),
`AccountsAreSound` (`RowsAreWhole`, `LastAdminNeedsRace`), `HistoryIsKept`
(`DeletedBotIsFinal`, `DidsAreNotStolen`, `EvaluatorIsKept`).

With both utterances of `web` long two barge-ins nest; that was run by hand (668,641 states,
no error), because the listed run also needs an utterance the monitor drops.

Violations (each is one finding; the quotes are in `PROJECT.json`):

| run | what happens |
|---|---|
| `tts_open_hangs` | the late stop of a filler empties FreeSWITCH's queue, the TTS FIFO included; the open blocks until hangup |
| `action_spoken` | a delimiter behind the action makes Feed cut "\|ENDCALL" off as a sentence, which TTS speaks |

## Promises the code does not keep

These are stated as definitions, too. Those with a cfg can be run by hand
(`tlc -config <cfg> <module>`) and TLC finds the behaviour described.

| property (module, cfg) | what happens |
|---|---|
| `LeadSettles` (`MCOutbound`, `MCLeadSettles.cfg`) | a short call ends before its uuid is recorded (`manager.go:235`); the lead stays "dialing". `SettlesUnlessMissed` is the exact form the code keeps: `missed` has the leads this happened to |
| `NoGhostSession` (`MCOutbound`, `MCNoGhostSession.cfg`) | a hangup between ANSWER and Sessions.Add: the session runs on a dead channel |
| `OneSessionPerCall` (`MCCalls`, `MCOneSessionPerCall.cfg`) | two PARK handlers both look before either Run adds its session: two Runs on one channel |
| `UrlRecorded` (`MCCalls`, `MCUrlRecorded.cfg`) | the archive goroutine is faster than the insert: its UPDATE meets no row, the URL is lost |
| `TriggerIsKept` (`MCTurn`, `MCTriggerIsKept.cfg`) | PLAYBACK_STOP and trigger are ready together, the select takes the first, the words are lost |
| `ListenIsCapped` (`MCStreams`, `MCListenCapped.cfg`) | Listen's cap (`turn.go:259`) is checked by the goroutine that also sends (`turn.go:327`): a recogniser that stops reading blocks it until the caller hangs up, and Close (`viettel_grpc.go:117-131`) waits for sendMu before it cancels |
| `AdminRemains` (`MCAdmin`, `MCAdminRemains.cfg`) | two deletions count two admins each and delete both (`store/users.go:200`) |
| `BootSeeds` (`MCAdmin`, `MCBootSeeds.cfg`) | the default bot was soft-deleted: the seed's ON CONFLICT leaves it deleted, no bot is live (`store/bots.go:177`) |
| `ParkedHangsUp` (`EventSocket`) | the event connection is replaced between PARK and HANGUP, or the channel hangs up after PARK was subscribed and before CHANNEL_HANGUP was: the session of a dead channel goes on |
| `AnswerIsMine` (`MCEventSocket`, `MCAnswerIsMine.cfg`) | a bgapi gives up after the library's 60 s and leaves its connection in `es.apiConn` (`eventsocket.go:284`, `334`); the next command reads the late reply as its own. `AnswersInLine` is what the code keeps |
| `FillerAlwaysStopped` (`MCTurnAudio`, `MCFillerAlwaysStopped.cfg`) | the filler's uuid_broadcast times out after 5 s; Play reports that nothing was started and returns no stop() (`session_runner.go:174`), and FreeSWITCH plays the filler, over the answer or over silence |
| `NoneForgotten` (`EventSocket`) | a connection that works is forgotten open: a command that waited with the old one times out and sets `es.apiConn` to nil although it is a new one by then, or the event side resets the pair it dialed after reconnectAPI replaced one of it |
| `EndCallIsNormalEnd` (`WebVoice`) | ENDCALL reaches voice as an error, and the row ends with status "error" (`web_voice.go:206`) |

Further behaviour the models allow, because it is what the code does:

- Up to CCU+1 leads are dialed after Cancel returned (the check of canceled at
  `manager.go:185` precedes the wait for a slot). `LateDialsBounded` is the
  exact promise the code keeps.
- A failed job makes Originate delete the pending entry (`outbound.go:181`)
  before onHangup has classified the cause: no answer is reported as failed.
- After the 60 s job timeout, a result that came before `bgJobs.Store`
  (`eventsocket.go:305`), or a bgapi whose own reply did not come, an answer finds no pending entry and the answered
  channel stays parked (`outbound.go:204-207`).
- A bgapi waits for its reply as long as the library lets it, 60 s, and holds `apiMu`
  meanwhile: the 5 s of other commands start behind it.
- A TTS broadcast that is run late starts on a FIFO whose file is removed: it holds
  FreeSWITCH's queue until the next uuid_break or the hangup.
- reconnectAPI dials once; when that fails every command is refused until the
  event connection is replaced, too.
- The first TTS frame comes while `Filler.Play` is being sent: Cancel finds no
  stopFn and FIFO and filler are both queued (`turn.go:565-598`).
- A frame still buffered at barge-in opens the sink after the break
  (`turn.go:574-598`).
- A turn that fails ends Run without `uuid_kill` (`session_runner.go:598`): the
  caller stays on a channel nobody serves.
- `wg.Add` (`inbound.go:110`) may come after `inbound.Wait` has returned, and
  nobody waits for the archive goroutine (`session_runner.go:344`): the process
  can exit under both.
- The first non-empty recording is copied, complete or not (`archiver.go:192`).
- A bot error returns from Speak before the audio goroutine has opened the sink,
  and nobody closes it (`turn.go:455-459`, `740`).
- Web voice: pumps of earlier listens eat frames of later utterances; the error
  of a pump that sends to a finished stream races with the result and may end the
  session as "error"; the monitor drops short answers; after a failure the row is
  closed only when the client has disconnected, because run's first deferred call
  waits for readLoop; after a barge-in the next turn overwrites a WAV file; a row whose
  recorder failed names a file that is not there, or one such a turn left.
- Web chat: turns are appended to a chat that was ended; of two appends that
  computed one index the second is refused and that turn is lost.

Deadlock. `Campaign`, `Outbound`, `Calls`, `EventSocket`, `Streams`, `Web` and
`Admin` end (the pool is done, calls and sessions are over, every request was
made), so their cfgs switch the deadlock check off. `TurnAudio` and `Turn` have a
named final step (`TurnOver`, `CallOver`) and deadlock is checked.

Bounds. NumLeads, CCU, MaxParks, MaxFrames, MaxSent, SentCap, MaxTurns; Commands,
MaxConns, MaxBreaks, MaxFails; Streams, ChanCap, Window, OutCap, MaxRunes;
Utterances, Cap, Frames, MaxStale, MaxFails, MaxUnrecorded; Requests, MaxBoots. The hazards need two actors
at one place: a lead in the select and one in each slot, two handlers of one uuid,
one frame that opens and one that writes, one sentence in the channel and one held
back, an interrupted turn with one before and one after it; one command that times
out, or is given up, and one that waits behind it with the same connection; a stream in use and the
recvLoop of the one before; a chunk border at every byte of an ellipsis beside
another rune, a bar and an action; three requests, because a loaded form, an edit
and a deletion are three people. Channels of 8 and 16 hold one: full and empty are
the two states that matter.

Fairness. Goroutines run (weak fairness of their steps). Originate ends because
of its 60 s timer; the waits in Speak and in `stop()` because of theirs; the
bot's request because of its total timeout. TTS ends a stream that was closed or
got its end of stream; FreeSWITCH plays its queue and reports a hangup to the
session. PARK handlers, Runs and archive goroutines go on because lookup, API
command, insert and archive have time limits and a turn returns when its context
is done. Nothing makes a callee answer, a caller speak or hang up, an operator
cancel, or an ASR server reply. PLAYBACK_STOP has no fairness: it may be lost.
In `EventSocket` a goroutine that waits for `apiMu` gets it in the end (strong
fairness of `Send`: Go's mutex is starvation-free), the 5 s timer of SendAPI and the
library's 60 s end a wait, a dial that is repeated succeeds in the end, and
reconnectAPI's single one ends, with a connection or without; FreeSWITCH need not answer. In `TurnAudio` a command that was
given up need not be run. In `Streams` Listen's select, the
timers and the pump have strong fairness, because a select with a ready case is
not passed over for ever while other frames come and go; the server need not
read, answer or end anything. In `Web` the recogniser ends a stream (its own
silence timeouts) and bot and TTS answer or fail; the visitor need not speak or
leave. `Admin` has no liveness.

Mutants. Each property of a passing run has a mutated definition (an operator
marked "A bug") with which TLC finds it violated: a flag that is not
looked at, a missing wait, a dropped re-check, a missing deadline, a connection
left open, a scan that compares bytes, an insert that overwrites and so on.

## Proofs

Each component has one inductive invariant. `OutInv`, `TurnInv`, `AudioInv` and
`WebInv` are checked by runs; the strengthened forms below were checked by TLC on the
constants of the run (`SessionInv` and `OnceInv` of `WebProofs` with three utterances as
well) before they were proved. A theorem that a property holds then takes three
facts: Init gives the invariant, every step keeps it (one lemma per action or kind of
action), and the invariant, or an invariant and a step, gives the property.

| module | inductive invariant | properties proved from it |
|---|---|---|
| `OutboundProofs` | `PoolInv`; `OutboundInv` | `PoolSafe`, `CancelSticks`, `FailedOriginateIsFinal`, `ImplementsDialPool`; `ImplementsCampaign`, `OutInv`, `StatusIsTrue`, and the pool's `PoolSafe`, `CancelSticks`, `ImplementsDialPool` under these handlers |
| `CallsProofs` | `SessionInv` | `SessionIsLive`, `UrlNeverBlanked` |
| `StreamsProofs` | `ReaderInv` with `MuInv`; `TextInv` | `OneReader`, `SendsAlone`; `SpokenIsText` |
| `EventSocketProofs` | `SocketInv` | `AnswersInLine`, one command at a time between Send and answer |
| `TurnProofs` | `TalkInv` | `TurnInv`, `MessageIsFresh`, `WholeAnswerSpoken`, `SilentAfterBarge` |
| `TurnAudioProofs` | `SpeakInv` | `AudioInv`, `DoneMeansOver` |
| `AdminProofs` | `AdminInv` | `AccountsAreSound`, `NoLostEdit`, `HistoryIsKept` |
| `WebProofs` | `SessionInv`; with `OnceInv` | `WebInv`, `DialogueAlternates`, `ChatIsKept`, `RecordingsFollowTurns`, `AcceptedBargeIsAnswered`; `ImplementsTurnLog` |

The pool (`OutboundProofs`, first part), for every NumLeads > 0 and every integer CCU.
The type invariant with the CCU bound is not inductive: a Release must know that
its token is there. `TokensHeld` says that sem counts the goroutines between
acquire and release, which makes the channel's capacity a bound on dials.
`NotReached` says the loop has not touched later leads, so that a started
goroutine adds exactly one holder. `LateBudget` counts, after the context is
done, the late dials together with the goroutines that have yet to dial and the
lead in the select; no step increases the sum, which bounds late dials by CCU+1.
The remaining conjuncts tie a lead's status to its goroutine. Counting arguments
use `FiniteSetTheorems`. `PoolImplements` (`CampaignSpec => ImplementsDialPool`) has
one lemma per kind of step: StartDial is Start, originate's return is Finish,
skipping is Skip, Cancel is RequestStop and StopReturns, the loop's end is
ReportDone, the rest stutters. Start needs `LateBudget` for the number of late
dials, and `LateStarted` (a goroutine is counted late only once it is in
originate) for each lead to be counted once.

The calls (`OutboundProofs`, second part). `OutboundImplements`: every step of `Outbound`
is a step of the pool, a callback or a stutter. `OutboundInv` has six parts for each lead.
`OriginateInOrder`: a channel exists only after it was asked for, and a goroutine that is
done with its lead has seen Originate return. `PickedUpFirst`: whatever says that a call was
answered (job result, handler, Run, status, uuid) comes after the answer, in any order of
the events; this is `ReportedOnlyIfPickedUp` made inductive. `OneRun`: one ANSWER spawns
one Run, and the session is in the map exactly while Run is between Add and Remove.
`PendingHasOwner`: an entry of the pending map has somebody left who will delete it:
Originate until it has succeeded, then the hangup handler until it has seen a session,
then Run. Without the hand-over between the last two, `NoPendingLeak` is not
inductive. `DialedInOrder` ties Originate to the worker that called it. `EndIsReported`
follows the end of a placed call: the pending entry waits for the hangup handler or
for Run, whichever has it last; the one that is through has reported, or has left it to
Run. `SettlesUnlessMissed` is that with nothing left to do. Since the calls
implement the pool, what was proved of `CampaignSpec` holds of `OutSpec`
(`PoolIsSafeUnderCalls`).

`CallsProofs`. The type invariant with `SessionIsLive` is inductive: `Sessions.Remove`
deletes whatever entry the uuid has, so the entry is never that of a finished Run, and
with one Run only its own Remove can take it away. The type invariant carries
that a Run begins once, after its handler.

`StreamsProofs`. The caller's audio: `ReaderInv` says more than one reader does: the pump
and the drain live only inside a Speak, a Speak starts one of them, and it is joined when
both are over; Listen begins only outside. Most of the machine keeps the two and `run`
(`OthersKeep`), so capacities and the server do not matter. `MuInv` says that sendMu is
held exactly while the pump or Listen is in a Send, which is why CloseSend never
runs beside one. The bot's reply: `TextInv` adds to `SpokenIsText` that a
scan starts behind a delimiter (`AtRune`). An ellipsis has no byte of another delimiter, so
such a scan never starts inside one and sees every delimiter that has been read
(`ScanSeesAll`): what is cut off has one at its end and none before. `SentFits` keeps the
sentences behind `flushedTo`, which separates the next one from them.

`EventSocketProofs`. Whose answer a command reads needs what is still owed: `OwedOnce` says
that a connection owes only what was written to it, each answer once, and none that was
returned. `OwedToHolder` says that a connection that works, and on which no bgapi was given
up (`GivenUp`), owes an answer to nobody but the command that waits: a timeout of SendAPI
leaves its answer owed, but has closed the connection before `apiMu` is released, and a
failed Send leaves a broken connection. `HolderWaits` ties the mutex to the command's
place, so that the one who is owed is the one who reads; `Returned` keeps an answer
from being returned for a command that was never written. A bgapi stays given up, which
is why `AnswersInLine` may name it after its answer has been read.

`TurnProofs`. `WholeAnswerSpoken` needs `PumpSaysAll` (while TTS is open an ended pump has
sent what it got, and the end of the stream), which holds because only a barge-in or the
main flow after the pump closes TTS. `MessageIsFresh` and "an interrupted turn has text" rest on
`HeardNow` (the monitor's words are of this turn, and there is a last one from the
first trigger on) and `PendingIsFresh` (the words kept for the next turn are of the
Speak just over, and no Speak runs while they wait).

`TurnAudioProofs`. `OneOwner`: the filler's stop() belongs to the decider until it is
handed over in stopFn, then to the first Cancel, and nobody runs it before `stopped`
is set; two threads in stop() are excluded because the swap of stopFn is under `c.mu`.
`FillerOwned`: a queued filler has one of these owners, unless its broadcast or its stop
failed. `OncePlayed` says that each playback is started once, by the call or by
FreeSWITCH's late run of it, so that what has ended (`EndedIsGone`) cannot come back to
FreeSWITCH's queue, and what may be run late is not in it yet.

`AdminProofs`. A lost edit is excluded by `BotRequestOK`: a form whose version is the stored
one shows the stored fields, since every write of a field raises the version. For the last
admin `AdminsCounted` keeps a witness: the number N of admins after the last start that
seeded one (or at the beginning, if there were any) and
the set D of deletions that succeeded since, through starts that seed none; every admin that is missing is accounted for
by one of D, each of which had counted between 2 and N. When none is left, |D| >= N >= 2
deletions have only N - 1 possible counts, and two of them agree (`FS_PigeonHole`).
`RolesFit` keeps tenant users from being admins, `EvalWhole` keeps an author's account.

`WebProofs`. The store: the stored numbers are 1 .. n, so MAX(idx)+1 is n+1, and under
UNIQUE (session_id, idx) an insert either appends or is refused, whatever number an
overlapping request had read before. Voice: `OneTurnEach` bounds turns by utterances (a turn,
one that is due and what is on its way come from different utterances), which types
the table of recordings for any number of them; `CountersFit` relates run's idx, the
turn's idx and its serial number; `BargeFits` says the monitor runs only beside a turn that
speaks, and what it accepted waits until the next turn begins; `RecordingsFit`, that
a number run has not reached is used only by turns a barge-in started, and that its file
is spare (`SpareFile`: empty, or of such a turn), is what makes
`RecordingsFollowTurns` inductive (`Follows` is its body for one turn and file); `DialogueFits` says that, while no write was
refused, the row a turn answers is the last one when its answer is written. The proof
treats the steps that begin, store or cut a turn one by one, and all others ("calm" steps)
together. It depends on the code's wait for the monitor: without it the invariant is not kept
where the answer is stored. Chat: for each
request its message is on record before the answer is fetched, the number it holds is
never above the next free one, and a finished one has its answer behind its message, unless
another request took the number or a write was refused.

The record (`RecordIsALog`) needs that no line is written twice. `OnceInv` says so of the
sources: an utterance is in one place, on its way, accepted by the monitor or in a turn,
and none of the first two kinds has a row yet; the turn that runs has no answer on record;
an ended voice session has returned; the rows of a chat request are its message until the
answer is stored. `RowIsLine` turns the row with the next number into the next line of
the log (`RowsByNumber`: the numbers are 1 .. n, one row each). Each step of either
channel then writes one line, stamps the end, or leaves both alone (`RowSteps`).

Assumptions, all of them evaluated by the runs: `NumLeadsAssumption` (the API refuses an
empty CSV) and `CCUAssumption` (any integer), `CallsAssumption` (at least one PARK),
`SocketAssumption` (bounds are naturals, None is no command), `TurnAssumption` (barge-in is
on or off, the sentence channel holds at least one, at least one turn),
`TurnAudioAssumption` (flags and a number of frames), `AdminAssumption` (seeds are in their
sets, the account of MASTER_PLATFORM_ADMIN_USER has no tenant, finitely many users, None is no row),
`WebAssumption` (finitely many utterances, the first chat request is one, None is neither,
bounds are naturals), `TextAssumption` (replies are sequences of bytes).

Model-checked only:

- All liveness, the properties that say where a wait may end included: `CampaignEnds`
  and its like, `CanceledRunEnds`, `ShutdownCompletes`, `SpeakComesBack`. There is no
  ENABLED in the prover's reach.
- The two violations are counterexamples and have nothing to prove.

## Not modelled, and the plan

Not worth a model: configuration, metrics, tracing, password and token code,
generated gRPC code, command line tools, deployment, CSV parsing, exports, lists
and reports, the filler pool (a random pick), the intent client (one request,
whose outcome `TurnAudio` chooses), the provider registry (a cache). `RingBuf` and the
voice activity detector are used by nothing in the running server: the recogniser
decides where an utterance ends.

Not modelled yet:

1. The campaign API: the closure at `api/campaigns.go:224` reads `c` and `bound`,
   which the handler sets when Create has returned ("The closure runs after Create
   returns"), while the workers Create has started may run it before. A function bound
   then has no campaign, stays in `bound` for all leads, and its first callback locks the
   mutex of a nil `Campaign`.
2. The playback registry with several calls that share filler paths
   (`session_runner.go:174`).
3. Audit rows and sign-in of the admin API; EventSocket's Close at shutdown.

Next theorems: of `Calls` that a row is inserted once per Run; of `CallerAudio` that no
result of one stream is read as another's; safety halves of the liveness properties,
such as that a Speak that has not returned is at a wait some goroutine or FreeSWITCH
ends.
