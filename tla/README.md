# A TLA+ model of ssw-rs

ssw-rs wraps a Minecraft server: it launches the Java process, passes the
console through to it, restarts it periodically, stops it when nobody plays, and
listens on its port while it is stopped so that a player who joins starts it
again. All of this is a dozen tokio tasks that talk through bounded channels,
watch cells, join handles and a tree of cancellation tokens. The code is short;
what is hard about it is the order in which those tasks run. This directory
models that, checks it with TLC on small instances, and proves the main safety
properties with TLAPS for every instance.

Line numbers are those of `src/`; `PROJECT.json` maps every definition to its lines.

## The system

| component (source) | state it keeps | operations | what makes it correct |
|---|---|---|---|
| server task (`minecraft.rs` 258-393) | the handle map (`"server"`, `"listener"`, `"state"`), `server_senders`, two copies of the configuration | the six requests, a state change, its cancellation | one server at a time; a stop ends; everything is joined at the end |
| launch, stdin pipe, exit task (`minecraft.rs` 34-65, 151-248) | the process, the commands for it, the child tasks of the launch | spawn, forward a command, observe the end, grace period and kill, report Off, join the children | a joined exit task has seen its process and its tasks through; kills happen only at exit |
| state task (`state_task.rs`) | reports (a channel of 2), the state (a watch cell) | apply a report | the state ends at what the last server did |
| restart task (`restart_task.rs`) | time left | announce, wait, request a restart | it ends when it is cancelled; the announced time is the real one |
| idle shutdown and pinger (`shutdown_task.rs`, `ping_task.rs`) | the count (a watch cell), the timer and its token | ping, arm, disarm, request a stop | the timer follows the count |
| listener (`listener_task.rs`) | its socket, the connection it reads | bind, accept, tell a login from a ping, request a start | the end of a server brings a listener; logins, and only they, start the server |
| console and main (`main.rs`) | the line it handles | read a line, ask whether the server runs, exit | each question gets its own answer; exit stops the server and ends the program |
| protocol (`protocol.rs`, `protocol/serverbound.rs`) | the bits and the shift of the number being read | read a VarInt, a string, a packet | each field is found where it begins, a login is told from a ping |
| configuration (`config.rs`) | the settings, in the file and in two copies | load, save, find the version | no edit is lost, the server runs with the settings last loaded |
| Log4Shell patch, manifest (`log4shell.rs`, `manifest.rs`, `manifest/version.rs`) | arguments added to the configuration, the files of the patches, the cached manifest | choose the patch for a version, download it, save the arguments | the patch of a version is added once, and its file is there |
| logging (`logging.rs`) | the log and its archives | rotate | no log is lost |
| command line, release script, workflows | none | | |

How they interact: the console, the listener, the restart task, the idle timer
and the server task itself send requests into one channel of five slots, which
only the server task empties, one request at a time and each to its end. The server
task and the exit tasks send reports into the state task's channel of two; the
state comes back through a watch cell, which coalesces and lags behind. Exit
tasks are joined by the server task, and join their own children in turn. One
root token is cancelled by main, or by a Kill that finds no server; every other token
except those of the stdin pipes descends from it.

Outside the tasks there is the disk: the settings, the patches, the manifest and
the logs outlive the program, which may end between any two of its writes.

What is hard, therefore: a state that is read while reports are in flight;
handlers that wait (for a slot, for a join) while everything else goes on; waits
that close a circle; a cancellation that races a request; a launch that fails
half way; a handle that is overwritten while its task still runs; times that add
up over many tickers; bytes that come late, or not at all; a run that ends between
two writes. The `hazards` of `PROJECT.json` list them at their lines, each with the
properties that cover it or the reason that none does.

## The modules

Each module EXTENDS those before it, so that a handler which touches several
components is one action.

| module | models | variables and how they correspond |
|---|---|---|
| `Runtime` | the request channel, the tokens | `requests`, `receiving` (the receiver exists); `token` (the root), `cancelled` (tokens cancelled by themselves) |
| `StateTask` | `state_task.rs` | `reports`, `watch`, and `unseen`: the receiver's version differs |
| `RestartTask` | `restart_task.rs` | `restart`: the await point; `ticks`: ticks left of the schedule |
| `ShutdownTask` | `shutdown_task.rs`, `ping_task.rs` | `players`/`counted`: the watch cell of counts; `shutdown`, `timer`, `pinger`: await points; `disarmed`: `shutdown_token` |
| `ListenerTask` | `listener_task.rs` | `listener`: the await point of each listener task |
| `ServerProcess` | `start`'s exit task and `pipe_stdin`; the Java process (external) | `proc`, `stdinq`, `pipe`, `exitTask`; `spawned` counts launches; `sender` is `server_senders` |
| `ServerTask` | `begin_server_task`, `start` | `srv`: the await point of the loop; `serverHandle`, `listenerHandle`: the map; `serverAuto`, `cachedAuto`: `auto_start` in its two copies; `replies`: the channel of answers |
| `Console` | `main`, `begin_stdin_task` | `console`, `main`: await points |
| `Ssw` | the composition | the specifications, the properties |
| `Lifecycle` | what the wrapper promises of its servers, abstractly | `server`, `launched`, `charge`, `settled`, `leaving`, `over`; the mapping is below |
| `MCSsw` | | the module the runs of the task system check |

Three more compositions look closer at what the first leaves out.

| module | models | variables and how they correspond |
|---|---|---|
| `RestartTimer` | `restart_task.rs` in seconds | `stage`: the split of the loop; `timeLeft`: `time_left`; `due`: the next tick of the ticker; `clock`, `delayed`: history |
| `IdleTimer` | `shutdown_task.rs`, `ping_task.rs` in time (EXTENDS `ShutdownTask`) | `nextPing`, `pinging`, `idleLeft`: what is left or has passed of the interval, the ping and the timer; `online` and its times: the players |
| `Timers`, `MCTimers` | both on one channel | the specification and its settings |
| `Handshake` | `protocol.rs`, `serverbound.rs`, `is_client_connection` | `field`: which read it waits in; `idx`, `value`: those of `read_varint`; `stream`, `pos`: the bytes |
| `PlayerListener`, `MCPlayers` | `listener_task.rs` with its peers | `listening`: the await point; `arrived`, `accepted`: the backlog; `scripts`: what peers send |
| `LogRotation` | `logging.rs` over runs of the program | `logging`: the step; `latest`, `archive`, `whole`: the files; `logged`, `named`: history |
| `Launch` | `config.rs`, `log4shell.rs`, `manifest.rs`, `version.rs`, the first half of `start` | `file`, `exists`: the settings on disk; `config`, `args`: the two copies; `downloaded`; `edits`, `unpatched`: history |
| `Sessions`, `MCSessions` | both, from run to run | the specification and its releases |

The theorems are in `SswTypes`, `SswSafety`, `SswLifecycle`, `SswAnswers`,
`TimersSafety`, `PlayersRefine`, `SessionsSafety` and `LaunchSafety`.

A launch of the server is an *incarnation*, numbered from 1; the tasks of a
launch are indexed by it, and 0 stands for `None`. Tasks are modelled at the grain
of their await points: what runs between two awaits is one action, and each place
where a task can wait is a control state. So `AcceptStop` takes the request, reads the
state and looks for the sender; `SendsStop` waits for the slot of the pipe;
`ServerJoined` waits for the exit task. A `select!` is a choice between
actions that are enabled in the same control state, also when several of its branches are
ready, for tokio polls them in random order. Cancellation only acts where the
code selects on it: a restart task that is blocked in a send does not see it.

Abstractions. Messages carry no text: a line of the console is one of four kinds
(`help` changes nothing and is left out; a blank line is one for the server), and a command for the
server is `stop` or anything else. A player count is no answer, zero, or other.
In `Ssw` time is not counted: a timer that is armed may expire, a tick may come, and a
grace period may run out, whenever they are waited for. Loading the
configuration, patching and spawning are one step there that succeeds, fails, or panics
(`StartMayPanic`: `Duration::from_secs_f32` on a negative setting panics after the spawn). A bind
may fail if a server or another listener holds the port, and with `ListenerMayFail` for any other reason; it
succeeds only if no listener holds it (a server may not have bound it yet). `ListenerMayFail` also lets `accept` fail, and the
reading of a peer panic. A listener is over when it is done, has failed, or has panicked, which those who join it do not tell apart. A connection is a
login or something else. A ping may be answered by any live server. The Java process
may end by itself at any time, may ignore the stop command, and takes a
kill. When main returns the runtime drops every task, but a process lives on (a
dropped tokio `Child` is not killed).

Bounds. `MaxStarts` bounds launches, and with them listeners; a start past it counts as
one that fails, which the code allows as well. `MaxLines` bounds the lines typed.
`Notices` is the length of the restart schedule. `QueueCap` is 5 in the code; it
is a constant so that the theorems hold for every capacity, and so that a run can fill the
channel with fewer lines. Two launches are enough for an overlap of two
servers, two listeners or the Off of one and the On of the next, which is what
the safety properties are about. The properties of one incarnation need one.

In `Timers` one unit of time is a second, and time passes only when no task has
anything to do but wait, so what the properties bound is the delay the code causes, not
the one a loaded machine adds; `MaxDelay` bounds for how long sends are blocked. The
pings of the code are 5 seconds apart, and their timeout is the same: `PING_INTERVAL` keeps the two
equal and is 2 in the run, which leaves a moment between two pings to come and go in.
When only the restart keeps time, the clock goes from tick to tick.

In `PlayerListener` a peer follows a script: what it takes for which field, and the bytes
that it really sends, which may stop anywhere (`StreamEnds`). `ScriptAssumption` says what makes a script of one
who speaks the protocol: where each field ends and the bits of its number, in groups of seven; the length before
a string; a handshake at least, and a login start up to the length of the name from one that logs in. A legacy
ping is written down as what the code takes it for, a packet with other fields. The scripts of the run are those of Minecraft clients
of every age, pingers, and strangers. An i32 is the set of its bits, so the shifts of `read_varint` keep
their width; a shift past 31 panics or wraps, as the build has it.

In `Sessions` a configuration is its version, the patches among its arguments, and which
edit of the user it stems from. Versions are ordered by their place in a sequence of releases, and a
manifest is a prefix of it. Writing a file empties it first, so a crash leaves it torn. Local
time is one of two seconds and may be set back at any time.

## The runs

| run | bounds | what it shows |
|---|---|---|
| `core` | 2 launches, 3 lines of any kind, logins, crashes, starts that fail or panic, exit | `KillOnlyAtExit`, `LastServerReaped`, `AwaitedIsTold`, `NoPhantomOn`, `OneAnswerPerQuestion`, `Promised`; no deadlock |
| `tasks` | 1 launch, periodic restarts with one notice and the idle shutdown, a channel of 2 slots, 1 line | `TypeOK`, `JoinedIsClean`, `TimerFollowsCount` |
| `live` | 1 launch, 3 lines of any kind, `auto_start` on and off, starts and listeners that fail or panic | `SeenOnIsLoaded`; `ExitReturns`, `QuestionAnswered`, `StopCompletes`, `StoppedIsListenedFor` under `FairSpec` |
| `timers` | restarts after two hours, an hour and a bit, 1 s and 4 s, idle times of 2 and 4; 1 slot, 2 s of delay | `TypeOK`, `AnnouncedTimeIsTrue`, `RestartsOnTime`, `OnlyIdleIsStopped`, `IdleIsStopped`, `CountsAsRestartTask` |
| `players` | 2 peers out of 12 scripts, 1 slot | `TypeOK`, `FieldsAreRead`, `ClientsAreToldApart`, `ReadsAsListenerTask`; `LoginStartsServer`, `EveryPeerIsServed` under its `FairSpec` |
| `sessions` | 3 runs, 2 seconds, 1 edit, 4 versions, manifests that are torn, old or whole | `TypeOK`, `LogsAreKept`, `ArchivesAreWhole`, `UnpatchedAtMostOnce`, `EditsAreKept`, `PatchesAreThere` |

- `KillOnlyAtExit`: a server is killed only while the wrapper itself is shutting
  down. A Stop waits for as long as the server takes.
- `LastServerReaped`: when the server task ends, the last server is dead,
  or was never reported and has no owner (`left_behind`).
- `AwaitedIsTold`: a Stop, whose wait has no timeout, waits only for a server that is dead, or was
  handed the stop command, or whose pipe has the command and still forwards it. It relates the request,
  the pipe and the handle map, each of which may change while the handler waits for a slot of the pipe.
- `NoPhantomOn`: the state, with the reports in flight, never ends at On for a
  server that has been reported Off; otherwise every later Start would be
  refused. It relates the channel, the cell and the exit tasks of all incarnations.
- `JoinedIsClean`: an exit task that has ended leaves neither process, pipe, restart
  task nor shutdown task. The Stop handler relies on it. It may leave a timer that was armed, or is
  blocked in its send, and requests that are still queued.
- `OneAnswerPerQuestion`: a question is in one place, asked or answered. So the console never
  takes one answer for another, and the server task never waits for the one slot of
  the channel of answers, which `Answers` therefore does not test.
- `TimerFollowsCount`: between two counts, a timer is held exactly when the last
  count read was zero, however counts are coalesced while the task is away.
- `SeenOnIsLoaded`: once an On has been seen, the loop's copy of `auto_start` is that of
  the server that was launched last.
- `Promised`: the refinement of `Lifecycle`. Its `server` is `proc`, `launched` is `spawned`, the
  server in `charge` is the one of `server_senders`, `settled` when its exit task has ended, the
  wrapper is being left when the console is done, and `over` is the end of the server task, which is
  "broken" after a panic. It says what the invariants do not: the order of launches, who may be let go of
  and when, and that the server task finishes only when the server in its charge has been seen through.
- `ExitReturns`: if a start under way ends, leaving the console ends the program, also for servers that
  ignore the stop command. `QuestionAnswered`: if it does and servers obey, the console does not hang.
  `StopCompletes`: if servers obey, a stop comes to its end.
- `StoppedIsListenedFor`: the end of a server is never missed, however reports are coalesced and
  whatever starts and stops are refused or fail in between: a listener comes to hold its port, or there is one of
  the reasons that the property names (`NotListening`: the bind failed, a Start has ended the
  listener, the server task has panicked, the settings say no), or the console has ended. It promises nothing
  after a bind that failed, and nothing of the listener later: an error of `accept` or a panic ends it and nothing begins another.

- `AnnouncedTimeIsTrue`, `RestartsOnTime`: each stage of the countdown makes a new
  ticker, whose first tick comes at once, so a stage announces a time and counts it down in the same moment; that
  this does not add up to a drift over five stages is what they say. The restart may come a second early
  (the last second is not counted down) and as late as sends were blocked.
- `OnlyIdleIsStopped`, `IdleIsStopped`: the timer does not wait on while a player is online for
  more than two pings; and an empty server that answers is asked to stop after the time set and two pings at most. The
  first is about a timer that waits: one that has expired sends its Stop, whoever has joined since.
- `CountsAsRestartTask`, `ReadsAsListenerTask`: `RestartTimer` is `RestartTask`, and `PlayerListener` is
  `ListenerTask`, with time and bytes left out. So what is shown of the composition, which uses the
  coarse ones, holds of the fine ones.
- `FieldsAreRead`: each field of a peer that speaks the protocol begins where the one before it
  ended, although the code ignores the lengths of packets, and a partly read VarInt has the bits its bytes tell so far.
  What the code makes of the two bytes of the port (`protocol.rs` 85 reads them as little-endian; nothing uses the number) is left out.
- `ClientsAreToldApart`: exactly the peers whose handshake says login, once it has been read,
  start the server, with or without a login start packet, UUID or flag, and none of them panics the listener. `LoginStartsServer`
  and `EveryPeerIsServed` say that this comes to pass, and that those behind slow peers of the protocol are served too,
  unless a login has started the server, the listener is cancelled, or `accept` fails.
- `LogsAreKept`: a log is `latest.log` or whole in an archive, unless two logs were archived
  under one second. `ArchivesAreWhole`: an archive that a crash left torn is written anew by the next run.
- `UnpatchedAtMostOnce`: the patch comes too late for the start that adds it (the arguments were
  copied before, see `first_unpatched`), but no edit of the settings is used twice for a server without its patch.
  `EditsAreKept`: what is saved is never older than what was loaded; an edit made after the load is lost, and no
  document says otherwise. `PatchesAreThere`: settings never name a patch whose file is not there.

`core` checks for deadlock: after main has returned the model may stutter,
anywhere else a state without a step is an error. `tasks` does not, because
with the restart task or the idle shutdown the code really can stop. An exit task that
the server task waits for joins a restart task blocked in a send to the full
channel, or a shutdown task that joins a timer blocked in its send of Stop,
and only the server task would empty that channel (`circular_wait`). `players` and `sessions` do not
either: a listener that has ended, and a program that has been run for the last time, stop.

`timers` has deadlock checked, which says nothing there, for the root token can always be cancelled.

`live` leaves restarts and the idle shutdown off, for with either of
them the circular waits refute every one of its liveness properties. So what they say holds for
`restart_after_hrs` and `shutdown_after_mins` set to 0, and for the defaults (12 hours, 5 minutes) only as long as no such circle closes.
One launch is enough for them: `StoppedIsListenedFor` is stated of the first server.

Fairness. `TaskFairness` is weak fairness of each task: the runtime polls what is
ready, and the random polling order of `select!` lets a branch that stays ready be taken.
`TimerFairness` says the same of the tasks that wait for time. Users, peers
and crashes owe nothing. Two more are assumptions on the world, which `FairSpec` does not make; the properties that need them
have them as their hypotheses (`FairJavaSpec` makes both, so that `not_listening` cannot be put down to them).
`StartFairness`, that a start under way ends: it awaits a download that has no timeout, outside any
`select!` (`log4shell.rs` 60), so the server task need not get out of `starting`. `ExitReturns`, `QuestionAnswered` and
`StoppedIsListenedFor` have it as their hypothesis, and TLC finds each of them violated without it: while a download stalls, `exit` and
every question of the console wait for it.
`JavaFairness`, that a server
which was handed the stop command stops: without it
a Stop waits for ever, as the code means it to (`minecraft.rs` 363-369 has no
timeout). `StopCompletes` and `QuestionAnswered` have it as their hypothesis. `ExitReturns`
does not need it: there the grace period ends in a kill. The `FairSpec` of `PlayerListener` has every peer
that speaks the protocol send on or close in the end (`StreamEnds` is one way to go on): clients and pingers time out.
Of strangers it assumes nothing, and the code has no timeout there: one that sends nothing keeps all behind it out.

Why the bounds are enough. `timers`: two hours and the odd 3662 seconds make every split tick, and both
skip some of the later ones; one slot of channel is full after one send, so every send can be delayed.
`players`: a second peer is what waits behind the first. `sessions`: the third run is the
first that can archive a log over another of its name; one edit and the defaults are two generations of settings.

## Where the code and its documentation differ

Each has a run of its own that TLC must find violated; `PROJECT.json` quotes the lines.

| run | property | what happens |
|---|---|---|
| `two_servers` | `AtMostOneServer` | two Start requests in a row: the second reads the state before the first On is applied |
| `start_refused` | `StartRefusedOnlyIfRunning` | a restart stops the server, and its Start half is refused because the Off has not been applied |
| `left_behind` | `NoServerLeftBehind` | `exit` during a launch: the report of On fails, `start` returns, nobody owns the process |
| `circular_wait` | `NoCircularWait` | exit hangs: the server task joins the exit task, which joins a restart task that is blocked in a send to the server task's full channel |
| `first_unpatched` | `PatchedWhenLaunched` | the start that adds the Log4Shell patch to the settings launches the server with the arguments of a copy that was made before |
| `not_listening` | `StoppedIsListenedForAtOnce` | the first Off of the watch cell is no change: until a server has run, nobody listens |

Where a property holds only under a named hypothesis or excuse, what happens without it is also against the
documentation, without a run of its own. `exit` (`main.rs` 131) does not return while a download stalls (`StartFairness`). "Start the server
when a player joins" (`README.md` 11) is not kept after an error of bind or `accept` or a panic on the bytes of a stranger (`listener_task.rs` 53-58,
`protocol.rs` 93), for nothing begins another listener, nor behind a stranger that sends nothing.

Two more that no document speaks of: a Kill that reads a stale Off only cancels,
so that `exit` right after a start kills the server without a stop command (`minecraft.rs` 349-356,
219-232); and an Off that is seen late begins a listener next to a new server (300-303).

## The proofs

The constants are those of the modules, with no more assumed than
`RuntimeAssumption` (capacity and launches are positive), `RestartAssumption`,
`ShutdownAssumption`, `ServerAssumption` and `ConsoleAssumption` (their types). So
the theorems hold for every number of launches, capacity, number of lines, schedule and
configuration, and for every interleaving. Those of the other compositions are typed alike, and three say
more: `OneIncarnation`, that `Timers` follows the tasks of one launch; `LaunchAssumption`, that the releases have the
versions that the code compares with; and `ScriptAssumption` of `PlayerListener`, what it means to speak the protocol. It is the protocol's
and not the code's, and `players` has TLC evaluate it for scripts of every kind.

- `SswTypes`: `TypeCorrectness`, `Spec => []TypeOK`. By itself `TypeOK` is not
  inductive: a restart task that ticks must have a tick left (`TicksLeft`), and a
  report or a stop needs a server to be about (`HandlersFit`). `TypeInv` adds the two. There is
  one lemma per component.
- `SswSafety`: each theorem has its own strengthening over the few variables it needs.
  - `KillsOnlyAtExit` (`KillOnlyAtExit`) by `KillInv`: a grace period or a killed
    process implies the root token; the token, or a Kill in the channel, implies that the
    console has ended. Two lemmas say what `Send` and `Take` do to the Kills of the channel.
  - `JoinedLeavesNothing` (`JoinedIsClean`) by `JoinInv`: for each stage the exit
    task has passed, the child it joined there has ended; and an incarnation that
    has not been launched has no exit task.
  - `LastServerIsReaped` (`LastServerReaped`) by `ReapInv` on top of `JoinInv`: while the
    last server is owned and its exit task has not ended, the server task holds its handle,
    or is waiting for it.
  - `NoPhantomServer` (`NoPhantomOn`): inductive by itself, by what a report does to
    the last value of the queue.
  - `TimerFollows` (`TimerFollowsCount`) by `TimerInv`: while the shutdown task joins
    a disarmed timer and no new count has come, the last count was not zero; a
    shutdown task that has not begun holds no timer.
  - `SeenServerIsLoaded` (`SeenOnIsLoaded`) by `SeenInv`: while an On is the value last seen, the server
    task is in none of the states of a start that has been accepted but not reported, so nothing is loaded
    behind the copy.
- `SswLifecycle`: `KeepsItsPromise` (`Promised`), the step simulation. `ChargeInv` says who answers for the
  server in charge: its exit task has ended, or is in the handle map, or is being waited for. It is what makes a
  drained map stand for a settled server. `AwaitedServerIsTold` (`AwaitedIsTold`) by `ToldInv` on top of it: a pipe
  runs for as long as its server lives and nobody has cancelled it (`PipesOpen`), and whom a Stop is about to wait for
  is the server in charge (`OneInCharge`), so what it sent was sent to the right pipe.
- `SswAnswers`: `QuestionsAreAnsweredInTurn` (`OneAnswerPerQuestion`) by `AnswerInv`: at most one
  position of the channel is a question, none while an answer waits, and each only while the console waits
  for it. This is preserved by `Send` and `Take`, and the cardinality is drawn from it in the end.
- `TimersSafety`: `AnnouncementsAreTrue`, `RestartIsOnTime`, for every time that is set and any
  `MaxDelay`, by `OnSchedule`: between two ticks, the next tick and the time left add up to the time that
  was set and one split, for the first tick came at once; and delays only add.
  `PlayersAreNotDisturbed` (`OnlyIdleIsStopped`) and `EmptyServerIsStopped` (`IdleIsStopped`), for every
  interval of the pings and every idle time, by `IdleInv`. Its part `Asking` is the heart: a change of the
  players is reported by the next ping or the one after, whatever moment an answer dates from
  (`NotTold`); `HoldsTimer` ties the timer to the count that was read last, and `InTime` adds what the
  timer has left to how long the server has been empty.
  `TimeIsLeftOut` (`CountsAsRestartTask`), the step simulation: the ticks to come are those of the splits that are left
  (`TicksFrom`). A tick makes them one fewer (`OneTickLess`, for each split divides the one before it), and the end of a
  stage changes nothing (`StagesAreNotSeen`), also of one that is passed over. `Running` says that some time is left
  until the request, which only the last stage makes.
  `TimersTypeCorrect` (`TypeOK`) joins the types that the invariants of the two tasks need.
- `PlayersRefine`: `BytesAreLeftOut` (`ReadsAsListenerTask`), for any scripts: the step simulation, with
  one lemma per kind of step. `PlayersTypeCorrect` (`TypeOK`), for any bytes at all: no read is past the bytes, no
  shift past 63. `FieldsAreReadRight` (`FieldsAreRead`) by `PeersInv`: a field that is read begins where the one before
  ended, and the bits read of a number are those its bytes so far tell. `VarIntByte` (on `GroupsOfSeven`) is the step of it: a
  byte adds the next group of seven bits, and is the last of the number exactly when the code takes it for
  that. A number that has been read is therefore the length of the string after it, which is why the next field
  begins where it should. `LoginsAreToldApart` (`ClientsAreToldApart`) comes of `PeersInv`: the wish of the peer is the seventh
  field, which has not been read before that one ends (`HandshakeToCome`); from then on every outcome is a login, and before
  none is (`OutcomeOfRead`); and no number that a peer of the protocol sends panics (`NoPanic`).
- `SessionsSafety`: `NoLogIsLost` (`LogsAreKept`) by `LogInv`: what a rotation has done so far, and that
  every archive has the log that was named so. `ArchivesAreRewritten` (`ArchivesAreWhole`) by `TornIsNext`: an
  archive that is torn is named by the time of the log that is still there.
- `LaunchSafety`: `EditsSurvive`, `PatchesComeFirst`, `UnpatchedOnce`, for any releases and number of edits, by
  `LaunchInv`. Its part `NotYet` is the heart: whatever may still be launched without its patch (the file, the arguments
  of a start under way, the defaults of a file that is not there yet) has not been so far, and
  after such a launch the file has the patch or is a later edit. `SessionsTypeCorrect` (`TypeOK`), in
  `SessionsSafety`, joins the types of the launches (`LaunchTypes`) to those of the logs.

TLC evaluates `TypeOK` and the properties above in the runs; the strengthenings were
evaluated on the same instances before they were proved.

Only model-checked: what is temporal under fairness (`ExitReturns`, `QuestionAnswered`,
`StopCompletes`, `StoppedIsListenedFor`, `LoginStartsServer`, `EveryPeerIsServed`), which is beyond
what TLAPS proves here. Every invariant and every action property that a passing run checks is the statement of
a theorem.

## Not modelled

- The command line (a declarative structure), the release script and the workflows (not part
  of the program), the wording of messages, the parsing of TOML, JSON, properties and jar files.
- The contents of files: a download that was cut short, or whose status is an error, leaves a file that
  `exists()` accepts; a model of it would only repeat that.
- UTF-8 beyond the bytes that never occur in it, and the memory that a length asks for.
- The order of the Java arguments, and which of two settings of one property the JVM takes.
- Two instances of the program on one directory, or on one port.
- What `find_by_id` costs, and a manifest whose releases are not in order.
- Circular waits through the idle shutdown and the restart, in the liveness runs: `circular_wait` shows that
  there they do not hold.
