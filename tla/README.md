# Verification of the Hammerfest autosplitter

TLA+ models, model-checking runs and machine-checked proofs for the LiveSplit
autosplitter of this repository: a Rust program, compiled to WebAssembly, that
finds a Flash game in the memory of a player process, follows it, and drives
the LiveSplit timer. Paths below are relative to the root of the repository;
the code is under `src/`.

## 1. Inventory

| Part | Code | State it keeps | Operations | Modelled by |
| --- | --- | --- | --- | --- |
| policy | `src/core/policy.rs`, `src/core/end_sequence.rs` | level seen, route, origin, duration and game clock last seen, heartbeat, lost reads, finish | `tick` and what it calls: `no_game`, `forget`, `decide` | `Policy` |
| levels | `src/core/level.rs`, `skips_after` | the route: where the run is, what the last dimension left | `Route::enter`, `skips_after` | `Levels` |
| commands | `src/core/command.rs`, `apply` and `send` of `src/lib.rs` | a list of at most eight commands | `push`, `commands`, `send` | `Commands`, `LiveSplit` |
| pacing | `src/core/pacing.rs` | wait, next wait, heap at the last scan, loading window, is a game held | `may_scan`, `scan_failed`, `game_found`, `game_lost` | `Pacing` |
| search | `src/reader/hammerfest.rs` | the anchor: GameManager, proven, idle, regions seen, sweeps | `resolve_via_manager`, `resolve` | `Search` |
| what a player knows | `src/reader/pepper_flash.rs`, `ruffle.rs`, `heap.rs` | the binary: seed and proven layout, or the vtable of an object; addresses of two strings; is the manager not born | `attach`, `recognise_the_build`, `learn`, `find_string`, `objects_owning` | `Owners`; across loads of the SWF, `Search` |
| loop | `run` of `src/lib.rs` | the game held, the anchor, the pacing | one turn per tick | `Session`, `RunPath`, `Pacing`, `Search`, `Players` |
| players | `main` of `src/lib.rs`, `src/plugin.rs`, `src/runtime.rs` | rejected processes, the tabs listed, the player in use | probe and reject, choose, give way | `Players` |
| heaps | `Game::read` of `src/reader/hammerfest.rs`, `src/reader/avm1.rs`, `pepper_flash.rs`, `ruffle.rs`, `src/core/atom.rs` | the slot where each property was found last | `read`, `chrono`, `property`, `object` | `Reads`, on `GameHeap` |
| scans | `src/reader/scan.rs`, `scan_atoms` of `pepper_flash.rs`, `linear_memory.rs` | the range and block it is at, reads and bytes since the last tick | sweep, give ticks back, cut a memory in blocks | `Scans` |
| binaries | `src/reader/elf.rs`, `pe.rs` | none | parse headers | no |
| logs, harness, scripts | `src/diagnostics.rs`, `src/runtime_log.rs`, `src/harness`, `scripts` | none that a decision reads | traces, replays | no |

How they interact. `main` attaches a player and calls `run`, which returns when
the process closes. A turn of `run` is: while no game is held, follow the
anchor (`resolve_via_manager`), and if it gives nothing ask the pacing for a
search (`may_scan`, then `resolve`, which awaits); read the game if there is
one (`Game::read`); hand the read and the state of the timer to
`Policy::tick`; apply its orders to LiveSplit; and drop the game if the policy
says so. The policy lives across processes, while the anchor and the pacing start
again with each. Nothing tells the program what the game does: it
sees only memory, between two frames of which there may be several reads, and
between two reads several frames; what a dead game leaves there is as readable
as what a live one writes.

What is hard, and the reason for the properties (`PROJECT.json` lists each
hazard at its line):

* **identity**: two games are told apart only by counters that fall, and a
  dead game from a live one only by a counter that stands still;
* **dating**: the time published is the clock of the player less an origin
  worked out from whatever read came first, and the end is dated back from a
  value counted down by the game;
* **order**: splits follow reads that may be torn, lost or repeated, while the
  shortcut, the umbrellas and the dimensions make the level jump; the commands
  of a tick go to a timer that ignores some of them in some phases;
* **runs that end**: game over and the loss of the plugin follow every finished
  run, and must not erase it;
* **looking again**: waits, skipped sweeps and an anchor that is trusted must
  never add up to a program that no longer looks;
* **reading**: a state is some thirty reads of a process that goes on: tables move, slots change,
  the game is left, its memory is used again, the process closes, between any two of them;
* **learning**: what is known of a build outlives a process whose module moves and whose build may
  be another, and what cannot be seen must not be called absent;
* **sweeping**: a heap is read by blocks while the player writes and shrinks it, and
  what lies across two blocks must be seen in one of them.

## 2. Modules

`X` is the model, `XProps` its properties, `MCX` the instance TLC checks,
`X...Proofs` the proofs.

* **`Levels`**: `Route::enter` (three cases: a level the world shows only for a
  moment, a change of world, a move forward) and `skips_after`, as operators.
* **`Policy`**: one action per early return of `Policy::tick`: `NoGame` (nothing
  read), `GameOver`, `Stale` (heartbeat frozen) and `Play` (the rest of `tick`
  with `decide`). Constants are the thresholds of the code; `Reads` is the set
  of states `Game::read` may return. It is an *open* machine: any read, at any
  tick, with any state of the timer. `previous` and `dim` of the code decide
  nothing and are left out. `frozen` and `lost` saturate in the code at the
  largest u32 and here just above the threshold they are compared with.
* **`FinishLine`**: the abstract promise about the end of a run, three
  variables. A finished run is over, marked with its date, and no order
  touches it until another run is dated. `Policy` implements it (`PolicyProps!KeepsTheFinish`).
* **`Commands`**: `Actions::commands`, in its order, through a list of at most
  `MAX` entries that drops what does not fit (`CommandsOf`). `Apply` is the timer after them, without the list:
  `ApplyIsTheLoop` of `MCRunPath`, an assumption TLC evaluates, compares it with the loop of `send` on every small
  timer and every list, the ones that are cut included. **`LiveSplit`** is external: what
  each command does in each phase of the timer, as the code relies on it.
* **`Session`** composes `Policy`, `Commands` and `LiveSplit` with games that
  are launched, show their black screen, play, pause, take the elevator, run the
  cinematic, lose, or are quit; one frame is one unit of every clock. The
  loop holds the live object, or the object of a game that was quit, or nothing;
  any read may fail. A process may close and another open, whose clock starts
  at zero, and the runner may reset the timer by hand. Frames and ticks
  interleave freely.
* **`RunPath`** composes the same three with one run through the levels: moves,
  warps, the shortcut, dimensions and the way back, during which the memory
  shows another level for a moment (`torn`). A read sees whatever is there, or is
  lost.
* **`Pacing`**: the methods of `Pacing`, composed with the turns of the loop
  that call them (`ReadHeld`, `FastPath`, `Refuse`, `ScanFinds`, `ScanFails`). Its specification is named
  `PacingSpec`, so that `LoopProofs` may take it beside `Players`.
* **`Search`**: the anchor and the search. A *load* of the SWF stands for its
  strings, its GameManager and its mode, born together in one region. The
  player grows and shrinks regions, loads and leaves the SWF, and uses the
  memory of dead loads again, or not. `Skip`, `Idle` and `SweepStarts` are the
  ways `resolve` may go before its first await; `SweepEnds` has the ways it
  returns. Between the two the player moves. `Caches`, `Proven` and
  `ReusesMemory` tell Pepper Flash, an unrecognised build and Ruffle apart. `Managers`,
  `Games` are what `is_the_game_manager` and `validate` accept. `manager_idle` of a
  proven anchor grows in the code, but nothing reads it: here it stands still.
* **`Players`**: the loop of `main` and the end of `run`, among processes of
  EternalTwin, programs and tabs that come and go between any two steps.
  `ReadsThePlugin`, `ReadsAProgram`, `WaitsForTabs` and `LooksAtTheTabs` are the four ways a turn
  of `main` goes; `Closed` and `GivesWay` the two ways `run` returns. All that happens within one
  player is `manager`: is a game held, or a GameManager known. `replaced` tells a tab whose linear
  memory is no longer the one that was listed, `(pid, base)` in the code.

* **`Scans`**: one sweep of a list of ranges. The four loops of `scan.rs` and the one of
  `scan_atoms` have the same body: read a block (`ReadBlock`), report what it holds (`Stops` if
  that is enough), then leave the range (`Leaves`) or go on with a block that starts in
  the last words of this one (`GoesOn`), now or at the next tick (`GivesTheTickBack`). Addresses
  are counted in words, and what is looked for takes `LENGTH` of them: a value, a pointer and
  the length after it, a string. The variable `budget` is the feature `scan-budget`:
  both builds are checked. Between two blocks the player writes, erases and shrinks ranges.
  `BlocksOf` is `blocks` of `linear_memory.rs`. `scan_bytes` counts what it collects towards its
  limit; here a sweep that meets something may stop or not.

* **`GameHeap`** is external: the objects of one game as the reader meets them, a GameMode, its
  Chrono and the worlds it shows, each with a table of properties. A frame writes in two steps, as the
  game does (`docs/reverse-engineering.md`): first the clock (`Tick`, `gameChrono.update`), then the
  rest (`Count`), with the moves of the player anywhere in between. The duration and the cinematic
  are written together there, since no property compares the two. What a script does
  (unlock, elevator, pause, resume) is one step between two frames. A table moves to another
  address, where its keys may have other slots (`Moves`), is built again where it is (`Rehashed`), or,
  in Ruffle, closes up when an entry is removed, which leaves a copy of the last one past the end
  (`Shifted`, `docs/concepts/ruffle-heap.md`). The game is left, its memory is used again, its process closes.
  **`Reads`** is one reading on it, `Game::chrono` then `Game::read`, one property after the other
  (`Order`). A property is two steps, between which the game goes on, and the two players cut it
  elsewhere. Pepper Flash finds the slot of the key in the table of the object (`Find`: the one remembered, if
  it holds the key still, or the first that does), and then reads its value (`Value`). Ruffle keeps the
  object, and first reads where its entries are and how many (`base`, `length`); then it reads the entry,
  key and value at once, among those there *were*: the slot remembered and the search of the whole are both
  bounded by that `length`, whatever the map has become. An object is then followed (`Follow`). `Lost` is a
  read of a process that has closed: a required property ends the reading, an optional one takes its default
  (`Take`). What the reader got is compared with what was true when it began, and since (`before`, `shown`,
  `locks`, `remainings`); `torn` says that a Pepper Flash table was built again in place between a key
  and its value, which nothing in the code notices.
* **`Owners`**: `objects_owning` of both players, from one process to the next. A build is where its
  vtable is from the start of its module (`Offset`), and the module is elsewhere in each process.
  `Attach` keeps what the code keeps (`KnownAtAttach`). The sweeps of Pepper Flash are `headers`
  (the vtable that is proven, or the one of the seed), then `content_first` and `content` (the bytes of
  the key, and what points at them), those of Ruffle `entries`, and both end with `owners`. A sweep
  is two steps: what came since it began may be met or missed (`Outcomes`). `crowded` is
  the limit of eight places of `string_by_content`. One variable, `player`, tells Pepper Flash,
  Ruffle desktop, and Ruffle in a browser, whose build is recognised first.

Definitions marked *Mutant* are plausible bugs of the definition under them, kept
to show that each property can fail; no run uses them.

Assumptions on what is outside the code, all visible in the modules:

* `Session`: a game that was found is never followed by the read of an older
  one (`anchor`); a pause does not fit whole between two reads around the elevator;
  a live game answers fewer than `STALE_TICKS` reads in one frame (`MAX_STALL`);
  the black screen is shorter than the slack on the game clock
  (`BlackAssumption`: 0.55 s and 2 s); `Session` takes the timer state `Paused` as the
  running one, as `timer_state` of `src/lib.rs` does.
* `RunPath`: a level that a frame overwrites as it is read (`torn`) is seen by one read,
  and the player stays on a level long enough for the two reads that confirm it.
* `Session`: what was never read is no state of the game, and `None` is no object (`NoSightAssumption`,
  `NoModeAssumption`): both only keep the absent value of an `Option` apart from what it may hold.
* `Session` and `RunPath`: the list of commands has room for `WARP_REACH + 4` of them, which is what
  `command.rs:27-30` counts: one reset, one start, one split, the two clock commands, and one skip less than
  the widest warp.
* `Search` (`SearchAssumption`): there is memory to look at, so a region, that may hold something.
* `Players`: a process of EternalTwin has the plugin from its start or never, its number is not used
  again before its end was noticed, and a probe that is tried succeeds. A look at the tabs,
  which gives ticks back, is one step.
* `Scans` (`ScansAssumption`): blocks and overlaps are whole words; each range is longer than
  the overlap of 32 bytes, since the ranges of a process are made of pages; what is looked for has at
  most one word more than the overlap.
* `Reads`: what one read of the memory returns it returns whole, and a float is read with its atom.
  Memory that is given up during a reading is not used again before its end, unless the game was left.
  The table of a Pepper Flash GameMode does not move once it was found: the code keeps its address,
  and would go on reading the old one. The walk over the keys of a table is one step.
* `Reads` (`NothingAssumption`): the absent value of an `Option` is no property, no object, no value a property
  may have, and no state.
* `Owners`: builds have vtables at distinct places, and a build is recognised by the methods in them, or
  by the words of a browser build, with no mistake. A process loads the SWF once, and the strings of the
  two keys are born together (`Search` has several loads). The region `rest` alone is larger than `FIRST_LOOK`.
  The entry of a key that Ruffle looks for does not move during a sweep: entries move when their map grows
  (`ruffle.rs:239`), but the fields of the GameManager are all set in its constructor
  (`docs/reverse-engineering.md:365`).
* No i64 or u32 reaches its end: times are milliseconds of one process.

## 3. Runs

Twelve runs; times are for two workers.

| Run | Module, cfg | Question | Bounds |
| --- | --- | --- | --- |
| `policy` | `MCPolicy` | does the policy alone keep its promises, whatever it reads? | three levels in two worlds, values on both sides of each threshold; 40 s |
| `session` | `MCSession` | is the time the time of the game, and the run its run, across processes and whatever the runner does? | two games, one process or two, a runner who resets or rests in the menu, four frames in the first process and three in the second, a cinematic of three; 2 min |
| `run_path` | `MCRunPath` | do segments stay in step with the player, and is the player found for good? | eight levels, a warp of three, a shortcut longer than a warp, two doors; 2 min |
| `pacing` | `MCPacing` | are waits bounded, spaced, and never for ever? | waits 2 to 6, heaps 0 to 7; 1 s |
| `search` | `MCSearch` | is a running game found? | two regions, two loads; 2 min |
| `players` | `MCPlayers` | is the right player read? | two numbers, two programs, two tabs, two ticks between looks; 40 s |
| `doc_blind` | `MCSearch` | a sentence the search contradicts | one region, two loads |
| `scans` | `MCScans` | does a sweep meet all that stays, share the tick, and end? | a range of ten words and two of three, blocks and overlaps of a few words, both builds; 15 s |
| `reads` | `MCReads` | is a state that is read one the game was in, or none? | one reading of either player, two frames of two writes each, one table built again, two frames and a half of changes before its end; 1 min |
| `owners` | `MCOwners` | is the build learned, and the game found, whatever came before? | two processes, two builds, two addresses, any seed, two regions; 20 s |
| `doc_edge` | `MCScans`, `DocEdge` | a comment on the overlap that a linear memory contradicts | three blocks of a linear memory |
| `doc_rest` | `MCSession`, `DocRest` | a comment of the policy that a rest in the menu contradicts | as `session`, one process, no runner, a clock that stops at five |

Why the bounds are enough: thresholds matter only by which side a value falls on,
so each is the smallest that leaves both sides and one step between
(`STALE_TICKS` = `LOST_BEFORE_RESET` = 2 make a first, a second and a later
tick). Two games are the least that can be confused, and what the policy keeps of
a game before the last one is nothing: each new game overwrites the counters it
compares. The clock ends soon after a second game can have been launched,
paused, finished and quit. A third region or load in `Search` adds no case:
`resolve` distinguishes fresh and old regions, the load that runs and one that
does not. In `Players`, two of each kind are the least that has an order, a list of which
a part is left, and a number to confuse with another. In `Scans`, a range of several
blocks whose last is shorter, and ranges of one block and its tail, are the ways a range may end;
one place holds what is looked for, since each is met or missed by itself
(`ScansProofs` is for any number). In `Session` the cinematic lasts longer than the
correction that is trusted, so that an end noticed late falls on either side of it. In `RunPath`, the shortcut
only needs to be longer than a warp, and the warp longer than a level.
In `Reads`, the changes of the memory under one reading are counted in half frames, and any other
change as two: the two frames of the game, which a date late by more than the half of one needs; a table that moves
and a frame written around it; a game left and its memory used again. The slots remembered are right at first, and wrong once the table is built again: a table built again
is all that can make them so, and each property is read by itself.
In `Owners`, a second process is all that what was learned can be wrong for.

What the properties say, besides the type invariants:

* `OneStory`: no tick splits what it resets or starts; skips follow a split and
  are fewer than a warp flies over. `DeadGamesAreForgotten`: while a heartbeat is
  frozen, nothing of that game is left to act from. `OneResetPerLoss`.
  `KeepsTheFinish` and `FinishIsTheLastTime`: the end of a run is not undone by game
  over, by the loss of the player, or by a later read.
* `StartsAreTimedFromTheirGame`, `TimeIsNeverAhead`, `OneOriginPerGame`: a timer that is started is timed
  from the game it is started for, the origin is never before the level 0 of its game, and never moves.
  The first is a promise of a step, and has two exceptions. A timer that is `Ended` is restarted whatever
  the clocks say, so a splits file that is too short may bring a start that nobody timed. And a game that was
  dated, then quit before its level was read twice, leaves the game clock of the game *before* it behind:
  against that clock a third game seems to have rewound, and the timer starts for it, timed from the second
  (`clockOf` names the game the clock is of, and `clockOf = originOf` excludes this). Two games
  never show it; the proof does.
  `FinishIsTheElevator`: the date of the end is the one of the elevator, whichever
  read notices it. `FinishedUntilAnotherGame`. `TheRunFollowsTheGame`: the segments of
  an unfinished run are not gone on with in the next game, except one that follows a game declared dead while the
  player rested in the menu (`rested`), which is `doc_rest`. `TimerShowsTheTime`:
  commands are sent in an order in which the timer takes them.
* `SegmentsInStep` and `NeverAhead`: the timer is on the segment the player's moves
  lead to, and never past it. A splits file with fewer segments than the run closes levels ends the timer, or
  keeps it on its last segment, which no skip leaves, so the first asks for `due < SEGMENTS`; the eleven segments
  of `run_path` are more than its run closes, and the condition never excludes a state there.
  `NoCommandIsDropped`: no move, a change of world
  included, asks for more skips than the list of eight has room for.
  `FindsThePlayer`: no torn read and
  no dimension leaves the route behind for good.
* `SilenceIsBounded`, `LossScansAtOnce`, `HoldsWhatTheLoopHolds`, `KeepsLooking`.
  `ScansAreSpaced`: a scan after a failure waits for as many ticks as the rule grants that failure, which grow
  from one failure to the next (`Buys`: 20, 40, 60; `bought` remembers the last), and shorter ones in a loading
  window.
* `FoundWithinAFullSweep`: in memory that no longer changes, a running game is
  missed by at most the sweep under way, one sweep of what had changed, and the
  attempts skipped until the whole heap is read. `FindsTheGame`: a game that goes
  on running is found, and found again whenever it is lost, once the heap is quiet.
* `ThePluginIsANewcomer`: the list of rejected processes never holds the plugin, whatever
  started, ended and started again while another player was read. `TheOrderIsKept`: the player attached
  comes before all that run with it. `TheGameIsRead`: once players neither come nor go,
  the only one that plays is read for good; another tab with Ruffle, a list that is stale, a tab
  that built another memory, do not hide it.

* `WhatStaysIsMet`: what stays in place during a sweep is met, wherever the edges of the
  blocks fall and whatever changes elsewhere. `TheTickIsShared`: neither a large range nor many small ones
  keep the tick; the tail of a range is a read that no count is compared with, so there may be two
  reads for one counted. `SweepEnds`.
* `ATrueStateOrNone`: each part of a state that is returned was true at some moment of its reading, what remains
  of the cinematic included unless the player closed or the memory of the game was used again, and the
  level was shown with its own world. `NoneOnlyWhenItIsGone`: no table that moves and no slot that changes
  makes a reading fail. `TornClocksLag`: two counters read frames apart give dates that are early, by no more than the
  frames of the reading, and late by no more than the one frame that is half written when its clock is read: the
  order of the reads decides on which side they err. None of the three speaks of a reading that is `torn`:
  `AnOpenGameIsReadTruly` tells what becomes of it (see below).
* `LearnsTheBuild`: what is kept of a build is right in its next process. `NotBornIsSo`: a search that
  gives the mode up was given nothing that held its key. `FoundWhateverTheBuild`: a wrong seed, vtables not yet filled
  in, another process before, cost sweeps and hide nothing, as long as the strings can be told (`Legible`).

### Fairness

* `FairPacingSpec` of `Pacing`: the loop turns (`next_tick` always comes), and a process
  that stays open is the one that turns. `KeepsLooking` needs no more.
* `FairPathSpec` of `RunPath`: the loop reads, and the level shown on the way back from a
  dimension settles. Whether reads go on being lost is the
  antecedent of `FindsThePlayer`, not an assumption.
* `LoopFairness` of `Search`: the loop turns, a sweep ends, the policy drops what
  does not move (`Stale`), and a search is allowed again and again while no game
  is held, which is `KeepsLooking`. Strong fairness for the search, since a turn
  of the fast path in between may disable it. `FairSpec` adds that the memory of a
  dead load is used again some day: without it a dead game is found for ever (see below).
  `FindsTheGame` asks for a heap whose regions stop changing: `FULL_SWEEP` counts only
  the attempts that saw no change, so a heap in which some region changes before
  every attempt never brings the whole sweep.
* `FairSpec` of `Players`: the loop turns, and a search that can find its GameManager again and
  again does: strong, since a tab may give way before a search of it succeeds, and come back
  at the next look. That a search ends well is `FindsTheGame`.

* `FairSpec` of `Scans`: the runtime polls the future at every tick, so the sweep goes on.

* `FairSpec` of `Owners`: a sweep ends, and while nothing is found the whole memory is looked at again and
  again (`FULL_SWEEP`, see `Search`): strong, since the searches of what changed come in between.

### Disagreements between the documents and the code

Shown by a run:

* `doc_blind`: an anchor whose memory cannot be read is neither dropped nor doubted.

* `doc_edge`: the blocks of a linear memory follow each other, and the overlap is inside a
  block only: two words on either side of an edge are never seen together.

* `doc_rest`: a player who rests in the menu leaves an object that is read until it is declared dead, and
  with it goes the clock that would show that another game has begun: the timer goes on with the
  old run, which `policy.rs:333-335` says cannot be.

Stated as properties, which TLC refutes on the instance of the run named here, but which are not runs of their own:

* `TheTimeIsOfTheGameRead` (`doc_rest`): "The *gametime* channel carries the correct time" (`README.md:22`),
  but a next game read late enough shows no counter that falls, and is timed from the origin of the game before it.
* `NoFieldIsADefault` (`reads`): "No field is filled with a default value" (`docs/specs/memory-reader.md:105-106`),
  but `fl_lock`, `currentDim`, `fl_gameOver` and `endModeTimer` are (`hammerfest.rs:490-522`): of a player that
  closes while it is read, the end of the game may be missing from a state that is returned.
* `AnOpenGameIsReadTruly` (`reads`): the reader "never produces a `State` that is partly true"
  (`docs/specs/memory-reader.md:37-39`), but a Pepper Flash table that is built again in place between the read of a
  key and the read of its value gives the value of another key.

Met while modelling, and not run:

* "So the last split is dated exactly too" (`docs/internals/the-clocks.md:113`): the date of the end
  is exact, but the split is sent before the time of the same tick (`command.rs:76-84`), so
  LiveSplit records the last segment with the time of the tick before.
* What lies in the overlap of two blocks is met twice, and in the tail of a range up to three times,
  so the limit of `scan_bytes` counts some places more than once.
* `policy.rs:398` orders a start for a timer in the state `Unknown`, when the game
  clock falls; the comment of the state (`policy.rs:71-72`) promises to do nothing. The same
  branch starts, without a reset, a timer that is `Ended`, when the confirmed level is not
  the first: LiveSplit takes no such start (`policy.rs:389`).
* The game clock survives `no_game`, so a game launched after one that was quit may start
  the timer in its black screen, where a first game does not. The published time stays
  absent until the unlock.
* A live game that answers `STALE_TICKS` reads in one frame is forgotten with its
  origin, and dated again from its own counters: its time jumps by what it was
  locked. `docs/internals/the-clocks.md:85-98` names one case in which the origin is
  rebuilt, and this is not that one. `MAX_STALL` excludes it from `session`.
* `pacing.rs:55` asks for strictly more than 4 MiB, where
  `docs/specs/resolution-pacing.md` says "4 MiB or more". The loading window is counted
  by calls of `may_scan`, which a held game stops: it does not close "by itself".
* `docs/internals/stale-memory.md:46` says that after 90 frozen ticks "the object is declared dead
  and the search starts again". While the dead pair stays readable the fast path comes first, finds the
  same game at every tick, and no search starts, even with another game running.
* `README.md:28-30` says EternalTwin is read first when several players run; a player that
  was attached first keeps `run` until it closes, and a browser tab with Ruffle keeps it even
  without a game, when no other tab runs Ruffle. `TheGameIsRead` asks for closed tabs for that reason.
* "The PPAPI process is always one of them [the newcomers]" (`plugin.rs:115`) rests on the
  assumption of `Players`: while `run` holds the loop nobody lists the processes, and a number that is
  used again meanwhile stays rejected.
* When the tab that is read closes, the rest of the list is dropped (`lib.rs:173`), and the
  message counts those tabs as "held no game", though they may not have been tried.
* "that one pass, lost once" (`pepper_flash.rs:145-146`): a wrong seed costs its pass at every search,
  until a game proves a layout.
* "Did the last search [...] prove that key absent?" (`heap.rs:164-168`): only from the ranges that were
  swept, which are those that changed, and not when another build was proven. `NotBornIsSo` says
  what is left; the price is an attempt, since the whole memory is swept again.
* When another build is proven than the one that runs, nothing is found until the program starts again
  (`Legible` excludes it): a proven layout closes the fallback, and no failure reopens it.
* The regions seen are remembered also when nothing is swept (an idle anchor), so what
  changed meanwhile waits for the whole sweep. `MANAGER_IDLE_LIMIT` counts only the
  attempts that are not skipped: "a good half minute" (`hammerfest.rs:148`) is the least.
  A game is looked for while the policy does not tick: `resolve` awaits inside the turn.

## 4. Proofs

Checked by TLAPS for every value of the constants that satisfies the named
assumptions (`WorldAssumption`, `NoneAssumption`, `WarpReachAssumption`, `ThresholdAssumption`,
`ReadsAssumption`, `NoSightAssumption`, `NoModeAssumption`, `SessionAssumption`, `BlackAssumption`,
`PathAssumption`, `SearchAssumption`, `PacingAssumption`, `PlayersAssumption`,
`ScansAssumption`, `OwnersAssumption`, `HeapAssumption`, `NothingAssumption`). Every inductive invariant was
first checked by TLC on the instance of its run.

* **`PolicyProofs`** begins with lemmas on `Enter`, `SkipsAfter` and on one tick, for any state of the game: those
  that `SessionProofs` and `RunPathProofs` rest on, where the policy runs in a larger system.
  **`TypeCorrect`**: `Spec => []TypeOK`.
  **`Safety`**: `OneStory`, `DeadGamesAreForgotten` and
  `FinishIsTheLastTime`. Each is inductive once the types are known (`TypeCorrect`):
  every early return of `tick` either publishes nothing, or leaves `frozen` below its
  threshold (`Alive`). What is not obvious is stated apart: a tick that splits does not
  reset (`SplitsAlone`, from the order of the branches of `decide`), and a tick that goes to
  the end publishes the date it keeps (`PlayPublishesTheFinish`).
  `DeadGamesTeachNothing` and `FinishIsLast` state two of the three by themselves.
  **`ResetsOnce`**: the counter of lost reads passes its threshold once per loss.
  **`Refines`**: every step of `Policy` is a step or a stutter of
  `FinishLine` under the mapping of `PolicyProps`.
* **`SessionProofs`**: all seven properties of a session, for any number of games, processes and frames. Three of
  them need only `SInv`. Its parts: the object held is the one the anchor leads to, and nothing was learned of a
  game that was not found yet (`Anchored`); the clocks of a game agree (`Clocks`: the Chrono is ahead of duration by
  the black screen at most); what the policy has seen of an object is not ahead of it (`Learned`); and the
  clock a restart compares with is near the last duration (`NearDuration`), which is where
  the black screen must be shorter than the slack.
  `TimeIsNeverAheadAlways`, `TimerShowsTheTimeAlways`, and `StartsAreTimed`: a clock falls by more than the slack
  only if duration fell, or the clock of the player, and both date the game (`RewindsAreDated`).
  The other four, `DatedOnce`, `StaysFinished`, `TheFinishIsTheElevator`, `RunsFollowTheirGame`, need `FInv`: a
  game whose origin was forgotten is not dated again until it is over or the search was led past it (`Settled`),
  and until the elevator is noticed `remaining` falls with each frame (`Ending`). They are stated under
  `NeverTakenForDead` (`MAX_STALL < STALE_TICKS`): without it a live game that answers ninety reads in one frame is
  forgotten and dated again, as said above. What the clock of a dead game taught is followed there until that
  game is declared dead (`rested`), and no further.
* **`RunPathProofs`**: `TheTimerIsNeverAhead`, `TheSplitsFollowTheLevels`, `NothingIsDropped`, for any
  warp reach, shortcut, number of doors and of segments. `SegmentsInStep` alone is not inductive: it says nothing
  of what is between the player and the last level confirmed. `PInv` does. `Near` bounds how far the player may be
  from there (a warp, the shortcut from the first level, or the way through a door), `Shown` says what the
  memory may show that is not where the player is, and `Counted` then counts: the segments due are those the timer
  has passed, those the next confirmed level will close (`Pending`), and the end, if it is not noticed (`Unended`).
  The timer is never ahead because neither count is negative.
* **`SearchProofs`**: `SearchTypeCorrect` and `TheGameIsFoundWithinAFullSweep`, for any regions and loads, and for
  each kind of player (`Caches`, `Proven`, `ReusesMemory`, `Unmaps`). `Counted` says what the attempts that missed
  have left: a sweep that was under way when the game appeared misses once; a sweep of what had changed once more,
  and leaves nothing changed; from there each attempt that is skipped moves `sweeps` on, until the whole heap is
  read, and that sweep does not miss (`Settled`: the load that runs is intact, in memory that is mapped).
* **`LoopProofs`**, on the two choices of the main loop. Of the pacing: `PacingIsSafe` (with `PacingTypeCorrect` and
  `AgreesWithTheLoop`, two of its parts), `FailuresAreSpaced`, `LossesScanAtOnce`. `LadderIsKept` says that the
  wait of the code and the one of the
  rule grow together, from one failure to the next (`LadderOK`). The invariant relates the debt of the last
  failure, the turns refused since, and the wait
  that is left (`DebtIsCovered`), and the flag of the pacing to what the loop holds:
  without the second, a loss might put a wait back that was owed.
  Of the players: `TypeCorrect`, `NeverSetAside`, `OrderIsKept`. What is set aside is a helper, or ended without
  the loop having noticed (`SetAside`), and no number of the second kind starts again
  before a probe forgets it. The order rests on it: the loop goes on to the programs when no process
  *it still probes* has the plugin, and only `SetAside` says that none of the others has.

* **`ScansProofs`**: `TypeCorrect` and `NothingKeptIsMissed`. The invariant (`Covered`) says that
  what stays and starts before the next block of its range was met; a range that is left has no such place after
  (`Passed`). A block may be left behind because what does not lie whole in it starts in
  the words it shares with the next, which is where `LENGTH <= OVERLAP + 1` is needed.

  **`TicksAreShared`**: the counts of a tick may pass their limit only by the last words of a range, and those
  are not two in a row, since the first block of a range is not its last words (`FirstIsNoTail`); `Counted`
  says which of the two was read last, by where the next block is.
* **`OwnersProofs`**: `TypeCorrect`, `LearnsTheBuildAlways` and `NotBornIsSoAlways`, for any builds, addresses
  and number of processes. The invariant says that a sweep is under way in a process whose module is
  where the player thinks (`InItsProcess`), and that what was there when a sweep began is there until it ends
  (`StillThere`): a sweep of headers that misses it had another vtable, so another build was proven.
* **`ReadsProofs`**: `OnlyWhatIsGoneIsNotRead`, `EveryStateReadWasTrue` and `EveryClockReadLags`, for either player,
  games and cinematics of any length, any number of tables built again or closed up, and any number of changes under
  one reading, with no hypothesis on either player. None of the three is inductive, and all follow from
  `ReadingInvariant`: `torn \/ RInv` always holds. Once a Pepper Flash table was built again under a key, nothing is
  claimed of that reading (`TornStays`). `RInv` has four parts:
  * `TInv`, the shapes. Every table of an object, the one it has and those it had, holds its properties and no
    other (`TableOf`), with its keys unless its memory is used again; the table the reader is at is one of the object
    it asks (`Searching`). With what makes a reading end without a state (`NoneIsGone`) this gives
    `NoneOnlyWhenItIsGone`: a slot remembered is either right or looked for again, the entries of Ruffle never
    close up below a key that is asked for, and what is not found has no keys.
  * `HeapClocks`, the game: while it plays, the time shown is the unlock plus the duration, and the end is what the
    cinematic has left to run, but for the one frame that is half written (`Ahead`); a Chrono that is stopped
    and starts again does not gain.
  * `Seen`, the reading: each table the reader reads or is about to read (`Sources`), the old one of a table that
    moved included, holds what was true since the reading began (`ModeSeen`, `ChronoSeen`), and agrees with the clock
    that was read before it (`Timely`, `Ending`); what was got is what such a table held.
    What a Ruffle table has left past its end was the last entry when it closed up, and is true of that moment
    (`LeftSeen`): a reader that knows an old length may take it. A table left behind stops
    and the clocks go on: that is why the error is on one side, and why the order of the reads matters
    (`ClocksRead` comes first).
  * `Hopeless`: a reading begun in a memory that is already used again meets, before its end, a table that is
  none or a
    level there is not (`Doomed`), so it returns no state; this is where the reader checks the world and the level.

  The proof has two halves: what a move of the memory leaves true (`HeapStep`, one lemma per move of the game, then
  `GameMovesInv`), and what a step of the reader leaves true. Each step of the reader either stops, finds a
  slot, follows
  an object, or takes a value of a source (`ValueTakes`, `FindTakes`, `LostTakes`, `FollowTakes`), whichever player is
  read; then there is one lemma per property of `Order`, for a table and for what is left past its end (`LeftTakes`).

Only model-checked: liveness everywhere, `FindsThePlayer`, `KeepsLooking`,
`FindsTheGame`, `TheGameIsRead`, `SweepEnds`, `FoundWhateverTheBuild` (the provers do no fairness and no ENABLED).
That `Apply` is the loop over the list of commands is model-checked too: a fold over a list of any length
would be an induction over data. No module uses a recursive
operator, and nothing is claimed for every input of a recursive definition.

## 5. Not modelled

* Decoding of bytes (tags of an atom, units of a string, hash of a key, offsets that `derive_so_tbl` and
  `table_base` try, `validate`) and parsing of binaries (`elf.rs`, `pe.rs`): pure functions at fixed offsets,
  which the replays and unit tests of the repository check against captured memory. What they decide (is it
  an object, of which type, is it a game) is what the models have.
* `Binary::recognize` (feature `known-flash`, for developers) and the order of the ranges under Rosetta.
* `previous` and `dim` of a state: the policy does nothing with them.
* In `Players`, failures to attach to a process that exists, and the ticks the policy is given
  between players (`NoGame` of `Policy`, `ReadNothing` of `Session`).
* Logs, diagnostics, the harness and the scripts: no decision of the product reads them.

## 6. Plan

Done, in this order: `Levels`, `Policy`, `Commands`, `LiveSplit`, `Session`, `RunPath`,
`Pacing`, `Search`, `Players`, `Scans`, `GameHeap`, `Reads`, `Owners`. Next:

1. `Search` against an abstract finder that holds the running game or none.
2. `table_base` of `avm1.rs` and `validate` as algorithms over small tables.
