------------------------------ MODULE Commands ------------------------------
(***************************************************************************)
(* What one tick sends the timer, and in which order                       *)
(* (src/core/command.rs, and apply and send of src/lib.rs).                *)
(***************************************************************************)
EXTENDS Integers, Sequences

CONSTANTS
  None,       \* the absent value of an Option
  MAX,        \* the most commands one tick can carry
  SEGMENTS    \* the segments of the runner's splits file

Timer == INSTANCE LiveSplit

Command(name) == [name |-> name]

When(condition, commands) == IF condition THEN commands ELSE <<>>

\* The commands a decision asks for, in the order they must be sent: a start
\* puts the game time back to zero, so the time comes last.
Wanted(a) ==
  When(a.reset, <<Command("Reset")>>)
  \o When(a.start, <<Command("Start")>>)
  \o When(a.split,
       <<Command("Split")>> \o [i \in 1..a.skips |-> Command("SkipSplit")])
  \o When(a.time # None,
       <<Command("PauseGameTime"), [name |-> "SetGameTime", ms |-> a.time]>>)

\* A full list drops the commands that do not fit.
CommandsOf(a) ==
  IF Len(Wanted(a)) <= MAX THEN Wanted(a) ELSE SubSeq(Wanted(a), 1, MAX)

-----------------------------------------------------------------------------
(* The timer after the commands of one tick, sent in that order.  MCRunPath *)
(* checks Apply against a loop that sends them one by one.                  *)

One(condition) == IF condition THEN 1 ELSE 0

\* The commands that come before the time.
Led(a) ==
  One(a.reset) + One(a.start) + IF a.split THEN 1 + a.skips ELSE 0

\* The skips that fit.
Skipped(a) == IF Led(a) <= MAX THEN a.skips ELSE a.skips - (Led(a) - MAX)

Restarted(timer, a) ==
  LET reset == IF a.reset THEN Timer!Stopped ELSE timer
  IN  IF a.start THEN Timer!Start(reset) ELSE reset

Advanced(timer, a) ==
  IF a.split THEN Timer!SkipSplits(Timer!Split(timer), Skipped(a)) ELSE timer

\* A time is two commands: the pair may be cut in two.
Timed(timer, a) ==
  LET paused == IF a.time # None /\ Led(a) < MAX
                THEN Timer!PauseGameTime(timer)
                ELSE timer
  IN  IF a.time # None /\ Led(a) + 1 < MAX
      THEN Timer!SetGameTime(paused, a.time)
      ELSE paused

\* Mutant: the time is sent before the start.
ApplyTimeFirst(timer, a) == Advanced(Restarted(Timed(timer, a), a), a)

Apply(timer, a) == Timed(Advanced(Restarted(timer, a), a), a)

=============================================================================
