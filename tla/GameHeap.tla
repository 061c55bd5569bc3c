------------------------------ MODULE GameHeap ------------------------------
(***************************************************************************)
(* The objects of one game in the memory of its player, as the reader      *)
(* meets them: a GameMode, its Chrono, and the worlds it shows in turn.    *)
(* External: docs/concepts/avm1-objects.md, docs/concepts/ruffle-heap.md,  *)
(* docs/reverse-engineering.md.                                            *)
(*                                                                         *)
(* An object keeps its properties in a table.  A table is rebuilt, in     *)
(* place or at another address; the old one then stays as it was.  In      *)
(* Pepper Flash its keys get other slots.  In Ruffle the properties are    *)
(* entries in a row, which moves as it is when it grows, and which closes  *)
(* up when an entry is removed.  A frame of the game writes its clock      *)
(* first and the rest later, and is one unit of every clock.               *)
(***************************************************************************)
EXTENDS Integers, Sequences, FiniteSets

CONSTANTS
  None,        \* nothing: not yet, or not there
  FULL,        \* the frames of the cinematic
  MAX_FRAMES,  \* bound: the frameTimer stops there
  MAX_REBUILDS \* bound: tables built again

Object == {"mode", "chrono", "main", "dimension"}
World == {"main", "dimension"}
Id == {0, 1}
Junk == 256

ASSUME HeapAssumption ==
  FULL \in Nat \ {0} /\ MAX_FRAMES \in Nat /\ MAX_REBUILDS \in Nat

VARIABLES
  open,      \* can the memory of the player be read?
  game,      \* "runs", "left", or "recycled": its memory is used again
  table,     \* where each object keeps its properties
  cell,      \* what each table ever used holds: its keys, the slot of the
             \* first, their values, and what is left after its last entry
  ticked,    \* is a frame half written: its clock, and not yet the rest?
  rebuilds,  \* how many tables were built again
  started,   \* the frame of the unlock, for the properties
  ended      \* the frame of the elevator, for the properties

heap == <<open, game, table, cell, ticked, rebuilds, started, ended>>

\* The properties of an object that the reader asks for, in the order of
\* their slots.
KeysOf(o) ==
  CASE o = "mode" -> <<"gameChrono", "world", "fl_lock", "duration",
                       "fl_gameOver", "endModeTimer">>
    [] o = "chrono" -> <<"frameTimer", "fl_stop", "haltedTimer", "gameTimer">>
    [] o \in World -> <<"setName", "currentId">>

\* A value, and what it is: a float or an integer is a number.
Number(n) == [type |-> "number", is |-> n]
Bool(b) == [type |-> "bool", is |-> b]
String(s) == [type |-> "string", is |-> s]
Reference(o) == [type |-> "object", is |-> o]

Table(o, values) ==
  [keys |-> KeysOf(o), first |-> 1, value |-> values, left |-> <<>>]

NewWorld(o, set) ==
  Table(o, [setName |-> String(set), currentId |-> Number(0)])

\* A game whose objects are just built: its black screen.  A property that
\* is not read comes first.
HeapInit ==
  /\ open = TRUE /\ game = "runs"
  /\ table = [mode |-> 1, chrono |-> 2, main |-> 3, dimension |-> 4]
  /\ cell = <<Table("mode", [gameChrono |-> Reference("chrono"),
                             world |-> Reference("main"),
                             fl_lock |-> Bool(TRUE), duration |-> Number(0),
                             fl_gameOver |-> Bool(FALSE),
                             endModeTimer |-> Number(0)]),
              Table("chrono", [frameTimer |-> Number(0),
                               fl_stop |-> Bool(FALSE),
                               haltedTimer |-> Number(0),
                               gameTimer |-> Number(0)]),
              NewWorld("main", "xml_adventure"),
              NewWorld("dimension", "xml_deepnight")>>
  /\ ticked = FALSE /\ rebuilds = 0
  /\ started = None /\ ended = None

-----------------------------------------------------------------------------
(* The game *)

\* What an object holds now, and under a key.
Values(o) == cell[table[o]].value
Now(o, key) == Values(o)[key].is
Clock == Now("chrono", "frameTimer")
Locked == Now("mode", "fl_lock")
Stopped == Now("chrono", "fl_stop")
Remaining == Now("mode", "endModeTimer")

Written(o, key, value) == [cell EXCEPT ![table[o]].value[key] = value]

\* What a step writes in the mode and in its Chrono.
Writes(mode, chrono) ==
  /\ ~ Now("mode", "fl_gameOver") \/ ticked
  /\ cell' = [cell EXCEPT ![table["mode"]].value = mode,
                          ![table["chrono"]].value = chrono]
  /\ UNCHANGED <<open, game, table, rebuilds>>

\* A frame begins with gameChrono.update(), where the clock goes on.
Tick ==
  /\ ~ ticked /\ Clock < MAX_FRAMES
  /\ Writes(Values("mode"),
            [Values("chrono") EXCEPT !.frameTimer = Number(Clock + 1)])
  /\ ticked' = TRUE
  /\ UNCHANGED <<started, ended>>

\* The rest of the frame: it returns on the black screen and in a pause, or the
\* duration goes on, and the cinematic.  The game is over when the cinematic
\* is, or when no life is left.
Count ==
  /\ ticked
  /\ \/ Locked /\ Writes(Values("mode"), Values("chrono"))
     \/ /\ ~ Locked
        /\ \E over \in {TRUE, Remaining = 1} :
             Writes([Values("mode") EXCEPT
                       !.duration = Number(Now("mode", "duration") + 1),
                       !.endModeTimer =
                          Number(IF Remaining = 0 THEN 0 ELSE Remaining - 1),
                       !.fl_gameOver = Bool(over)],
                    Values("chrono"))
  /\ ticked' = FALSE
  /\ UNCHANGED <<started, ended>>

\* Between two frames.
BetweenFrames(mode, chrono) ==
  ~ ticked /\ Writes(mode, chrono) /\ UNCHANGED ticked

Unlock ==
  /\ Locked /\ started = None
  /\ BetweenFrames([Values("mode") EXCEPT !.fl_lock = Bool(FALSE)],
                   Values("chrono"))
  /\ started' = Clock
  /\ UNCHANGED ended

Elevator ==
  /\ ~ Locked /\ ended = None
  /\ BetweenFrames([Values("mode") EXCEPT !.endModeTimer = Number(FULL)],
                   Values("chrono"))
  /\ ended' = Clock
  /\ UNCHANGED started

\* GameMode.lock stops the Chrono, unlock starts it again where it stood.
\* No pause fits between the elevator and its notice (see Session).
Pause ==
  /\ ~ Locked /\ ended = None
  /\ BetweenFrames([Values("mode") EXCEPT !.fl_lock = Bool(TRUE)],
                   [Values("chrono") EXCEPT
                      !.fl_stop = Bool(TRUE),
                      !.haltedTimer =
                         Number(Clock - Now("chrono", "gameTimer"))])
  /\ UNCHANGED <<started, ended>>

Resume ==
  /\ Stopped
  /\ BetweenFrames([Values("mode") EXCEPT !.fl_lock = Bool(FALSE)],
                   [Values("chrono") EXCEPT
                      !.fl_stop = Bool(FALSE),
                      !.gameTimer =
                         Number(Clock - Now("chrono", "haltedTimer"))])
  /\ UNCHANGED <<started, ended>>

\* The level of the world that is shown is written at any time in a frame.
Goto(id) ==
  /\ Now(Now("mode", "world"), "currentId") < id
  /\ cell' = Written(Now("mode", "world"), "currentId", Number(id))
  /\ UNCHANGED <<open, game, table, ticked, rebuilds, started, ended>>

\* A world that is not shown keeps its level.
Enter(w) ==
  /\ Now("mode", "world") # w
  /\ cell' = Written("mode", "world", Reference(w))
  /\ UNCHANGED <<open, game, table, ticked, rebuilds, started, ended>>

\* The frames, and what happens between two.
TimePasses ==
  /\ open /\ game = "runs"
  /\ Tick \/ Count \/ Unlock \/ Elevator \/ Pause \/ Resume

\* A move of the player, in the middle of a frame.
PlayerMoves ==
  /\ open /\ game = "runs"
  /\ \/ \E id \in Id : Goto(id)
     \/ \E w \in World : Enter(w)

-----------------------------------------------------------------------------
(* The memory *)

\* What the last entry of a table holds.
LastKey(t) == cell[t].keys[Len(cell[t].keys)]
Last(t) == cell[t].value[LastKey(t)]

Rebuilt ==
  /\ open /\ game = "runs" /\ rebuilds < MAX_REBUILDS
  /\ rebuilds' = rebuilds + 1
  /\ UNCHANGED <<open, game, ticked, started, ended>>

\* A table is built again at another address, with its keys at some slots, and
\* the old one is left.
Moves(o, first) ==
  /\ Rebuilt
  /\ cell' = Append(cell, [cell[table[o]] EXCEPT !.first = first, !.left = <<>>])
  /\ table' = [table EXCEPT ![o] = Len(cell')]

\* A table is built again where it is, with its keys at some slots.
Rehashed(o, first) ==
  /\ Rebuilt
  /\ cell' = [cell EXCEPT ![table[o]].first = first]
  /\ UNCHANGED table

\* The first entry of an object is removed: the others come one slot down,
\* and a copy of the last is left where it was.
Shifted(o) ==
  /\ Rebuilt /\ cell[table[o]].first = 1
  /\ cell' = [cell EXCEPT ![table[o]].first = 0,
                          ![table[o]].left = <<Last(table[o])>>]
  /\ UNCHANGED table

\* The game is left: its objects stay readable, as they were.
Left ==
  /\ open /\ game = "runs"
  /\ game' = "left"
  /\ UNCHANGED <<open, table, cell, ticked, rebuilds, started, ended>>

\* Then a table of one of them is used for something else: it is a table no
\* more, or it is another world.
Recycled ==
  /\ open /\ game = "left"
  /\ game' = "recycled"
  /\ \E o \in {"mode", "chrono", Now("mode", "world")} :
       \/ cell' = [cell EXCEPT ![table[o]].keys = <<>>]
       \/ /\ o \in World
          /\ \/ cell' = Written(o, "setName", String("menu"))
             \/ cell' = Written(o, "currentId", Number(Junk))
  /\ UNCHANGED <<open, table, ticked, rebuilds, started, ended>>

\* The player closes: no read succeeds any more.
Closes ==
  /\ open /\ open' = FALSE
  /\ UNCHANGED <<game, table, cell, ticked, rebuilds, started, ended>>

=============================================================================
