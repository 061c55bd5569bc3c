-------------------------------- MODULE Reads -------------------------------
(***************************************************************************)
(* The reading of one State: Game::read and Game::chrono of                *)
(* src/reader/hammerfest.rs, on the heap of Pepper Flash (src/reader/avm1  *)
(* .rs, pepper_flash.rs) or of Ruffle (src/reader/ruffle.rs).              *)
(*                                                                         *)
(* A reading is a chain of reads of another process, which goes on         *)
(* meanwhile: between any two of them the game may play, rebuild its       *)
(* tables, be left, or close.  One reading is modelled, from any frame of  *)
(* the game: all that stays of the readings before it is the slot where    *)
(* each property was found last.                                           *)
(*                                                                         *)
(* What one read returns it returns whole, and memory that is given up     *)
(* during a reading is not used again before it ends, unless the game was  *)
(* left.  The walk over the keys of a table is one step.                   *)
(***************************************************************************)
EXTENDS GameHeap

CONSTANTS
  ASTRAY,      \* bound: how far from its slot a property was last found
  MAX_CHANGES  \* bound: changes of the memory in one reading, in half frames

ASSUME ReadsAssumption == ASTRAY \subseteq Int /\ MAX_CHANGES \in Nat

VARIABLES
  player,  \* "pepper" or "ruffle"
  hint,    \* the slot where each property was last found
  step,    \* the property being read, or how the last reading ended
  phase,   \* "find" its slot, read its "value", or "follow" it
  at,      \* the object of each kind being read: its table, or itself
  base,    \* the table where the property is looked for
  length,  \* how many slots it has (Ruffle), read with its address
  slot,    \* where the property was found there (Pepper Flash)
  got,     \* what was read so far
  \* For the properties:
  changes, \* how much the memory changed since the reading began
  before,  \* what was true when the reading began
  shown,   \* the levels shown since
  locks,   \* the values of fl_lock since
  remainings, \* the values of endModeTimer since
  torn     \* was a table rebuilt in place between a key and its value?

reader == <<hint, step, phase, at, base, length, slot, got>>
history == <<changes, before, shown, locks, remainings, torn>>
vars == <<heap, player, reader, history>>

\* Mutant: the clock of the player is read last.
ChronoLast == <<"world", "setName", "currentId", "fl_lock", "duration",
                "fl_gameOver", "endModeTimer", "gameChrono", "frameTimer",
                "fl_stop", "haltedTimer", "gameTimer">>

\* The properties, in the order of Game::chrono and Game::read.  previous
\* and dim decide nothing, and are left out.
Order == <<"gameChrono", "frameTimer", "fl_stop", "haltedTimer", "gameTimer",
           "world", "setName", "currentId", "fl_lock", "duration",
           "fl_gameOver", "endModeTimer">>
Key == {Order[i] : i \in DOMAIN Order}

Owner(key) ==
  CASE key \in {"frameTimer", "fl_stop", "haltedTimer", "gameTimer"} -> "chrono"
    [] key \in {"setName", "currentId"} -> "world"
    [] OTHER -> "mode"

Kind(key) ==
  CASE key \in {"gameChrono", "world"} -> "object"
    [] key = "setName" -> "string"
    [] key \in {"fl_stop", "fl_lock", "fl_gameOver"} -> "bool"
    [] OTHER -> "number"

\* The properties a reading goes on without.
Optional == {"fl_stop", "haltedTimer", "fl_lock", "fl_gameOver", "endModeTimer"}

Default(key) ==
  CASE Kind(key) = "bool" -> FALSE
    [] key = "endModeTimer" -> 0
    [] OTHER -> None

KnownWorlds == {"xml_adventure", "xml_deepnight"}

\* The reading has not begun, or is over.
Idle == step = "rest"
Ended == step \in {"state", "none"}

\* What is true of the game now; Chrono.get() is what it shows as its time.
Truth ==
  LET world == Now("mode", "world") IN
  [frame |-> Clock,
   chrono |-> IF Stopped THEN Now("chrono", "haltedTimer")
              ELSE Clock - Now("chrono", "gameTimer"),
   level |-> <<Now(world, "setName"), Now(world, "currentId")>>,
   lock |-> Locked, duration |-> Now("mode", "duration"),
   over |-> Now("mode", "fl_gameOver"), remaining |-> Remaining]

\* Nothing is no value, and never true.
Truths ==
  [frame : Nat, chrono : Int, level : (KnownWorlds \cup {"menu"}) \X Int,
   lock : BOOLEAN, duration : Nat, over : BOOLEAN, remaining : Nat]

ASSUME NothingAssumption ==
  /\ None \notin Key /\ None \notin Object /\ None \notin Int
  /\ None \notin BOOLEAN /\ None \notin KnownWorlds /\ None # "menu"
  /\ None \notin Truths

Nothing == [key \in Key |-> None]

\* The slot of a property, in the table an object is born with.
FirstSlot(key) ==
  LET keys == KeysOf(IF Owner(key) = "world" THEN "main" ELSE Owner(key))
  IN  CHOOSE i \in DOMAIN keys : keys[i] = key

Init ==
  /\ HeapInit
  /\ player \in {"pepper", "ruffle"}
  /\ \E far \in ASTRAY : hint = [key \in Key |-> FirstSlot(key) + far]
  /\ step = "rest" /\ phase = "find"
  /\ at = [mode |-> IF player = "pepper" THEN table["mode"] ELSE "mode",
           chrono |-> None, world |-> None]
  /\ base = None /\ length = None /\ slot = None
  /\ got = Nothing
  /\ changes = 0 /\ before = None /\ torn = FALSE
  /\ shown = {} /\ locks = {} /\ remainings = {}

-----------------------------------------------------------------------------
(* A property: get_cached of avm1.rs, property of ruffle.rs *)

KeyAt(t, s) ==
  LET i == s - cell[t].first + 1
      n == Len(cell[t].keys)
  IN  CASE i \in 1..n -> cell[t].keys[i]
        [] n > 0 /\ i - n \in DOMAIN cell[t].left -> LastKey(t)
        [] OTHER -> None

\* What a slot holds.
Held(t, s) ==
  LET i == s - cell[t].first + 1
      n == Len(cell[t].keys)
  IN  IF i \in 1..n THEN cell[t].value[cell[t].keys[i]]
      ELSE cell[t].left[i - n]

Length(t) == cell[t].first + Len(cell[t].keys)

\* The slots that hold a key, among so many.
Holding(t, n, key) == {s \in 0..(n - 1) : KeyAt(t, s) = key}

First(slots) == CHOOSE s \in slots : \A other \in slots : s <= other

\* Mutant: the slot remembered is not checked.
SlotTrusted(t, n, key) ==
  IF hint[key] \in 0..(n - 1) THEN hint[key]
  ELSE IF Holding(t, n, key) = {} THEN None ELSE First(Holding(t, n, key))

\* Mutant: a property is not looked for elsewhere.
SlotRemembered(t, n, key) ==
  IF hint[key] \in Holding(t, n, key) THEN hint[key] ELSE None

\* The slot of a key: the one remembered, if it still holds that key, or the
\* first that does.
SlotOf(t, n, key) ==
  IF hint[key] \in Holding(t, n, key) THEN hint[key]
  ELSE IF Holding(t, n, key) = {} THEN None ELSE First(Holding(t, n, key))

\* An object of Pepper Flash is known by its table, one of Ruffle by itself:
\* where its entries are is read again at every call.
Base(o) == IF player = "pepper" THEN at[o] ELSE table[at[o]]

\* What a slot holds, as the property that is asked for.
Decoded(t, s, key) ==
  IF s = None \/ KeyAt(t, s) = None THEN None
  ELSE IF Held(t, s).type = Kind(key) THEN Held(t, s).is ELSE None

\* Memory that is used again shows as a world or a level there is not.
Valid(key, value) ==
  CASE key = "setName" -> value \in KnownWorlds
    [] key = "currentId" -> value # None /\ value < Junk
    [] OTHER -> value # None

-----------------------------------------------------------------------------
(* The reading: Game::chrono, then Game::read *)

Follows(key) ==
  LET i == CHOOSE i \in DOMAIN Order : Order[i] = key
  IN  IF i = Len(Order) THEN "state" ELSE Order[i + 1]

\* The halted clock when the Chrono is stopped, the running one when it is
\* not, or when the halted one cannot be read.
NextStep(key, value) ==
  CASE key = "fl_stop" /\ ~ value -> "gameTimer"
    [] key = "haltedTimer" /\ value # None -> Follows("gameTimer")
    [] OTHER -> Follows(key)

Begin ==
  /\ Idle
  /\ step' = Order[1] /\ phase' = "find"
  /\ got' = Nothing
  /\ changes' = 0
  /\ IF game = "recycled" THEN UNCHANGED <<before, shown, locks, remainings>>
     ELSE /\ before' = Truth /\ shown' = {Truth.level} /\ locks' = {Locked}
          /\ remainings' = {Remaining}
  /\ UNCHANGED <<heap, player, hint, at, base, length, slot, torn>>

\* The reading goes on with what this property gave, or fails.
Take(value) ==
  /\ base' = None /\ length' = None /\ slot' = None
  /\ IF ~ Valid(step, value) /\ step \notin Optional
     THEN step' = "none" /\ phase' = "find" /\ UNCHANGED got
     ELSE LET kept == IF value = None THEN Default(step) ELSE value IN
          /\ got' = [got EXCEPT ![step] = kept]
          /\ IF Kind(step) = "object"
             THEN phase' = "follow" /\ UNCHANGED step
             ELSE phase' = "find" /\ step' = NextStep(step, kept)

\* Pepper Flash: the capacity, and the keys.  Ruffle: where the entries are,
\* and how many.
Find ==
  /\ open /\ step \in Key /\ phase = "find"
  /\ LET t == Base(Owner(step))
         s == SlotOf(t, Length(t), step)
     IN  \/ /\ player = "ruffle"
            /\ base' = t /\ length' = Length(t) /\ phase' = "value"
            /\ UNCHANGED <<step, hint, slot, got>>
         \/ /\ player = "pepper" /\ s = None
            /\ Take(None) /\ UNCHANGED hint
         \/ /\ player = "pepper" /\ s # None
            /\ base' = t /\ slot' = s /\ phase' = "value"
            /\ hint' = [hint EXCEPT ![step] = s]
            /\ UNCHANGED <<step, length, got>>
  /\ UNCHANGED <<heap, player, at, history>>

\* Pepper Flash reads the value of the slot it found.  Ruffle reads an entry
\* whole, among those there were when it read how many.
Value ==
  /\ open /\ step \in Key /\ phase = "value"
  /\ LET s == IF player = "pepper" THEN slot ELSE SlotOf(base, length, step) IN
     /\ Take(Decoded(base, s, step))
     /\ hint' = IF s = None THEN hint ELSE [hint EXCEPT ![step] = s]
  /\ UNCHANGED <<heap, player, at, history>>

\* table_of, or is_object: what is no longer an object fails the reading.
Follow ==
  /\ open /\ step \in Key /\ phase = "follow"
  /\ LET o == got[step]
         kind == IF step = "world" THEN "world" ELSE "chrono"
     IN  IF cell[table[o]].keys = <<>>
         THEN step' = "none" /\ UNCHANGED at
         ELSE /\ at' = [at EXCEPT ![kind] =
                          IF player = "pepper" THEN table[o] ELSE o]
              /\ step' = Follows(step)
  /\ phase' = "find"
  /\ UNCHANGED <<heap, player, hint, base, length, slot, got, history>>

\* The player has closed: a property cannot be read.
Lost ==
  /\ ~ open /\ step \in Key
  /\ IF phase = "follow"
     THEN step' = "none" /\ phase' = "find" /\ UNCHANGED <<base, length, slot, got>>
     ELSE Take(None)
  /\ UNCHANGED <<heap, player, hint, at, history>>

\* A table is built again during a reading.  The object of Pepper Flash is its
\* table: one that moves is another game to its reader (see Search).
Rebuilds ==
  \E o \in Object :
    LET first == cell[table[o]].first IN
    \/ /\ player = "ruffle"
       /\ Moves(o, first) \/ Shifted(o)
       /\ UNCHANGED torn
    \/ /\ player = "pepper" /\ o # "mode"
       /\ Moves(o, 1 - first)
       /\ UNCHANGED torn
    \/ /\ player = "pepper"
       /\ Rehashed(o, 1 - first)
       /\ torn' = (torn \/ (phase = "value" /\ table[o] = base))

\* What happens to the memory before the first read, or between two.
HeapMoves ==
  \/ (TimePasses \/ Left \/ Recycled) /\ UNCHANGED torn
  \/ ~ Idle /\ (PlayerMoves \/ Closes) /\ UNCHANGED torn
  \/ ~ Idle /\ Rebuilds

\* A frame is written in two halves; anything else takes up a whole one.
Halves == IF ticked' = ticked THEN 2 ELSE 1

GameMoves ==
  /\ ~ Ended /\ HeapMoves
  /\ changes' = IF Idle THEN 0 ELSE changes + Halves
  /\ changes' <= MAX_CHANGES
  /\ IF before = None \/ game' = "recycled"
     THEN UNCHANGED <<shown, locks, remainings>>
     ELSE /\ shown' = shown \cup {Truth'.level}
          /\ locks' = locks \cup {Truth'.lock}
          /\ remainings' = remainings \cup {Truth'.remaining}
  /\ UNCHANGED <<player, reader, before>>

Next == Begin \/ Find \/ Value \/ Follow \/ Lost \/ GameMoves

Spec == Init /\ [][Next]_vars

=============================================================================
