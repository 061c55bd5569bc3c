---------------------------- MODULE ReadsProofs -----------------------------
(***************************************************************************)
(* What a reading promises, for games of any length, any number of tables  *)
(* built again, and any changes of the memory under the reading.           *)
(***************************************************************************)
EXTENDS ReadsProps, TLAPS

-----------------------------------------------------------------------------
(* The inductive invariant: tables *)

Properties(o) ==
  CASE o = "mode" -> {"gameChrono", "world", "fl_lock", "duration",
                      "fl_gameOver", "endModeTimer"}
    [] o = "chrono" -> {"frameTimer", "fl_stop", "haltedTimer", "gameTimer"}
    [] o \in World -> {"setName", "currentId"}

\* The last of them.
FinalKey(o) ==
  CASE o = "mode" -> "endModeTimer"
    [] o = "chrono" -> "gameTimer"
    [] o \in World -> "currentId"

Title(w) == IF w = "main" THEN "xml_adventure" ELSE "xml_deepnight"

ModeTyped(v) ==
  /\ v.gameChrono = Reference("chrono")
  /\ v.world \in {Reference("main"), Reference("dimension")}
  /\ v.fl_lock = Bool(v.fl_lock.is) /\ v.fl_lock.is \in BOOLEAN
  /\ v.duration = Number(v.duration.is) /\ v.duration.is \in Nat
  /\ v.fl_gameOver = Bool(v.fl_gameOver.is) /\ v.fl_gameOver.is \in BOOLEAN
  /\ v.endModeTimer = Number(v.endModeTimer.is) /\ v.endModeTimer.is \in Nat

ChronoTyped(v) ==
  /\ v.frameTimer = Number(v.frameTimer.is) /\ v.frameTimer.is \in Nat
  /\ v.fl_stop = Bool(v.fl_stop.is) /\ v.fl_stop.is \in BOOLEAN
  /\ v.haltedTimer = Number(v.haltedTimer.is) /\ v.haltedTimer.is \in Int
  /\ v.gameTimer = Number(v.gameTimer.is) /\ v.gameTimer.is \in Int

\* A world, in a game or in a memory used again.
WorldTyped(w, v, use) ==
  /\ v.setName \in {String(Title(w)), String("menu")}
  /\ v.currentId = Number(v.currentId.is) /\ v.currentId.is \in Nat
  /\ use # "recycled" =>
       v.setName = String(Title(w)) /\ v.currentId.is \in Id

\* What is left of the last entry of a table that closed up.
LeftTyped(o, x) ==
  /\ x = Number(x.is) /\ x.is \in Int
  /\ o = "mode" => x.is \in Nat
  /\ o \in World => x.is \in Id

\* A table of an object, the one it has or one it had.
TableOf(o, t) ==
  /\ t \in DOMAIN cell
  /\ DOMAIN cell[t] = {"keys", "first", "value", "left"}
  /\ cell[t].keys \in {KeysOf(o), <<>>}
  /\ cell[t].keys = <<>> => game = "recycled"
  /\ cell[t].first \in {0, 1}
  /\ \/ cell[t].left = <<>>
     \/ cell[t].left = <<cell[t].left[1]>> /\ LeftTyped(o, cell[t].left[1])
  /\ DOMAIN cell[t].value = Properties(o)
  /\ o = "mode" => ModeTyped(cell[t].value)
  /\ o = "chrono" => ChronoTyped(cell[t].value)
  /\ o \in World => WorldTyped(o, cell[t].value, game)

HeapTyped ==
  /\ open \in BOOLEAN /\ ticked \in BOOLEAN
  /\ game \in {"runs", "left", "recycled"}
  /\ Len(cell) \in Nat /\ DOMAIN cell = 1..Len(cell)
  /\ DOMAIN table = Object
  /\ \A o \in Object : TableOf(o, table[o])

-----------------------------------------------------------------------------
(* The inductive invariant: the reader *)

\* The object a property is asked of.
Subject(kind) == IF kind = "world" THEN got["world"] ELSE kind

Blank(t) == cell[t].keys = <<>>

\* A property is looked for in a table of its object: in Pepper Flash under
\* its slot, in Ruffle among the entries there were, of which the last may be
\* what is left of one.
Searching ==
  LET kind == Owner(step) IN
  /\ Subject(kind) \in Object
  /\ player = "ruffle" => at[kind] = Subject(kind)
  /\ TableOf(Subject(kind), Base(kind))
  /\ phase = "value" =>
       /\ TableOf(Subject(kind), base)
       /\ Blank(base) => Blank(Base(kind))
       /\ player = "pepper" =>
            /\ base = at[kind]
            /\ Blank(base) \/ (slot \in 0..(Length(base) - 1)
                               /\ KeyAt(base, slot) = step)
       /\ player = "ruffle" /\ ~ Blank(base) =>
            \/ length = Length(base)
            \/ length = Length(base) + 1 /\ cell[base].left # <<>>
               /\ cell[base].first = 0

ReaderTyped ==
  /\ player \in {"pepper", "ruffle"}
  /\ step \in Key \cup {"rest", "state", "none"}
  /\ phase \in {"find", "value", "follow"}
  /\ DOMAIN at = {"mode", "chrono", "world"}
  /\ at["mode"] = IF player = "pepper" THEN table["mode"] ELSE "mode"
  /\ DOMAIN got = Key /\ DOMAIN hint = Key
  /\ step \in {"setName", "currentId"} => got["world"] \in World
  /\ step \in Key /\ phase = "follow" =>
       \/ step = "gameChrono" /\ got[step] = "chrono"
       \/ step = "world" /\ got[step] \in World
  /\ step \in Key /\ phase # "follow" => Searching
  /\ step \notin Key => phase = "find"

\* A reading fails when what it reads is gone.
NoneIsGone == step = "none" => ~ open \/ game = "recycled"

TInv == HeapTyped /\ ReaderTyped /\ NoneIsGone

-----------------------------------------------------------------------------
(* The inductive invariant: the clocks of the game *)

\* The world that is shown.
Home == Now("mode", "world")

\* What the Chrono shows.
Shows(v) ==
  IF v.fl_stop.is THEN v.haltedTimer.is ELSE v.frameTimer.is - v.gameTimer.is

Time == Shows(Values("chrono"))

\* A frame that is half written has moved the clock, and not yet the rest.
Ahead == IF ticked /\ ~ Locked THEN 1 ELSE 0

HeapClocks ==
  /\ ticked => ~ Now("mode", "fl_gameOver")
  /\ Now("chrono", "gameTimer") >= 0
  /\ started = None =>
       /\ Locked /\ ~ Stopped /\ ended = None
       /\ Now("mode", "duration") = 0 /\ Now("chrono", "gameTimer") = 0
  /\ started # None =>
       /\ started \in Nat /\ (Locked <=> Stopped)
       /\ Time = started + Now("mode", "duration") + Ahead
  /\ ended # None => ended \in Nat /\ ~ Locked
  /\ Remaining > 0 =>
       ended # None /\ Clock = ended + FULL - Remaining + Ahead
  /\ Stopped =>
       Now("chrono", "haltedTimer") + Now("chrono", "gameTimer") <= Clock

-----------------------------------------------------------------------------
(* The inductive invariant: what was seen *)

TimeRead ==
  step \in {"world", "setName", "currentId", "fl_lock", "duration",
            "fl_gameOver", "endModeTimer", "state"}
ClockRead == TimeRead \/ step \in {"fl_stop", "haltedTimer", "gameTimer"}
DurationRead == step \in {"fl_gameOver", "endModeTimer", "state"}
LockRead == DurationRead \/ step = "duration"
LevelRead == LockRead \/ step = "fl_lock"
WorldRead ==
  step \in {"setName", "currentId"} \/ (step = "world" /\ phase = "follow")

\* The level of a world was shown, or its memory is used again.
Shown(w, id) == id = Junk \/ <<Title(w), id>> \in shown

\* The date of a frame of the cinematic, from what is left of it.
Ends(remaining) == ended + FULL - remaining

\* The time that was read.
ReadTime == State.chrono

\* A duration agrees with the time read before it, up to the frame that was
\* being written.
Timely(duration) ==
  started # None => Between(ReadTime - 1, started + duration, Clock)

\* And so does what is left of the cinematic, with the clock.
Ending(remaining) ==
  remaining > 0 =>
    /\ ended # None
    /\ Between(got["frameTimer"] - 1, Ends(remaining), Clock)

\* What a table of a GameMode holds was true since the reading began.
ModeSeen(v) ==
  /\ v.fl_lock.is \in locks
  /\ ~ v.fl_lock.is => started # None
  /\ Between(before.duration, v.duration.is, Now("mode", "duration"))
  /\ before.over => v.fl_gameOver.is
  /\ v.fl_gameOver.is => Now("mode", "fl_gameOver")
  /\ Shown(v.world.is, Now(v.world.is, "currentId"))
  /\ v.endModeTimer.is \in remainings
  /\ TimeRead => Timely(v.duration.is)
  /\ ClockRead => Ending(v.endModeTimer.is)

Halted(v) == Between(before.chrono, v.haltedTimer.is, Time)

\* What a table of a Chrono holds was true since the reading began.
ChronoSeen(v) ==
  /\ Between(before.frame, v.frameTimer.is, Clock)
  /\ ClockRead => got["frameTimer"] <= v.frameTimer.is
  /\ v.gameTimer.is <= Now("chrono", "gameTimer")
  /\ ~ v.fl_stop.is => v.frameTimer.is - v.gameTimer.is <= Time
  /\ v.fl_stop.is => Halted(v) /\ Halted(Values("chrono"))

\* The tables the reader reads of one kind, or will.
ReadFrom(kind, t) ==
  \/ t = Base(kind)
  \/ phase = "value" /\ kind = Owner(step) /\ t = base

Sources == {t \in DOMAIN cell : step \in Key /\ phase # "follow"
                                /\ ReadFrom(Owner(step), t)}

\* Nothing more is read of this object.
Gone ==
  \/ ~ open
  \/ Blank(Base(Owner(step))) /\ (phase = "value" => Blank(base))

SourceSeen(v) ==
  /\ Owner(step) = "mode" => ModeSeen(v)
  /\ Owner(step) = "chrono" => ChronoSeen(v)
  /\ Owner(step) = "world" => Shown(got["world"], v.currentId.is)
  /\ step = "haltedTimer" => Halted(v)
  /\ step = "gameTimer" =>
       \/ Gone
       \/ ~ got["fl_stop"] /\ got["frameTimer"] - v.gameTimer.is <= Time

SourcesSeen == \A t \in Sources : SourceSeen(cell[t].value)

\* What is left of the last entry was true too, when the table closed up.
LeftSeen(x) ==
  /\ step = "endModeTimer" => x \in remainings /\ Ending(x)
  /\ step = "currentId" => Shown(got["world"], x)
  /\ step = "gameTimer" =>
       /\ x <= Now("chrono", "gameTimer")
       /\ Gone \/ (~ got["fl_stop"] /\ got["frameTimer"] - x <= Time)

CopySeen ==
  player = "ruffle" /\ phase = "value" /\ length # Length(base) =>
    \/ Blank(base)
    \/ LeftSeen(cell[base].left[1].is)

\* What was read of the clocks.
ClocksRead ==
  /\ ClockRead => /\ got["frameTimer"] \in Nat
                  /\ Between(before.frame, got["frameTimer"], Clock)
  /\ step = "haltedTimer" => got["fl_stop"]
  /\ TimeRead =>
       /\ ReadTime \in Int
       /\ Between(before.chrono - (Clock - before.frame), ReadTime, Time)

LevelsRead ==
  /\ WorldRead => Shown(got["world"], Now(got["world"], "currentId"))
  /\ step = "currentId" => got["setName"] = Title(got["world"])
  /\ LevelRead => <<got["setName"], got["currentId"]>> \in shown

StateRead ==
  /\ LockRead => \/ step = "duration" /\ Gone
                 \/ got["fl_lock"] \in locks /\ (~ got["fl_lock"] => started # None)
  /\ DurationRead =>
       /\ got["duration"] \in Nat
       /\ Between(before.duration, got["duration"], Now("mode", "duration"))
       /\ Timely(got["duration"])
  /\ step \in {"endModeTimer", "state"} =>
       /\ got["fl_gameOver"] \in BOOLEAN
       /\ got["fl_gameOver"] => Now("mode", "fl_gameOver")
       /\ before.over => got["fl_gameOver"] \/ ~ open \/ game = "recycled"
  /\ step = "state" =>
       /\ got["endModeTimer"] \in Nat /\ Ending(got["endModeTimer"])
       /\ got["endModeTimer"] \in remainings \/ ~ open \/ game = "recycled"

\* What was true when the reading began, and since.
HistorySeen ==
  /\ before.frame \in Nat /\ before.chrono \in Int /\ before.duration \in Nat
  /\ before.over \in BOOLEAN
  /\ before.frame <= Clock /\ before.chrono <= Time
  /\ before.duration <= Now("mode", "duration")
  /\ before.over => Now("mode", "fl_gameOver")
  /\ Locked \in locks /\ Remaining \in remainings
  /\ LET w == Now("mode", "world") IN Shown(w, Now(w, "currentId"))

Seen ==
  before # None =>
    /\ HistorySeen /\ SourcesSeen /\ CopySeen
    /\ ClocksRead /\ LevelsRead /\ StateRead

-----------------------------------------------------------------------------
(* The inductive invariant: a memory used again before the reading began *)

\* The reading stops at what is used for something else.
UpToTheWorld ==
  {"gameChrono", "frameTimer", "fl_stop", "haltedTimer", "gameTimer", "world"}

AtHome == got["world"] = Home /\ Base("world") = table[Home]

Doomed ==
  \/ step = "gameChrono" /\ phase # "follow" /\ Blank(table["mode"])
  \/ step = "gameChrono" /\ Blank(table["chrono"])
  \/ step \in UpToTheWorld /\ Blank(table[Home])
  \/ /\ step \in UpToTheWorld \/ (step = "setName" /\ AtHome)
     /\ Now(Home, "setName") = "menu"
  \/ /\ step \in UpToTheWorld \/ (step \in {"setName", "currentId"} /\ AtHome)
     /\ Now(Home, "currentId") = Junk

Corrupt ==
  \/ Blank(table["mode"]) \/ Blank(table["chrono"]) \/ Blank(table[Home])
  \/ Now(Home, "setName") = "menu" \/ Now(Home, "currentId") = Junk

Hopeless ==
  /\ Idle => before = None
  /\ game = "recycled" => Corrupt
  /\ before = None /\ ~ Idle /\ step # "none" =>
       /\ game = "recycled" /\ step \in Key /\ Doomed
       /\ phase = "value" =>
            base = Base(Owner(step)) /\ (player = "ruffle" => length = Length(base))
       /\ phase = "follow" /\ step = "world" => got["world"] = Home

RInv == TInv /\ HeapClocks /\ Seen /\ Hopeless

-----------------------------------------------------------------------------
(* Keys and slots *)

\* The properties that are read.
LEMMA KeysAre ==
  Key = {"gameChrono", "frameTimer", "fl_stop", "haltedTimer", "gameTimer",
         "world", "setName", "currentId", "fl_lock", "duration", "fl_gameOver",
         "endModeTimer"}
<1>1. DOMAIN Order = 1..12
  BY DEF Order
<1> QED
  BY <1>1 DEF Key, Order

\* The order of the reading.
LEMMA FollowsAre ==
  /\ Follows("gameChrono") = "frameTimer" /\ Follows("frameTimer") = "fl_stop"
  /\ Follows("fl_stop") = "haltedTimer" /\ Follows("haltedTimer") = "gameTimer"
  /\ Follows("gameTimer") = "world" /\ Follows("world") = "setName"
  /\ Follows("setName") = "currentId" /\ Follows("currentId") = "fl_lock"
  /\ Follows("fl_lock") = "duration" /\ Follows("duration") = "fl_gameOver"
  /\ Follows("fl_gameOver") = "endModeTimer" /\ Follows("endModeTimer") = "state"
<1>1. DOMAIN Order = 1..12 /\ Len(Order) = 12
  BY DEF Order
<1>2. ASSUME NEW i \in 1..12, NEW j \in 1..12, Order[i] = Order[j]
      PROVE  i = j
  BY <1>2 DEF Order
<1>3. ASSUME NEW j \in 1..12
      PROVE  Follows(Order[j]) = IF j = 12 THEN "state" ELSE Order[j + 1]
  <2>1. (CHOOSE i \in DOMAIN Order : Order[i] = Order[j]) = j
    BY <1>1, <1>2
  <2> QED
    BY <1>1, <2>1 DEF Follows
<1>4. /\ Order[1] = "gameChrono" /\ Order[2] = "frameTimer"
      /\ Order[3] = "fl_stop" /\ Order[4] = "haltedTimer"
      /\ Order[5] = "gameTimer" /\ Order[6] = "world"
      /\ Order[7] = "setName" /\ Order[8] = "currentId"
      /\ Order[9] = "fl_lock" /\ Order[10] = "duration"
      /\ Order[11] = "fl_gameOver" /\ Order[12] = "endModeTimer"
  BY DEF Order
<1>5. /\ Follows(Order[1]) = Order[2] /\ Follows(Order[2]) = Order[3]
      /\ Follows(Order[3]) = Order[4] /\ Follows(Order[4]) = Order[5]
      /\ Follows(Order[5]) = Order[6] /\ Follows(Order[6]) = Order[7]
      /\ Follows(Order[7]) = Order[8] /\ Follows(Order[8]) = Order[9]
      /\ Follows(Order[9]) = Order[10] /\ Follows(Order[10]) = Order[11]
      /\ Follows(Order[11]) = Order[12] /\ Follows(Order[12]) = "state"
  BY <1>3
<1> QED
  BY <1>4, <1>5

\* The object each property is asked of.
LEMMA OwnersAre ==
  /\ Owner("gameChrono") = "mode" /\ Owner("world") = "mode"
  /\ Owner("fl_lock") = "mode" /\ Owner("duration") = "mode"
  /\ Owner("fl_gameOver") = "mode" /\ Owner("endModeTimer") = "mode"
  /\ Owner("frameTimer") = "chrono" /\ Owner("fl_stop") = "chrono"
  /\ Owner("haltedTimer") = "chrono" /\ Owner("gameTimer") = "chrono"
  /\ Owner("setName") = "world" /\ Owner("currentId") = "world"
BY DEF Owner

\* What each property is.
LEMMA KindsAre ==
  /\ Kind("gameChrono") = "object" /\ Kind("world") = "object"
  /\ Kind("setName") = "string"
  /\ Kind("fl_stop") = "bool" /\ Kind("fl_lock") = "bool"
  /\ Kind("fl_gameOver") = "bool"
  /\ Kind("frameTimer") = "number" /\ Kind("haltedTimer") = "number"
  /\ Kind("gameTimer") = "number" /\ Kind("currentId") = "number"
  /\ Kind("duration") = "number" /\ Kind("endModeTimer") = "number"
BY DEF Kind

\* The properties each object has.
LEMMA PropertiesAre ==
  /\ Properties("mode") = {"gameChrono", "world", "fl_lock", "duration",
                           "fl_gameOver", "endModeTimer"}
  /\ Properties("chrono") = {"frameTimer", "fl_stop", "haltedTimer", "gameTimer"}
  /\ \A w \in World : Properties(w) = {"setName", "currentId"}
BY DEF Properties, World

\* What an object has is read.
LEMMA KeyInKey ==
  ASSUME NEW o \in Object, NEW key \in Properties(o)
  PROVE  key \in Key
BY KeysAre, PropertiesAre DEF Object, World

\* The keys of an object are its properties, each in one slot.
LEMMA KeysOfAre ==
  ASSUME NEW o \in Object
  PROVE  /\ Len(KeysOf(o)) \in Nat /\ DOMAIN KeysOf(o) = 1..Len(KeysOf(o))
         /\ \A key \in Properties(o) : \E i \in DOMAIN KeysOf(o) : KeysOf(o)[i] = key
         /\ \A i, j \in DOMAIN KeysOf(o) : KeysOf(o)[i] = KeysOf(o)[j] => i = j
         /\ KeysOf(o) # <<>> /\ Len(KeysOf(o)) > 0
         /\ KeysOf(o)[Len(KeysOf(o))] = FinalKey(o) /\ FinalKey(o) \in Properties(o)
<1> DEFINE k == KeysOf(o)
<1>1. CASE o = "mode"
  <2>1. /\ k = <<"gameChrono", "world", "fl_lock", "duration", "fl_gameOver",
                "endModeTimer">>
        /\ Len(k) = 6 /\ DOMAIN k = 1..6
    BY <1>1 DEF KeysOf, World
  <2>2. /\ k[1] = "gameChrono" /\ k[2] = "world" /\ k[3] = "fl_lock"
        /\ k[4] = "duration" /\ k[5] = "fl_gameOver" /\ k[6] = "endModeTimer"
    BY <2>1
  <2> QED
    BY <1>1, <2>1, <2>2, PropertiesAre DEF FinalKey, World
<1>2. CASE o = "chrono"
  <2>1. /\ k = <<"frameTimer", "fl_stop", "haltedTimer", "gameTimer">>
        /\ Len(k) = 4 /\ DOMAIN k = 1..4
    BY <1>2 DEF KeysOf, World
  <2>2. /\ k[1] = "frameTimer" /\ k[2] = "fl_stop" /\ k[3] = "haltedTimer"
        /\ k[4] = "gameTimer"
    BY <2>1
  <2> QED
    BY <1>2, <2>1, <2>2, PropertiesAre DEF FinalKey, World
<1>3. CASE o \in World
  <2>1. k = <<"setName", "currentId">> /\ Len(k) = 2 /\ DOMAIN k = 1..2
    BY <1>3 DEF KeysOf, World
  <2>2. k[1] = "setName" /\ k[2] = "currentId"
    BY <2>1
  <2> QED
    BY <1>3, <2>1, <2>2, PropertiesAre DEF FinalKey, World
<1> QED
  BY <1>1, <1>2, <1>3 DEF Object, World

\* What a slot of a table holds: the value of its key, or what is left of the
\* last, past the end.
LEMMA HeldIs ==
  ASSUME NEW o \in Object, NEW t, cell[t].keys = KeysOf(o),
         cell[t].first \in {0, 1},
         cell[t].left = <<>> \/ cell[t].left = <<cell[t].left[1]>>,
         NEW s \in Int, 0 <= s, s <= Length(t), NEW key \in Properties(o),
         KeyAt(t, s) = key
  PROVE  \/ s < Length(t) /\ Held(t, s) = cell[t].value[key]
         \/ /\ s = Length(t) /\ key = FinalKey(o)
            /\ Held(t, s) = cell[t].left[1]
<1> DEFINE keys == KeysOf(o)
           i == s - cell[t].first + 1
           n == Len(keys)
<1>1. /\ n \in Nat /\ n > 0 /\ DOMAIN keys = 1..n /\ keys[n] = FinalKey(o)
      /\ key # None /\ Length(t) = cell[t].first + n
  BY KeysOfAre, KeyInKey, NothingAssumption DEF Length
<1>2. CASE i \in 1..n
  <2>1. KeyAt(t, s) = keys[i] /\ Held(t, s) = cell[t].value[keys[i]]
    BY <1>2 DEF KeyAt, Held
  <2> QED
    BY <1>1, <1>2, <2>1
<1>3. CASE i \notin 1..n
  <2>1. i - n \in DOMAIN cell[t].left /\ key = LastKey(t)
    BY <1>1, <1>3 DEF KeyAt
  <2>2. i - n = 1 /\ s = Length(t)
    BY <1>1, <1>3, <2>1
  <2>3. key = FinalKey(o) /\ Held(t, s) = cell[t].left[1]
    BY <1>1, <1>3, <2>1, <2>2 DEF LastKey, Held
  <2> QED
    BY <2>2, <2>3
<1> QED
  BY <1>2, <1>3

\* A property is found in a table of its object, whatever slot is remembered,
\* and whether one is left past the end.
LEMMA SlotIsFound ==
  ASSUME NEW o \in Object, NEW t, cell[t].keys = KeysOf(o),
         cell[t].first \in {0, 1},
         cell[t].left = <<>> \/ cell[t].left = <<cell[t].left[1]>>,
         NEW n \in {Length(t), Length(t) + 1}, NEW key \in Properties(o)
  PROVE  /\ SlotOf(t, n, key) \in 0..(n - 1)
         /\ KeyAt(t, SlotOf(t, n, key)) = key
<1> DEFINE keys == KeysOf(o)
           first == cell[t].first
           slots == Holding(t, n, key)
<1>1. /\ Len(keys) \in Nat /\ DOMAIN keys = 1..Len(keys)
      /\ \A i, j \in DOMAIN keys : keys[i] = keys[j] => i = j
      /\ Length(t) = first + Len(keys)
  BY KeysOfAre DEF Length
<1>2. PICK i \in DOMAIN keys : keys[i] = key
  BY KeysOfAre
<1>3. PICK p \in Int : p = first + i - 1
  BY <1>1, <1>2
<1>4. p \in 0..(n - 1) /\ KeyAt(t, p) = key /\ p < Length(t)
  <2>1. p \in 0..(n - 1) /\ p - first + 1 = i /\ p < Length(t)
    BY <1>1, <1>2, <1>3
  <2> QED
    BY <1>1, <1>2, <2>1 DEF KeyAt
<1>5. p \in slots
  BY <1>4 DEF Holding
<1>6. ASSUME NEW s \in slots PROVE p <= s
  <2>1. s \in 0..(n - 1) /\ KeyAt(t, s) = key
    BY <1>6 DEF Holding
  <2>2. key # None
    BY KeyInKey, NothingAssumption
  <2>3. CASE s - first + 1 \in 1..Len(keys)
    <3>1. keys[s - first + 1] = key
      BY <2>1, <2>3 DEF KeyAt
    <3>2. s - first + 1 = i
      BY <1>1, <1>2, <2>3, <3>1
    <3> QED
      BY <1>1, <1>3, <2>1, <3>2
  <2>4. CASE s - first + 1 \notin 1..Len(keys)
    <3>1. s - first + 1 - Len(keys) \in DOMAIN cell[t].left
      BY <2>1, <2>2, <2>4 DEF KeyAt
    <3> QED
      BY <1>1, <1>4, <2>1, <2>4, <3>1
  <2> QED
    BY <2>3, <2>4
<1>7. First(slots) \in slots
  BY <1>5, <1>6 DEF First
<1>8. SlotOf(t, n, key) \in slots
  BY <1>5, <1>7 DEF SlotOf
<1> QED
  BY <1>8 DEF Holding

\* Nothing is found in a table that is one no more.
LEMMA NothingIsBlank ==
  ASSUME NEW t, cell[t].keys = <<>>, NEW s, NEW key
  PROVE  Decoded(t, s, key) = None
BY DEF Decoded, KeyAt

-----------------------------------------------------------------------------
(* The memory: types *)

\* The objects of a game.
LEMMA ObjectsAre ==
  /\ Object = {"mode", "chrono"} \cup World
  /\ World = {"main", "dimension"}
  /\ "mode" \notin World /\ "chrono" \notin World
BY DEF Object, World

\* A table belongs to one object, unless its memory is used again.
LEMMA TablesAreApart ==
  ASSUME NEW o \in Object, NEW p \in Object, o # p, NEW t,
         TableOf(o, t), TableOf(p, t)
  PROVE  o \in World /\ p \in World /\ game = "recycled"
<1>1. Properties(o) = Properties(p)
  BY DEF TableOf
<1>2. o \in World /\ p \in World
  BY <1>1, ObjectsAre, PropertiesAre
<1>3. Title(o) # Title(p)
  BY <1>2, ObjectsAre DEF Title
<1> QED
  BY <1>2, <1>3 DEF TableOf, WorldTyped, String

\* What a typed memory holds, by name.
LEMMA ValuesAre ==
  ASSUME HeapTyped
  PROVE  /\ ModeTyped(Values("mode")) /\ DOMAIN Values("mode") = Properties("mode")
         /\ ChronoTyped(Values("chrono"))
         /\ DOMAIN Values("chrono") = Properties("chrono")
         /\ \A w \in World : /\ WorldTyped(w, Values(w), game)
                             /\ DOMAIN Values(w) = Properties(w)
         /\ Now("mode", "world") \in World
         /\ Clock \in Nat /\ Remaining \in Nat /\ Now("mode", "duration") \in Nat
         /\ Now("chrono", "haltedTimer") \in Int
         /\ Now("chrono", "gameTimer") \in Int
         /\ Locked \in BOOLEAN /\ Stopped \in BOOLEAN
         /\ Now("mode", "fl_gameOver") \in BOOLEAN
         /\ table["mode"] # table["chrono"]
         /\ \A w \in World : table[w] \notin {table["mode"], table["chrono"]}
<1>1. \A o \in Object : TableOf(o, table[o])
  BY DEF HeapTyped
<1>2. TableOf("mode", table["mode"]) /\ TableOf("chrono", table["chrono"])
  BY <1>1, ObjectsAre
<1>3. \A w \in World : TableOf(w, table[w])
  BY <1>1, ObjectsAre
<1>4. /\ ModeTyped(Values("mode")) /\ DOMAIN Values("mode") = Properties("mode")
      /\ ChronoTyped(Values("chrono"))
      /\ DOMAIN Values("chrono") = Properties("chrono")
  BY <1>2 DEF TableOf, Values
<1>5. \A w \in World : /\ WorldTyped(w, Values(w), game)
                       /\ DOMAIN Values(w) = Properties(w)
  BY <1>3 DEF TableOf, Values
<1>6. Now("mode", "world") \in World
  BY <1>4, ObjectsAre DEF ModeTyped, Reference, Now
<1>7. /\ Clock \in Nat /\ Remaining \in Nat /\ Now("mode", "duration") \in Nat
      /\ Now("chrono", "haltedTimer") \in Int
      /\ Now("chrono", "gameTimer") \in Int
      /\ Locked \in BOOLEAN /\ Stopped \in BOOLEAN
      /\ Now("mode", "fl_gameOver") \in BOOLEAN
  BY <1>4 DEF ModeTyped, ChronoTyped, Now, Clock, Remaining, Locked, Stopped
<1>8. table["mode"] # table["chrono"]
  BY <1>2, TablesAreApart, ObjectsAre
<1>9. \A w \in World : table[w] \notin {table["mode"], table["chrono"]}
  BY <1>2, <1>3, TablesAreApart, ObjectsAre
<1> QED
  BY <1>4, <1>5, <1>6, <1>7, <1>8, <1>9

\* What a step of the memory leaves of the tables: each stays a table of its
\* object, only the one an object has is written, and an object moves to a new
\* one.
TablesGo ==
  /\ \A o \in Object, t \in DOMAIN cell : TableOf(o, t) => TableOf(o, t)'
  /\ \A o \in Object :
       table'[o] # table[o] => /\ table'[o] \notin DOMAIN cell
                               /\ cell'[table[o]] = cell[table[o]]
  /\ \A t \in DOMAIN cell :
       (\A o \in Object : t # table[o]) => cell'[t] = cell[t]

\* The tables of the mode and of its Chrono are written, with their types.
LEMMA WritesTables ==
  ASSUME HeapTyped, NEW mode, NEW chrono, Writes(mode, chrono),
         ticked' \in BOOLEAN,
         ModeTyped(mode), DOMAIN mode = Properties("mode"),
         ChronoTyped(chrono), DOMAIN chrono = Properties("chrono")
  PROVE  /\ HeapTyped' /\ TablesGo
         /\ Values("mode")' = mode
         /\ Values("chrono")' = chrono
         /\ \A w \in World : Values(w)' = Values(w)
         /\ \A t \in DOMAIN cell : cell'[t].keys = cell[t].keys
                                   /\ cell'[t].first = cell[t].first
                                   /\ cell'[t].left = cell[t].left
<1> DEFINE m == table["mode"]
           c == table["chrono"]
<1>1. /\ m # c /\ m \in DOMAIN cell /\ c \in DOMAIN cell
      /\ DOMAIN cell[m] = {"keys", "first", "value", "left"}
      /\ DOMAIN cell[c] = {"keys", "first", "value", "left"}
      /\ Len(cell) \in Nat /\ DOMAIN cell = 1..Len(cell)
  BY ValuesAre, ObjectsAre DEF HeapTyped, TableOf
<1>2. /\ cell' = [cell EXCEPT ![m].value = mode, ![c].value = chrono]
      /\ open' = open /\ game' = game /\ table' = table
  BY DEF Writes
<1>3. /\ DOMAIN cell' = DOMAIN cell /\ Len(cell') = Len(cell)
      /\ cell'[m].value = mode /\ cell'[c].value = chrono
      /\ \A t \in DOMAIN cell :
           /\ t # m /\ t # c => cell'[t] = cell[t]
           /\ cell'[t].keys = cell[t].keys
           /\ cell'[t].first = cell[t].first
           /\ cell'[t].left = cell[t].left
      /\ DOMAIN cell'[m] = {"keys", "first", "value", "left"}
      /\ DOMAIN cell'[c] = {"keys", "first", "value", "left"}
  BY <1>1, <1>2
<1>5. ASSUME NEW o \in Object, NEW t \in DOMAIN cell, TableOf(o, t)
      PROVE  TableOf(o, t)'
  <2>1. CASE t # m /\ t # c
    BY <1>2, <1>3, <1>5, <2>1 DEF TableOf, WorldTyped
  <2>2. CASE t = m
    <3>1. o = "mode"
      BY <1>5, <2>2, TablesAreApart, ObjectsAre DEF HeapTyped
    <3> QED
      BY <1>2, <1>3, <1>5, <2>2, <3>1, ObjectsAre DEF TableOf
  <2>3. CASE t = c
    <3>1. o = "chrono"
      BY <1>5, <2>3, TablesAreApart, ObjectsAre DEF HeapTyped
    <3> QED
      BY <1>2, <1>3, <1>5, <2>3, <3>1, ObjectsAre DEF TableOf
  <2> QED
    BY <2>1, <2>2, <2>3
<1>6. \A o \in Object : table'[o] = table[o] /\ table[o] \in DOMAIN cell
  BY <1>2 DEF HeapTyped, TableOf
<1>7. HeapTyped'
  BY <1>1, <1>2, <1>3, <1>5, <1>6 DEF HeapTyped
<1>8. TablesGo
  BY <1>1, <1>3, <1>5, <1>6, ObjectsAre DEF TablesGo
<1>9. \A w \in World : Values(w)' = Values(w)
  BY <1>2, <1>3, <1>6, ValuesAre, ObjectsAre DEF Values
<1>10. Values("mode")' = mode /\ Values("chrono")' = chrono
  BY <1>2, <1>3 DEF Values
<1> QED
  BY <1>3, <1>7, <1>8, <1>9, <1>10

\* The memory is used again only once the game was left.
UseGoes == game' = game \/ (game # "recycled" /\ game' \in {"left", "recycled"})

\* A property of one object is written.
LEMMA WrittenTables ==
  ASSUME HeapTyped, game # "recycled", UseGoes, UNCHANGED <<open, table, ticked>>,
         NEW o \in Object, NEW key \in Properties(o), NEW value,
         cell' = Written(o, key, value), NEW v,
         v = [Values(o) EXCEPT ![key] = value],
         o = "mode" => ModeTyped(v),
         o = "chrono" => ChronoTyped(v),
         o \in World => WorldTyped(o, v, game')
  PROVE  /\ HeapTyped' /\ TablesGo
         /\ Values(o)' = v
         /\ Values(o)'[key] = value
         /\ \A k \in Properties(o) : k # key => Values(o)'[k] = Values(o)[k]
         /\ \A p \in Object : p # o => Values(p)' = Values(p)
         /\ \A t \in DOMAIN cell : cell'[t].keys = cell[t].keys
                                   /\ cell'[t].first = cell[t].first
                                   /\ cell'[t].left = cell[t].left
<1> DEFINE a == table[o]
<1>1. /\ a \in DOMAIN cell /\ DOMAIN cell[a] = {"keys", "first", "value", "left"}
      /\ Len(cell) \in Nat /\ DOMAIN cell = 1..Len(cell)
      /\ DOMAIN Values(o) = Properties(o) /\ TableOf(o, a)
  BY DEF HeapTyped, TableOf, Values
<1>2. cell' = [cell EXCEPT ![a].value[key] = value]
  BY DEF Written
<1>3. /\ DOMAIN cell' = DOMAIN cell /\ Len(cell') = Len(cell)
      /\ cell'[a].value = v /\ DOMAIN v = Properties(o)
      /\ \A t \in DOMAIN cell :
           /\ t # a => cell'[t] = cell[t]
           /\ cell'[t].keys = cell[t].keys
           /\ cell'[t].first = cell[t].first
           /\ cell'[t].left = cell[t].left
      /\ DOMAIN cell'[a] = {"keys", "first", "value", "left"}
  BY <1>1, <1>2 DEF Values
<1>4. ASSUME NEW p \in Object, NEW t \in DOMAIN cell, TableOf(p, t)
      PROVE  TableOf(p, t)'
  <2>1. CASE t # a
    BY <1>3, <1>4, <2>1 DEF TableOf, WorldTyped, UseGoes
  <2>2. CASE t = a
    <3>1. p = o
      BY <1>1, <1>4, <2>2, TablesAreApart
    <3> QED
      BY <1>3, <1>4, <2>2, <3>1 DEF TableOf, UseGoes
  <2> QED
    BY <2>1, <2>2
<1>5. \A p \in Object : table'[p] = table[p] /\ table[p] \in DOMAIN cell
  BY DEF HeapTyped, TableOf
<1>6. HeapTyped'
  BY <1>1, <1>3, <1>4, <1>5 DEF HeapTyped, UseGoes
<1>7. TablesGo
  BY <1>1, <1>3, <1>4, <1>5 DEF TablesGo
<1>8. ASSUME NEW p \in Object, p # o PROVE Values(p)' = Values(p)
  <2>1. table[p] # a
    BY <1>1, <1>8, TablesAreApart DEF HeapTyped
  <2> QED
    BY <1>3, <1>5, <2>1 DEF Values
<1>9. Values(o)' = v
  BY <1>3 DEF Values
<1>10. v[key] = value /\ \A k \in Properties(o) : k # key => v[k] = Values(o)[k]
  BY <1>1
<1> QED
  BY <1>3, <1>6, <1>7, <1>8, <1>9, <1>10

\* Nothing is written.
LEMMA KeptTables ==
  ASSUME HeapTyped, UseGoes, UNCHANGED <<table, cell, ticked>>, open' \in BOOLEAN
  PROVE  HeapTyped' /\ TablesGo /\ \A p \in Object : Values(p)' = Values(p)
<1>1. \A o \in Object, t \in DOMAIN cell : TableOf(o, t) => TableOf(o, t)'
  BY DEF TableOf, WorldTyped, UseGoes
<1> QED
  BY <1>1 DEF HeapTyped, TableOf, TablesGo, Values, UseGoes

\* A table is built again at another address.
LEMMA MovedTables ==
  ASSUME HeapTyped, NEW o \in Object, NEW first \in {0, 1}, Moves(o, first)
  PROVE  /\ HeapTyped' /\ TablesGo
         /\ \A p \in Object : Values(p)' = Values(p)
         /\ \A t \in DOMAIN cell : cell'[t] = cell[t]
<1> DEFINE a == table[o]
<1> PICK n : n = Len(cell) + 1
  OBVIOUS
<1>1. /\ a \in DOMAIN cell /\ DOMAIN cell[a] = {"keys", "first", "value", "left"}
      /\ Len(cell) \in Nat /\ DOMAIN cell = 1..Len(cell) /\ TableOf(o, a)
      /\ DOMAIN table = Object
  BY DEF HeapTyped, TableOf
<1>2. /\ cell' = Append(cell, [cell[a] EXCEPT !.first = first, !.left = <<>>])
      /\ table' = [table EXCEPT ![o] = Len(cell')]
      /\ open' = open /\ game' = game /\ ticked' = ticked
  BY DEF Moves, Rebuilt
<1>3. /\ Len(cell') = n /\ DOMAIN cell' = 1..n /\ n \notin DOMAIN cell
      /\ n \in DOMAIN cell' /\ DOMAIN cell \subseteq DOMAIN cell'
      /\ \A t \in DOMAIN cell : cell'[t] = cell[t]
      /\ cell'[n] = [cell[a] EXCEPT !.first = first, !.left = <<>>]
  BY <1>1, <1>2
<1>4. /\ DOMAIN table' = Object /\ table'[o] = n
      /\ \A p \in Object : p # o => table'[p] = table[p]
  BY <1>1, <1>2, <1>3
<1>5. ASSUME NEW p \in Object, NEW t \in DOMAIN cell, TableOf(p, t)
      PROVE  TableOf(p, t)'
  BY <1>2, <1>3, <1>5 DEF TableOf
<1>6. /\ DOMAIN cell'[n] = {"keys", "first", "value", "left"}
      /\ cell'[n].keys = cell[a].keys /\ cell'[n].first = first /\ cell'[n].left = <<>>
      /\ cell'[n].value = cell[a].value
  BY <1>1, <1>3
<1>7. TableOf(o, n)'
  BY <1>1, <1>2, <1>3, <1>6 DEF TableOf
<1>8. ASSUME NEW p \in Object PROVE TableOf(p, table[p])'
  <2>1. CASE p = o
    BY <1>4, <1>7, <2>1
  <2>2. CASE p # o
    <3>1. TableOf(p, table[p]) /\ table[p] \in DOMAIN cell
      BY DEF HeapTyped, TableOf
    <3>2. table'[p] = table[p]
      BY <1>4, <2>2
    <3> QED
      BY <1>5, <3>1, <3>2
  <2> QED
    BY <2>1, <2>2
<1>9. HeapTyped'
  BY <1>2, <1>3, <1>4, <1>8, <1>1 DEF HeapTyped
<1>10. TablesGo
  BY <1>1, <1>3, <1>4, <1>5 DEF TablesGo
<1>11. ASSUME NEW p \in Object PROVE Values(p)' = Values(p)
  <2>1. CASE p = o
    BY <1>4, <1>6, <2>1 DEF Values
  <2>2. CASE p # o
    BY <1>3, <1>4, <2>2 DEF Values, HeapTyped, TableOf
  <2> QED
    BY <2>1, <2>2
<1> QED
  BY <1>3, <1>9, <1>10, <1>11

\* A table is built again where it is.
LEMMA RehashedTables ==
  ASSUME HeapTyped, NEW o \in Object, NEW first \in {0, 1}, Rehashed(o, first)
  PROVE  /\ HeapTyped' /\ TablesGo
         /\ \A p \in Object : Values(p)' = Values(p)
         /\ \A t \in DOMAIN cell : /\ t # table[o] => cell'[t] = cell[t]
                                   /\ cell'[t].keys = cell[t].keys
                                   /\ cell'[t].value = cell[t].value
<1> DEFINE a == table[o]
<1>1. /\ a \in DOMAIN cell /\ DOMAIN cell[a] = {"keys", "first", "value", "left"}
      /\ Len(cell) \in Nat /\ DOMAIN cell = 1..Len(cell) /\ TableOf(o, a)
  BY DEF HeapTyped, TableOf
<1>2. /\ cell' = [cell EXCEPT ![a].first = first]
      /\ open' = open /\ game' = game /\ ticked' = ticked /\ table' = table
  BY DEF Rehashed, Rebuilt
<1>3. /\ DOMAIN cell' = DOMAIN cell /\ Len(cell') = Len(cell)
      /\ \A t \in DOMAIN cell :
           /\ t # a => cell'[t] = cell[t]
           /\ cell'[t].keys = cell[t].keys /\ cell'[t].value = cell[t].value
           /\ cell'[t].first \in {cell[t].first, first} /\ cell'[t].left = cell[t].left
           /\ DOMAIN cell'[t] = DOMAIN cell[t]
  BY <1>1, <1>2
<1>4. ASSUME NEW p \in Object, NEW t \in DOMAIN cell, TableOf(p, t)
      PROVE  TableOf(p, t)'
  BY <1>2, <1>3, <1>4 DEF TableOf
<1>5. HeapTyped'
  BY <1>1, <1>2, <1>3, <1>4 DEF HeapTyped, TableOf
<1>6. TablesGo
  BY <1>1, <1>2, <1>3, <1>4 DEF TablesGo
<1> QED
  BY <1>2, <1>3, <1>5, <1>6 DEF Values, HeapTyped, TableOf

\* The last entry of a table in use is one of its object.
LEMMA LastIs ==
  ASSUME HeapTyped, game = "runs", NEW o \in Object
  PROVE  /\ LastKey(table[o]) = FinalKey(o) /\ Last(table[o]) = Values(o)[FinalKey(o)]
         /\ LeftTyped(o, Last(table[o]))
<1>1. TableOf(o, table[o]) /\ cell[table[o]].keys = KeysOf(o)
  BY DEF HeapTyped, TableOf
<1>2. LastKey(table[o]) = FinalKey(o) /\ Last(table[o]) = Values(o)[FinalKey(o)]
  BY <1>1, KeysOfAre DEF LastKey, Last, Values
<1>3. CASE o = "mode"
  BY <1>2, <1>3, ValuesAre, ObjectsAre DEF LeftTyped, FinalKey, ModeTyped
<1>4. CASE o = "chrono"
  BY <1>2, <1>4, ValuesAre, ObjectsAre DEF LeftTyped, FinalKey, ChronoTyped
<1>5. CASE o \in World
  BY <1>2, <1>5, ValuesAre, ObjectsAre DEF LeftTyped, FinalKey, WorldTyped
<1> QED
  BY <1>2, <1>3, <1>4, <1>5, ObjectsAre

\* The entries of a table close up, and the last is left twice.
ClosesUp(t) ==
  /\ cell'[t].keys = cell[t].keys /\ cell'[t].value = cell[t].value
  /\ cell[t].first = 1 /\ cell'[t].first = 0
  /\ cell'[t].left = <<Last(t)>>

\* The entries of a table close up where it is.
LEMMA ShiftedTables ==
  ASSUME HeapTyped, NEW o \in Object, Shifted(o)
  PROVE  /\ HeapTyped' /\ TablesGo
         /\ \A p \in Object : Values(p)' = Values(p)
         /\ ClosesUp(table[o])
         /\ \A t \in DOMAIN cell : t # table[o] => cell'[t] = cell[t]
<1> DEFINE a == table[o]
<1>1. /\ a \in DOMAIN cell /\ DOMAIN cell[a] = {"keys", "first", "value", "left"}
      /\ Len(cell) \in Nat /\ DOMAIN cell = 1..Len(cell) /\ TableOf(o, a)
  BY DEF HeapTyped, TableOf
<1>2. /\ cell' = [cell EXCEPT ![a].first = 0, ![a].left = <<Last(a)>>]
      /\ open' = open /\ game' = game /\ table' = table /\ ticked' = ticked
      /\ cell[a].first = 1 /\ game = "runs"
  BY DEF Shifted, Rebuilt
<1>3. /\ DOMAIN cell' = DOMAIN cell /\ Len(cell') = Len(cell)
      /\ \A t \in DOMAIN cell : t # a => cell'[t] = cell[t]
      /\ cell'[a].keys = cell[a].keys /\ cell'[a].value = cell[a].value
      /\ cell'[a].first = 0 /\ cell'[a].left = <<Last(a)>>
      /\ DOMAIN cell'[a] = DOMAIN cell[a]
  BY <1>1, <1>2
<1>4. /\ cell'[a].left[1] = Last(a) /\ LeftTyped(o, Last(a))
      /\ cell'[a].left = <<cell'[a].left[1]>>
  <2>1. LeftTyped(o, Last(a))
    BY <1>2, LastIs
  <2>2. cell'[a].left[1] = Last(a)
    BY <1>3
  <2> QED
    BY <1>3, <2>1, <2>2
<1>5. ASSUME NEW p \in Object, NEW t \in DOMAIN cell, TableOf(p, t)
      PROVE  TableOf(p, t)'
  <2>1. CASE t # a
    BY <1>2, <1>3, <1>5, <2>1 DEF TableOf
  <2>2. CASE t = a
    <3>1. p = o
      BY <1>1, <1>2, <1>5, <2>2, TablesAreApart
    <3> QED
      BY <1>1, <1>2, <1>3, <1>4, <2>2, <3>1 DEF TableOf
  <2> QED
    BY <2>1, <2>2
<1>6. HeapTyped'
  <2>1. ASSUME NEW p \in Object PROVE TableOf(p, table[p])'
    <3>1. TableOf(p, table[p]) /\ table[p] \in DOMAIN cell /\ table'[p] = table[p]
      BY <1>2 DEF HeapTyped, TableOf
    <3> QED
      BY <1>5, <3>1
  <2> QED
    BY <1>1, <1>2, <1>3, <2>1 DEF HeapTyped
<1>7. TablesGo
  BY <1>1, <1>2, <1>3, <1>5 DEF TablesGo
<1>8. ASSUME NEW p \in Object PROVE Values(p)' = Values(p)
  BY <1>2, <1>3 DEF Values, HeapTyped, TableOf
<1>9. ClosesUp(a)
  BY <1>2, <1>3 DEF ClosesUp
<1> QED
  BY <1>3, <1>6, <1>7, <1>8, <1>9

\* A table is one no more.
LEMMA BlankedTables ==
  ASSUME HeapTyped, game # "recycled", game' = "recycled",
         UNCHANGED <<open, table, ticked>>, NEW o \in Object,
         cell' = [cell EXCEPT ![table[o]].keys = <<>>]
  PROVE  /\ HeapTyped' /\ TablesGo
         /\ \A p \in Object : Values(p)' = Values(p)
         /\ \A t \in DOMAIN cell :
              /\ t # table[o] => cell'[t] = cell[t]
              /\ cell'[t].keys \in {cell[t].keys, <<>>}
              /\ cell'[t].first = cell[t].first
              /\ cell'[t].left = cell[t].left
              /\ cell'[t].value = cell[t].value
         /\ cell'[table[o]].keys = <<>>
<1> DEFINE a == table[o]
<1>1. /\ a \in DOMAIN cell /\ DOMAIN cell[a] = {"keys", "first", "value", "left"}
      /\ Len(cell) \in Nat /\ DOMAIN cell = 1..Len(cell) /\ TableOf(o, a)
  BY DEF HeapTyped, TableOf
<1>3. /\ DOMAIN cell' = DOMAIN cell /\ Len(cell') = Len(cell)
      /\ \A t \in DOMAIN cell :
           /\ t # a => cell'[t] = cell[t]
           /\ cell'[t].keys \in {cell[t].keys, <<>>}
           /\ cell'[t].value = cell[t].value
           /\ cell'[t].first = cell[t].first /\ cell'[t].left = cell[t].left
           /\ DOMAIN cell'[t] = DOMAIN cell[t]
      /\ cell'[a].keys = <<>>
  BY <1>1
<1>4. ASSUME NEW p \in Object, NEW t \in DOMAIN cell, TableOf(p, t)
      PROVE  TableOf(p, t)'
  BY <1>3, <1>4 DEF TableOf, WorldTyped
<1>5. HeapTyped'
  BY <1>1, <1>3, <1>4 DEF HeapTyped, TableOf
<1>6. TablesGo
  BY <1>1, <1>3, <1>4 DEF TablesGo
<1> QED
  BY <1>3, <1>5, <1>6 DEF Values, HeapTyped, TableOf

-----------------------------------------------------------------------------
(* The memory: clocks *)

\* What a step of the memory leaves of the clocks.
ClocksGo ==
  /\ Clock <= Clock' /\ Time <= Time'
  /\ Now("mode", "duration") <= Now("mode", "duration")'
  /\ Now("mode", "fl_gameOver") => Now("mode", "fl_gameOver")'
  /\ Now("chrono", "gameTimer") <= Now("chrono", "gameTimer")'
  /\ Now("chrono", "haltedTimer")' \in {Now("chrono", "haltedTimer"), Time}
  /\ started' = started \/ (started = None /\ started' = Clock')
  /\ ended # None => ended' = ended

\* A world has its level until its memory is used again, or it is shown with
\* another.
WorldsGo ==
  /\ \A w \in World :
       \/ Now(w, "currentId")' \in {Now(w, "currentId"), Junk}
       \/ w = Home' /\ game' # "recycled"
  /\ game' = "recycled" => Home' = Home /\ Locked' = Locked /\ Remaining' = Remaining

\* The keys of a table stay in their slots, or it is one no more.
KeyStays(t) ==
  /\ cell'[t].first = cell[t].first /\ cell'[t].left = cell[t].left
  /\ cell'[t].keys \in {cell[t].keys, <<>>}

KeysStay == \A t \in DOMAIN cell : KeyStays(t)

\* The keys that are gone are those of a table an object has.
BlanksGo ==
  \A t \in DOMAIN cell :
    cell'[t].keys # cell[t].keys =>
      game # "recycled" /\ \E o \in Object : t = table[o] /\ table'[o] = table[o]

HeapGoes ==
  /\ TablesGo /\ BlanksGo /\ ClocksGo /\ WorldsGo /\ UseGoes
  /\ open' => open
  /\ game = "recycled" =>
       /\ game' = game /\ table' = table /\ cell' = cell
       /\ started' = started /\ ended' = ended

\* The time shown is Chrono.get().
LEMMA TimeIs ==
  ASSUME HeapTyped
  PROVE  /\ Time \in Int
         /\ Time = IF Stopped THEN Now("chrono", "haltedTimer")
                   ELSE Clock - Now("chrono", "gameTimer")
         /\ Truth.chrono = Time
BY ValuesAre DEF Time, Shows, Clock, Stopped, Now, Truth

\* Where no clock is written, all agree as they did.
LEMMA SameTimes ==
  ASSUME HeapTyped, HeapClocks, UNCHANGED <<ticked, started, ended>>,
         Clock' = Clock, Time' = Time, Locked' = Locked,
         Stopped' = Stopped, Remaining' = Remaining,
         Now("mode", "duration")' = Now("mode", "duration"),
         Now("mode", "fl_gameOver")' = Now("mode", "fl_gameOver"),
         Now("chrono", "gameTimer")' = Now("chrono", "gameTimer"),
         Now("chrono", "haltedTimer")' = Now("chrono", "haltedTimer")
  PROVE  HeapClocks' /\ ClocksGo
BY ValuesAre, TimeIs DEF HeapClocks, ClocksGo, Ahead

\* Where no table of the mode and its Chrono is written, all agree.
LEMMA SameClocks ==
  ASSUME HeapTyped, HeapClocks, UNCHANGED <<ticked, started, ended>>,
         Values("mode")' = Values("mode"), Values("chrono")' = Values("chrono")
  PROVE  HeapClocks' /\ ClocksGo
<1>1. /\ Clock' = Clock /\ Time' = Time /\ Locked' = Locked
      /\ Stopped' = Stopped /\ Remaining' = Remaining
      /\ Now("mode", "duration")' = Now("mode", "duration")
      /\ Now("mode", "fl_gameOver")' = Now("mode", "fl_gameOver")
      /\ Now("chrono", "gameTimer")' = Now("chrono", "gameTimer")
      /\ Now("chrono", "haltedTimer")' = Now("chrono", "haltedTimer")
  BY DEF Clock, Time, Locked, Stopped, Remaining, Now
<1> QED
  BY <1>1, SameTimes

\* What is left of the clocks, from what is written.
LEMMA WritesClocks ==
  ASSUME HeapTyped, NEW mode, NEW chrono, Writes(mode, chrono),
         ticked' \in BOOLEAN,
         ModeTyped(mode), DOMAIN mode = Properties("mode"),
         ChronoTyped(chrono), DOMAIN chrono = Properties("chrono")
  PROVE  /\ Clock' = chrono.frameTimer.is
         /\ Locked' = mode.fl_lock.is
         /\ Now("mode", "duration")' = mode.duration.is
         /\ Now("mode", "fl_gameOver")' = mode.fl_gameOver.is
         /\ Remaining' = mode.endModeTimer.is
         /\ Stopped' = chrono.fl_stop.is
         /\ Now("chrono", "haltedTimer")' = chrono.haltedTimer.is
         /\ Now("chrono", "gameTimer")' = chrono.gameTimer.is
         /\ Time' = Shows(chrono)
<1>1. Values("mode")' = mode /\ Values("chrono")' = chrono
  BY WritesTables
<1> QED
  BY <1>1 DEF Clock, Stopped, Now, Locked, Remaining, Time

\* What is written in the mode, and in its Chrono.
ModeWith(mode, lock, duration, over, remaining) ==
  /\ DOMAIN mode = Properties("mode")
  /\ mode.gameChrono = Values("mode").gameChrono
  /\ mode.world = Values("mode").world
  /\ mode.fl_lock = Bool(lock) /\ mode.duration = Number(duration)
  /\ mode.fl_gameOver = Bool(over) /\ mode.endModeTimer = Number(remaining)

ChronoWith(chrono, clock, stop, halted, timer) ==
  /\ DOMAIN chrono = Properties("chrono")
  /\ chrono.frameTimer = Number(clock)
  /\ chrono.fl_stop = Bool(stop) /\ chrono.haltedTimer = Number(halted)
  /\ chrono.gameTimer = Number(timer)

\* What is left of each clock.
Leaves(lock, duration, over, remaining, clock, stop, halted, timer) ==
  /\ TablesGo /\ KeysStay /\ BlanksGo /\ WorldsGo /\ UseGoes
  /\ open' = open /\ game' = game
  /\ Clock' = clock
  /\ Locked' = lock /\ Now("mode", "duration")' = duration
  /\ Now("mode", "fl_gameOver")' = over /\ Remaining' = remaining
  /\ Stopped' = stop /\ Now("chrono", "haltedTimer")' = halted
  /\ Now("chrono", "gameTimer")' = timer
  /\ stop => Time' = halted
  /\ ~ stop => Time' = clock - timer

\* A step leaves what its action says.
LEMMA WritesIs ==
  ASSUME HeapTyped, game = "runs", NEW mode, NEW chrono, Writes(mode, chrono),
         ticked' \in BOOLEAN,
         NEW lock \in BOOLEAN, NEW duration \in Nat, NEW over \in BOOLEAN,
         NEW remaining \in Nat, NEW clock \in Nat, NEW stop \in BOOLEAN, NEW halted \in Int,
         NEW timer \in Int,
         ModeWith(mode, lock, duration, over, remaining),
         ChronoWith(chrono, clock, stop, halted, timer)
  PROVE  HeapTyped' /\ Leaves(lock, duration, over, remaining, clock, stop, halted, timer)
<1>1. /\ ModeTyped(mode) /\ DOMAIN mode = Properties("mode")
      /\ mode.fl_lock.is = lock /\ mode.duration.is = duration
      /\ mode.fl_gameOver.is = over /\ mode.endModeTimer.is = remaining
  <2>1. /\ Bool(lock).is = lock /\ Bool(over).is = over
        /\ Number(duration).is = duration /\ Number(remaining).is = remaining
    BY DEF Bool, Number
  <2> QED
    BY <2>1, ValuesAre DEF ModeTyped, ModeWith
<1>2. /\ ChronoTyped(chrono) /\ DOMAIN chrono = Properties("chrono")
      /\ chrono.fl_stop.is = stop /\ chrono.haltedTimer.is = halted
      /\ chrono.gameTimer.is = timer /\ chrono.frameTimer.is = clock
  <2>1. /\ Bool(stop).is = stop
        /\ Number(halted).is = halted /\ Number(clock).is = clock /\ Number(timer).is = timer
    BY DEF Bool, Number
  <2> QED
    BY <2>1, ValuesAre DEF ChronoTyped, ChronoWith
<1>3. /\ HeapTyped' /\ TablesGo
      /\ \A w \in World : Values(w)' = Values(w)
      /\ \A t \in DOMAIN cell : cell'[t].keys = cell[t].keys
                                /\ cell'[t].first = cell[t].first
                                /\ cell'[t].left = cell[t].left
  BY <1>1, <1>2, WritesTables
<1>4. KeysStay /\ BlanksGo
  BY <1>3 DEF KeyStays, KeysStay, BlanksGo
<1>5. open' = open /\ game' = game
  BY DEF Writes
<1>6. WorldsGo /\ UseGoes
  BY <1>3, <1>5 DEF WorldsGo, UseGoes, Now
<1>7. /\ Clock' = clock
      /\ Locked' = lock /\ Now("mode", "duration")' = duration
      /\ Now("mode", "fl_gameOver")' = over /\ Remaining' = remaining
  BY <1>1, <1>2, WritesClocks
<1>8. /\ Stopped' = stop /\ Now("chrono", "haltedTimer")' = halted
      /\ Now("chrono", "gameTimer")' = timer
      /\ stop => Time' = halted
      /\ ~ stop => Time' = clock - timer
  BY <1>1, <1>2, WritesClocks DEF Shows
<1> QED
  BY <1>3, <1>4, <1>5, <1>6, <1>7, <1>8 DEF Leaves

\* The values that are left alone.
LEMMA ModeKept ==
  ASSUME HeapTyped
  PROVE  /\ ModeWith(Values("mode"), Locked, Now("mode", "duration"),
                     Now("mode", "fl_gameOver"), Remaining)
         /\ ChronoWith(Values("chrono"), Clock, Stopped, Now("chrono", "haltedTimer"),
                       Now("chrono", "gameTimer"))
BY ValuesAre DEF ModeWith, ChronoWith, ModeTyped, ChronoTyped, Locked, Stopped,
                 Remaining, Clock, Now

\* A frame begins with its clock.
LEMMA TickGoes ==
  ASSUME HeapTyped, HeapClocks, game = "runs", Tick
  PROVE  HeapTyped' /\ HeapClocks' /\ HeapGoes /\ KeysStay
<1>1. PICK duration, remaining, halted, timer, clock :
        /\ duration = Now("mode", "duration")
        /\ remaining = Remaining /\ halted = Now("chrono", "haltedTimer")
        /\ timer = Now("chrono", "gameTimer") /\ clock = Clock
  OBVIOUS
<1>2. PICK stop, lock, over : /\ stop = Stopped /\ lock = Locked
                              /\ over = Now("mode", "fl_gameOver")
  OBVIOUS
<1>3. PICK mode, chrono :
        /\ mode = Values("mode")
        /\ chrono = [Values("chrono") EXCEPT !.frameTimer = Number(Clock + 1)]
  OBVIOUS
<1>4. PICK next :
        next = clock + 1
  OBVIOUS
<1>5. /\ duration \in Nat /\ over \in BOOLEAN /\ remaining \in Nat
      /\ halted \in Int /\ timer \in Int /\ stop \in BOOLEAN /\ lock \in BOOLEAN
      /\ clock \in Nat
  BY <1>1, <1>2, ValuesAre
<1>6. next \in Nat
  BY <1>4, <1>5, HeapAssumption
<1>7. /\ ModeWith(Values("mode"), lock, duration, over, remaining)
      /\ ChronoWith(Values("chrono"), clock, stop, halted, timer)
  BY <1>1, <1>2, ModeKept
<1>8. /\ ModeWith(mode, lock, duration, over, remaining)
      /\ ChronoWith(chrono, next, stop, halted, timer)
  BY <1>1, <1>3, <1>4, <1>7, PropertiesAre DEF ModeWith, ChronoWith
<1>9. Writes(mode, chrono) /\ ticked' \in BOOLEAN
  BY <1>1, <1>3, <1>4 DEF HeapTyped, Tick
<1>10. HeapTyped' /\ Leaves(lock, duration, over, remaining, next, stop, halted, timer)
  BY <1>5, <1>6, <1>8, <1>9, WritesIs
<1>11. HeapClocks' /\ ClocksGo
  BY <1>1, <1>2, <1>4, <1>5, <1>6, <1>10, TimeIs, HeapAssumption, NothingAssumption
  DEF HeapClocks, ClocksGo, Leaves, Ahead, Tick, Writes
<1> QED
  BY <1>10, <1>11 DEF HeapGoes, Leaves

\* The rest of the frame: where the game is locked nothing is written.
LEMMA LockedGoes ==
  ASSUME HeapTyped, HeapClocks, game = "runs", Locked,
         Writes(Values("mode"), Values("chrono")),
         ~ ticked', ticked' \in BOOLEAN, UNCHANGED <<started, ended>>
  PROVE  HeapTyped' /\ HeapClocks' /\ HeapGoes /\ KeysStay
<1>1. PICK duration, remaining, halted, timer, clock :
        /\ duration = Now("mode", "duration")
        /\ remaining = Remaining /\ halted = Now("chrono", "haltedTimer")
        /\ timer = Now("chrono", "gameTimer") /\ clock = Clock
  OBVIOUS
<1>2. PICK stop, lock, over : /\ stop = Stopped /\ lock = Locked
                              /\ over = Now("mode", "fl_gameOver")
  OBVIOUS
<1>3. /\ duration \in Nat /\ over \in BOOLEAN /\ remaining \in Nat
      /\ halted \in Int /\ timer \in Int /\ stop \in BOOLEAN /\ lock \in BOOLEAN
      /\ clock \in Nat
  BY <1>1, <1>2, ValuesAre
<1>4. /\ ModeWith(Values("mode"), lock, duration, over, remaining)
      /\ ChronoWith(Values("chrono"), clock, stop, halted, timer)
  BY <1>1, <1>2, ModeKept
<1>5. /\ HeapTyped'
      /\ Leaves(lock, duration, over, remaining, clock, stop, halted, timer)
  BY <1>3, <1>4, WritesIs
<1>6. HeapClocks' /\ ClocksGo
  BY <1>1, <1>2, <1>3, <1>5, TimeIs DEF HeapClocks, ClocksGo, Leaves, Ahead
<1> QED
  BY <1>5, <1>6 DEF HeapGoes, Leaves

\* And elsewhere the duration goes on, and the cinematic.
LEMMA RunningGoes ==
  ASSUME HeapTyped, HeapClocks, game = "runs", Ahead = 1, ~ Locked,
         ~ Now("mode", "fl_gameOver"),
         NEW ends \in BOOLEAN, NEW mode,
         mode = [Values("mode") EXCEPT
                   !.duration = Number(Now("mode", "duration") + 1),
                   !.endModeTimer =
                      Number(IF Remaining = 0 THEN 0 ELSE Remaining - 1),
                   !.fl_gameOver = Bool(ends)],
         Writes(mode, Values("chrono")),
         ~ ticked', ticked' \in BOOLEAN, UNCHANGED <<started, ended>>
  PROVE  HeapTyped' /\ HeapClocks' /\ HeapGoes /\ KeysStay
<1>1. PICK duration, remaining, halted, timer, clock :
        /\ duration = Now("mode", "duration")
        /\ remaining = Remaining /\ halted = Now("chrono", "haltedTimer")
        /\ timer = Now("chrono", "gameTimer") /\ clock = Clock
  OBVIOUS
<1>2. PICK stop, lock, over : /\ stop = Stopped /\ lock = Locked
                              /\ over = Now("mode", "fl_gameOver")
  OBVIOUS
<1>3. PICK chrono : chrono = Values("chrono")
  OBVIOUS
<1>4. PICK later, less :
        /\ later = duration + 1
        /\ less = IF remaining = 0 THEN 0 ELSE remaining - 1
  OBVIOUS
<1>5. /\ duration \in Nat /\ over \in BOOLEAN /\ remaining \in Nat
      /\ halted \in Int /\ timer \in Int /\ stop \in BOOLEAN /\ lock \in BOOLEAN
      /\ clock \in Nat
  BY <1>1, <1>2, ValuesAre
<1>6. later \in Nat /\ less \in Nat
  BY <1>4, <1>5, HeapAssumption
<1>7. /\ ModeWith(Values("mode"), lock, duration, over, remaining)
      /\ ChronoWith(Values("chrono"), clock, stop, halted, timer)
  BY <1>1, <1>2, ModeKept
<1>8. /\ ModeWith(mode, lock, later, ends, less)
      /\ ChronoWith(chrono, clock, stop, halted, timer)
  BY <1>1, <1>3, <1>4, <1>7, PropertiesAre DEF ModeWith, ChronoWith
<1>9. Writes(mode, chrono) /\ ticked' \in BOOLEAN
  BY <1>1, <1>3, <1>4 DEF HeapTyped
<1>10. HeapTyped' /\ Leaves(lock, later, ends, less, clock, stop, halted, timer)
  <2>1. HeapTyped /\ game = "runs" /\ ends \in BOOLEAN
    OBVIOUS
  <2> QED
    BY ONLY <1>5, <1>6, <1>8, <1>9, <2>1, WritesIs
<1>11. HeapClocks' /\ ClocksGo
  BY <1>1, <1>2, <1>4, <1>5, <1>6, <1>10, TimeIs, HeapAssumption, NothingAssumption
  DEF HeapClocks, ClocksGo, Leaves, Ahead
<1> QED
  BY <1>10, <1>11 DEF HeapGoes, Leaves

LEMMA CountGoes ==
  ASSUME HeapTyped, HeapClocks, game = "runs", Count
  PROVE  HeapTyped' /\ HeapClocks' /\ HeapGoes /\ KeysStay
<1>1. ticked /\ ~ ticked' /\ ticked' \in BOOLEAN /\ UNCHANGED <<started, ended>>
  BY DEF Count
<1>2. CASE Locked /\ Writes(Values("mode"), Values("chrono"))
  BY <1>1, <1>2, LockedGoes
<1>3. ASSUME ~ Locked, NEW over \in {TRUE, Remaining = 1},
             Writes([Values("mode") EXCEPT
                       !.duration = Number(Now("mode", "duration") + 1),
                       !.endModeTimer =
                          Number(IF Remaining = 0 THEN 0 ELSE Remaining - 1),
                       !.fl_gameOver = Bool(over)],
                    Values("chrono"))
      PROVE  HeapTyped' /\ HeapClocks' /\ HeapGoes /\ KeysStay
  <2>1. Ahead = 1 /\ ~ Now("mode", "fl_gameOver")
    BY <1>1, <1>3 DEF Ahead, HeapClocks
  <2> QED
    BY <1>1, <1>3, <2>1, RunningGoes, Zenon
<1> QED
  BY <1>2, <1>3 DEF Count

\* The time starts from the unlock, which is its date.
LEMMA UnlockGoes ==
  ASSUME HeapTyped, HeapClocks, game = "runs", Unlock
  PROVE  HeapTyped' /\ HeapClocks' /\ HeapGoes /\ KeysStay
<1>1. PICK duration, remaining, halted, timer, clock :
        /\ duration = Now("mode", "duration")
        /\ remaining = Remaining /\ halted = Now("chrono", "haltedTimer")
        /\ timer = Now("chrono", "gameTimer") /\ clock = Clock
  OBVIOUS
<1>2. PICK stop, lock, over : /\ stop = Stopped /\ lock = Locked
                              /\ over = Now("mode", "fl_gameOver")
  OBVIOUS
<1>3. PICK mode, chrono :
        /\ mode = [Values("mode") EXCEPT !.fl_lock = Bool(FALSE)]
        /\ chrono = Values("chrono")
  OBVIOUS
<1>4. PICK no :
        no = FALSE
  OBVIOUS
<1>5. /\ duration \in Nat /\ over \in BOOLEAN /\ remaining \in Nat
      /\ halted \in Int /\ timer \in Int /\ stop \in BOOLEAN /\ lock \in BOOLEAN
      /\ clock \in Nat
  BY <1>1, <1>2, ValuesAre
<1>6. no \in BOOLEAN
  BY <1>4, <1>5, HeapAssumption
<1>7. /\ ModeWith(Values("mode"), lock, duration, over, remaining)
      /\ ChronoWith(Values("chrono"), clock, stop, halted, timer)
  BY <1>1, <1>2, ModeKept
<1>8. /\ ModeWith(mode, no, duration, over, remaining)
      /\ ChronoWith(chrono, clock, stop, halted, timer)
  BY <1>1, <1>3, <1>4, <1>7, PropertiesAre DEF ModeWith, ChronoWith
<1>9. Writes(mode, chrono) /\ ticked' \in BOOLEAN
  BY <1>1, <1>3, <1>4 DEF HeapTyped, Unlock, BetweenFrames
<1>10. HeapTyped' /\ Leaves(no, duration, over, remaining, clock, stop, halted, timer)
  BY <1>5, <1>6, <1>8, <1>9, WritesIs
<1>11. HeapClocks' /\ ClocksGo
  BY <1>1, <1>2, <1>4, <1>5, <1>6, <1>10, TimeIs, HeapAssumption, NothingAssumption
  DEF HeapClocks, ClocksGo, Leaves, Ahead, Unlock, BetweenFrames
<1> QED
  BY <1>10, <1>11 DEF HeapGoes, Leaves

\* The end is dated by what the cinematic has left.
LEMMA ElevatorGoes ==
  ASSUME HeapTyped, HeapClocks, game = "runs", Elevator
  PROVE  HeapTyped' /\ HeapClocks' /\ HeapGoes /\ KeysStay
<1>1. PICK duration, remaining, halted, timer, clock :
        /\ duration = Now("mode", "duration")
        /\ remaining = Remaining /\ halted = Now("chrono", "haltedTimer")
        /\ timer = Now("chrono", "gameTimer") /\ clock = Clock
  OBVIOUS
<1>2. PICK stop, lock, over : /\ stop = Stopped /\ lock = Locked
                              /\ over = Now("mode", "fl_gameOver")
  OBVIOUS
<1>3. PICK mode, chrono :
        /\ mode = [Values("mode") EXCEPT !.endModeTimer = Number(FULL)]
        /\ chrono = Values("chrono")
  OBVIOUS
<1>4. PICK full :
        full = FULL
  OBVIOUS
<1>5. /\ duration \in Nat /\ over \in BOOLEAN /\ remaining \in Nat
      /\ halted \in Int /\ timer \in Int /\ stop \in BOOLEAN /\ lock \in BOOLEAN
      /\ clock \in Nat
  BY <1>1, <1>2, ValuesAre
<1>6. full \in Nat
  BY <1>4, <1>5, HeapAssumption
<1>7. /\ ModeWith(Values("mode"), lock, duration, over, remaining)
      /\ ChronoWith(Values("chrono"), clock, stop, halted, timer)
  BY <1>1, <1>2, ModeKept
<1>8. /\ ModeWith(mode, lock, duration, over, full)
      /\ ChronoWith(chrono, clock, stop, halted, timer)
  BY <1>1, <1>3, <1>4, <1>7, PropertiesAre DEF ModeWith, ChronoWith
<1>9. Writes(mode, chrono) /\ ticked' \in BOOLEAN
  BY <1>1, <1>3, <1>4 DEF HeapTyped, Elevator, BetweenFrames
<1>10. HeapTyped' /\ Leaves(lock, duration, over, full, clock, stop, halted, timer)
  BY <1>5, <1>6, <1>8, <1>9, WritesIs
<1>11. HeapClocks' /\ ClocksGo
  BY <1>1, <1>2, <1>4, <1>5, <1>6, <1>10, TimeIs, HeapAssumption, NothingAssumption
  DEF HeapClocks, ClocksGo, Leaves, Ahead, Elevator, BetweenFrames
<1> QED
  BY <1>10, <1>11 DEF HeapGoes, Leaves

\* The Chrono stops at what it shows.
LEMMA PauseGoes ==
  ASSUME HeapTyped, HeapClocks, game = "runs", Pause
  PROVE  HeapTyped' /\ HeapClocks' /\ HeapGoes /\ KeysStay
<1>1. PICK duration, remaining, halted, timer, clock :
        /\ duration = Now("mode", "duration")
        /\ remaining = Remaining /\ halted = Now("chrono", "haltedTimer")
        /\ timer = Now("chrono", "gameTimer") /\ clock = Clock
  OBVIOUS
<1>2. PICK stop, lock, over : /\ stop = Stopped /\ lock = Locked
                              /\ over = Now("mode", "fl_gameOver")
  OBVIOUS
<1>3. PICK mode, chrono :
        /\ mode = [Values("mode") EXCEPT !.fl_lock = Bool(TRUE)]
        /\ chrono = [Values("chrono") EXCEPT
                !.fl_stop = Bool(TRUE),
                !.haltedTimer = Number(Clock - Now("chrono", "gameTimer"))]
  OBVIOUS
<1>4. PICK yes, held :
        yes = TRUE /\ held = clock - timer
  OBVIOUS
<1>5. /\ duration \in Nat /\ over \in BOOLEAN /\ remaining \in Nat
      /\ halted \in Int /\ timer \in Int /\ stop \in BOOLEAN /\ lock \in BOOLEAN
      /\ clock \in Nat
  BY <1>1, <1>2, ValuesAre
<1>6. yes \in BOOLEAN /\ held \in Int
  BY <1>4, <1>5, HeapAssumption
<1>7. /\ ModeWith(Values("mode"), lock, duration, over, remaining)
      /\ ChronoWith(Values("chrono"), clock, stop, halted, timer)
  BY <1>1, <1>2, ModeKept
<1>8. /\ ModeWith(mode, yes, duration, over, remaining)
      /\ ChronoWith(chrono, clock, yes, held, timer)
  BY <1>1, <1>3, <1>4, <1>7, PropertiesAre DEF ModeWith, ChronoWith
<1>9. Writes(mode, chrono) /\ ticked' \in BOOLEAN
  BY <1>1, <1>3, <1>4 DEF HeapTyped, Pause, BetweenFrames
<1>10. HeapTyped' /\ Leaves(yes, duration, over, remaining, clock, yes, held, timer)
  BY <1>5, <1>6, <1>8, <1>9, WritesIs
<1>11. HeapClocks' /\ ClocksGo
  BY <1>1, <1>2, <1>4, <1>5, <1>6, <1>10, TimeIs, HeapAssumption, NothingAssumption
  DEF HeapClocks, ClocksGo, Leaves, Ahead, Pause, BetweenFrames
<1> QED
  BY <1>10, <1>11 DEF HeapGoes, Leaves

\* The Chrono goes on from where it stood.
LEMMA ResumeGoes ==
  ASSUME HeapTyped, HeapClocks, game = "runs", Resume
  PROVE  HeapTyped' /\ HeapClocks' /\ HeapGoes /\ KeysStay
<1>1. PICK duration, remaining, halted, timer, clock :
        /\ duration = Now("mode", "duration")
        /\ remaining = Remaining /\ halted = Now("chrono", "haltedTimer")
        /\ timer = Now("chrono", "gameTimer") /\ clock = Clock
  OBVIOUS
<1>2. PICK stop, lock, over : /\ stop = Stopped /\ lock = Locked
                              /\ over = Now("mode", "fl_gameOver")
  OBVIOUS
<1>3. PICK mode, chrono :
        /\ mode = [Values("mode") EXCEPT !.fl_lock = Bool(FALSE)]
        /\ chrono = [Values("chrono") EXCEPT
                !.fl_stop = Bool(FALSE),
                !.gameTimer = Number(Clock - Now("chrono", "haltedTimer"))]
  OBVIOUS
<1>4. PICK no, since :
        no = FALSE /\ since = clock - halted
  OBVIOUS
<1>5. /\ duration \in Nat /\ over \in BOOLEAN /\ remaining \in Nat
      /\ halted \in Int /\ timer \in Int /\ stop \in BOOLEAN /\ lock \in BOOLEAN
      /\ clock \in Nat
  BY <1>1, <1>2, ValuesAre
<1>6. no \in BOOLEAN /\ since \in Int
  <2>1. no \in BOOLEAN
    BY <1>4
  <2>2. since \in Int
    BY <1>4, <1>5
  <2> QED
    BY <2>1, <2>2
<1>7. /\ ModeWith(Values("mode"), lock, duration, over, remaining)
      /\ ChronoWith(Values("chrono"), clock, stop, halted, timer)
  BY <1>1, <1>2, ModeKept
<1>8. /\ ModeWith(mode, no, duration, over, remaining)
      /\ ChronoWith(chrono, clock, no, halted, since)
  BY <1>1, <1>3, <1>4, <1>7, PropertiesAre DEF ModeWith, ChronoWith
<1>9. Writes(mode, chrono) /\ ticked' \in BOOLEAN
  BY <1>1, <1>3, <1>4 DEF HeapTyped, Resume, BetweenFrames
<1>10. HeapTyped' /\ Leaves(no, duration, over, remaining, clock, no, halted, since)
  BY <1>5, <1>6, <1>8, <1>9, WritesIs
<1>11. HeapClocks' /\ ClocksGo
  BY <1>1, <1>2, <1>4, <1>5, <1>6, <1>10, TimeIs, HeapAssumption, NothingAssumption
  DEF HeapClocks, ClocksGo, Leaves, Ahead, Resume, BetweenFrames
<1> QED
  BY <1>10, <1>11 DEF HeapGoes, Leaves

\* The moves that write no clock.
LEMMA GotoGoes ==
  ASSUME HeapTyped, HeapClocks, game = "runs", NEW id \in Id, Goto(id)
  PROVE  HeapTyped' /\ HeapClocks' /\ HeapGoes /\ KeysStay
<1> DEFINE w == Home
<1>1. PICK o \in World : o = Home
  BY ValuesAre DEF Home
<1>2. PICK v : v = [Values(o) EXCEPT !["currentId"] = Number(id)]
  OBVIOUS
<1>3. /\ UseGoes /\ game # "recycled" /\ UNCHANGED <<open, table, ticked, started, ended>>
      /\ cell' = Written(o, "currentId", Number(id)) /\ game' = game
  BY <1>1 DEF Goto, UseGoes, Home
<1>4. o \in Object /\ "currentId" \in Properties(o) /\ o # "mode" /\ o # "chrono"
  BY ObjectsAre, PropertiesAre
<1>5. WorldTyped(o, v, game')
  <2>1. WorldTyped(o, Values(o), game) /\ DOMAIN Values(o) = {"setName", "currentId"}
    BY ValuesAre, PropertiesAre
  <2>2. v.setName = Values(o).setName /\ v.currentId = Number(id)
    BY <1>2, <2>1
  <2> QED
    BY <1>3, <2>1, <2>2 DEF WorldTyped, Number, Id
<1>6. /\ HeapTyped' /\ TablesGo
      /\ \A p \in Object : p # o => Values(p)' = Values(p)
      /\ \A t \in DOMAIN cell : cell'[t].keys = cell[t].keys
                                /\ cell'[t].first = cell[t].first
                                /\ cell'[t].left = cell[t].left
  BY <1>2, <1>3, <1>4, <1>5, WrittenTables
<1>7. Values("mode")' = Values("mode") /\ Values("chrono")' = Values("chrono")
  BY <1>4, <1>6, ObjectsAre
<1>8. HeapClocks' /\ ClocksGo
  BY <1>3, <1>7, SameClocks
<1>9. KeysStay /\ BlanksGo
  BY <1>6 DEF KeyStays, KeysStay, BlanksGo
<1>10. Home' = o
  BY <1>1, <1>7 DEF Home, Now
<1>11. WorldsGo
  BY <1>3, <1>6, <1>10, ObjectsAre DEF WorldsGo, Now
<1> QED
  BY <1>3, <1>6, <1>8, <1>9, <1>11 DEF HeapGoes

\* The world that is shown changes, and each keeps its level.
LEMMA EnterGoes ==
  ASSUME HeapTyped, HeapClocks, game = "runs", NEW w \in World, Enter(w)
  PROVE  HeapTyped' /\ HeapClocks' /\ HeapGoes /\ KeysStay
<1>1. PICK v : v = [Values("mode") EXCEPT !["world"] = Reference(w)]
  OBVIOUS
<1>2. /\ UseGoes /\ game # "recycled" /\ UNCHANGED <<open, table, ticked, started, ended>>
      /\ cell' = Written("mode", "world", Reference(w)) /\ game' = game
  BY DEF Enter, UseGoes
<1>3. /\ "mode" \in Object /\ "world" \in Properties("mode")
      /\ "mode" # "chrono" /\ "mode" \notin World
  BY ObjectsAre, PropertiesAre
<1>4. /\ ModeTyped(Values("mode"))
      /\ DOMAIN Values("mode") = {"gameChrono", "world", "fl_lock", "duration",
                                  "fl_gameOver", "endModeTimer"}
  BY ValuesAre, PropertiesAre
<1>5. /\ v.world = Reference(w)
      /\ v.gameChrono = Values("mode").gameChrono
      /\ v.fl_lock = Values("mode").fl_lock
      /\ v.duration = Values("mode").duration
      /\ v.fl_gameOver = Values("mode").fl_gameOver
      /\ v.endModeTimer = Values("mode").endModeTimer
  BY <1>1, <1>4
<1>6. ModeTyped(v)
  BY <1>4, <1>5, ObjectsAre DEF ModeTyped
<1>7. /\ HeapTyped' /\ TablesGo /\ Values("mode")' = v
      /\ \A p \in Object : p # "mode" => Values(p)' = Values(p)
      /\ \A t \in DOMAIN cell : cell'[t].keys = cell[t].keys
                                /\ cell'[t].first = cell[t].first
                                /\ cell'[t].left = cell[t].left
  BY <1>1, <1>2, <1>3, <1>6, WrittenTables
<1>8. /\ Clock' = Clock /\ Time' = Time /\ Locked' = Locked
      /\ Stopped' = Stopped /\ Remaining' = Remaining
      /\ Now("mode", "duration")' = Now("mode", "duration")
      /\ Now("mode", "fl_gameOver")' = Now("mode", "fl_gameOver")
      /\ Now("chrono", "gameTimer")' = Now("chrono", "gameTimer")
      /\ Now("chrono", "haltedTimer")' = Now("chrono", "haltedTimer")
  BY <1>3, <1>5, <1>7, ObjectsAre DEF Clock, Time, Locked, Stopped, Remaining, Now
<1>9. HeapClocks' /\ ClocksGo
  BY <1>2, <1>8, SameTimes
<1>10. KeysStay /\ BlanksGo
  BY <1>7 DEF KeyStays, KeysStay, BlanksGo
<1>11. WorldsGo
  BY <1>2, <1>7, ObjectsAre DEF WorldsGo, Now
<1> QED
  BY <1>2, <1>7, <1>9, <1>10, <1>11 DEF HeapGoes

\* Where no value is written, no world is left, and no level.
LEMMA SameWorlds ==
  ASSUME \A o \in Object : Values(o)' = Values(o)
  PROVE  WorldsGo
BY ObjectsAre DEF WorldsGo, Now, Home, Locked, Remaining

\* A game that is left stays as it was.
LEMMA LeftGoes ==
  ASSUME HeapTyped, HeapClocks, Left
  PROVE  HeapTyped' /\ HeapClocks' /\ HeapGoes /\ KeysStay
<1>1. UseGoes /\ UNCHANGED <<open, table, cell, ticked, started, ended>> /\ game = "runs"
  BY DEF Left, UseGoes
<1>2. HeapTyped' /\ TablesGo /\ \A p \in Object : Values(p)' = Values(p)
  BY <1>1, KeptTables DEF HeapTyped
<1>3. HeapClocks' /\ ClocksGo
  BY <1>1, <1>2, SameClocks, ObjectsAre
<1>4. KeysStay /\ BlanksGo /\ WorldsGo
  BY <1>1, <1>2, SameWorlds DEF KeyStays, KeysStay, BlanksGo
<1> QED
  BY <1>1, <1>2, <1>3, <1>4 DEF HeapGoes

\* A player that closes leaves what was there, unreadable.
LEMMA ClosesGoes ==
  ASSUME HeapTyped, HeapClocks, Closes
  PROVE  HeapTyped' /\ HeapClocks' /\ HeapGoes /\ KeysStay
<1>1. UseGoes /\ UNCHANGED <<game, table, cell, ticked, started, ended>> /\ open' = FALSE
  BY DEF Closes, UseGoes
<1>2. HeapTyped' /\ TablesGo /\ \A p \in Object : Values(p)' = Values(p)
  BY <1>1, KeptTables
<1>3. HeapClocks' /\ ClocksGo
  BY <1>1, <1>2, SameClocks, ObjectsAre
<1>4. KeysStay /\ BlanksGo /\ WorldsGo
  BY <1>1, <1>2, SameWorlds DEF KeyStays, KeysStay, BlanksGo
<1> QED
  BY <1>1, <1>2, <1>3, <1>4 DEF HeapGoes

\* A table that moves leaves its values in both places.
LEMMA MovesGoes ==
  ASSUME HeapTyped, HeapClocks, NEW o \in Object, NEW first \in {0, 1},
         Moves(o, first)
  PROVE  HeapTyped' /\ HeapClocks' /\ HeapGoes /\ KeysStay
<1>1. UseGoes /\ UNCHANGED <<open, game, ticked, started, ended>> /\ game = "runs"
  BY DEF Moves, Rebuilt, UseGoes
<1>2. /\ HeapTyped' /\ TablesGo /\ \A p \in Object : Values(p)' = Values(p)
      /\ \A t \in DOMAIN cell : cell'[t] = cell[t]
  BY MovedTables
<1>3. HeapClocks' /\ ClocksGo
  BY <1>1, <1>2, SameClocks, ObjectsAre
<1>4. KeysStay /\ BlanksGo /\ WorldsGo
  BY <1>2, SameWorlds DEF KeyStays, KeysStay, BlanksGo
<1> QED
  BY <1>1, <1>2, <1>3, <1>4 DEF HeapGoes

\* A table built again where it is keeps its values.
LEMMA RehashedGoes ==
  ASSUME HeapTyped, HeapClocks, NEW o \in Object, NEW first \in {0, 1},
         Rehashed(o, first)
  PROVE  /\ HeapTyped' /\ HeapClocks' /\ HeapGoes
         /\ \A t \in DOMAIN cell : t # table[o] => KeyStays(t)
<1>1. UseGoes /\ UNCHANGED <<open, game, ticked, started, ended>> /\ game = "runs"
  BY DEF Rehashed, Rebuilt, UseGoes
<1>2. /\ HeapTyped' /\ TablesGo /\ \A p \in Object : Values(p)' = Values(p)
      /\ \A t \in DOMAIN cell : cell'[t].keys = cell[t].keys
      /\ \A t \in DOMAIN cell : t # table[o] => cell'[t] = cell[t]
  BY RehashedTables
<1>3. HeapClocks' /\ ClocksGo
  BY <1>1, <1>2, SameClocks, ObjectsAre
<1>4. BlanksGo /\ WorldsGo
  BY <1>2, SameWorlds DEF BlanksGo
<1>5. \A t \in DOMAIN cell : t # table[o] => KeyStays(t)
  BY <1>2 DEF KeyStays
<1> QED
  BY <1>1, <1>2, <1>3, <1>4, <1>5 DEF HeapGoes

\* Entries that close up keep their values.
LEMMA ShiftedGoes ==
  ASSUME HeapTyped, HeapClocks, NEW o \in Object, Shifted(o)
  PROVE  /\ HeapTyped' /\ HeapClocks' /\ HeapGoes
         /\ \A t \in DOMAIN cell : KeyStays(t) \/ ClosesUp(t)
<1>1. UseGoes /\ UNCHANGED <<open, game, ticked, started, ended>> /\ game = "runs"
  BY DEF Shifted, Rebuilt, UseGoes
<1>2. /\ HeapTyped' /\ TablesGo /\ \A p \in Object : Values(p)' = Values(p)
      /\ ClosesUp(table[o])
      /\ \A t \in DOMAIN cell : t # table[o] => cell'[t] = cell[t]
  BY ShiftedTables
<1>3. HeapClocks' /\ ClocksGo
  BY <1>1, <1>2, SameClocks, ObjectsAre
<1>4. \A t \in DOMAIN cell : KeyStays(t) \/ ClosesUp(t)
  BY <1>2 DEF KeyStays
<1>5. BlanksGo /\ WorldsGo
  <2>1. \A t \in DOMAIN cell : cell'[t].keys = cell[t].keys
    BY <1>2 DEF ClosesUp
  <2> QED
    BY <1>2, <2>1, SameWorlds DEF BlanksGo
<1> QED
  BY <1>1, <1>2, <1>3, <1>4, <1>5 DEF HeapGoes

\* A memory used again is one the reading stops at.
LEMMA RecycledGoes ==
  ASSUME HeapTyped, HeapClocks, Recycled
  PROVE  HeapTyped' /\ HeapClocks' /\ HeapGoes /\ KeysStay /\ Corrupt'
<1>1. /\ UseGoes /\ UNCHANGED <<open, table, ticked, started, ended>>
      /\ game' = "recycled" /\ game # "recycled"
  BY DEF Recycled, UseGoes
<1>2. PICK o \in {"mode", "chrono", Home} :
        \/ cell' = [cell EXCEPT ![table[o]].keys = <<>>]
        \/ o \in World /\ cell' = Written(o, "setName", String("menu"))
        \/ o \in World /\ cell' = Written(o, "currentId", Number(Junk))
  BY DEF Recycled, Home
<1>3. o \in Object /\ Home \in World
  BY ValuesAre, ObjectsAre DEF Home
<1>4. CASE cell' = [cell EXCEPT ![table[o]].keys = <<>>]
  <2>1. /\ HeapTyped' /\ TablesGo
        /\ \A p \in Object : Values(p)' = Values(p)
        /\ \A t \in DOMAIN cell :
             /\ t # table[o] => cell'[t] = cell[t]
             /\ cell'[t].keys \in {cell[t].keys, <<>>}
             /\ cell'[t].first = cell[t].first
             /\ cell'[t].left = cell[t].left
             /\ cell'[t].value = cell[t].value
        /\ cell'[table[o]].keys = <<>>
    BY <1>1, <1>3, <1>4, BlankedTables
  <2>2. HeapClocks' /\ ClocksGo
    BY <1>1, <2>1, SameClocks, ObjectsAre
  <2>3. KeysStay /\ WorldsGo
    BY <2>1, SameWorlds DEF KeyStays, KeysStay
  <2>4. BlanksGo
    BY <1>1, <1>3, <2>1 DEF BlanksGo
  <2>5. Home' = Home
    BY <2>1, ObjectsAre DEF Home, Now
  <2>6. Corrupt'
    BY <1>1, <1>2, <2>1, <2>5 DEF Corrupt, Blank
  <2> QED
    BY <1>1, <2>1, <2>2, <2>3, <2>4, <2>6 DEF HeapGoes
<1>5. ASSUME o \in World, NEW key \in {"setName", "currentId"}, NEW value,
             \/ key = "setName" /\ value = String("menu")
             \/ key = "currentId" /\ value = Number(Junk),
             cell' = Written(o, key, value)
      PROVE  HeapTyped' /\ HeapClocks' /\ HeapGoes /\ KeysStay /\ Corrupt'
  <2>1. PICK v : v = [Values(o) EXCEPT ![key] = value]
    OBVIOUS
  <2>2. o = Home /\ o # "mode" /\ o # "chrono" /\ key \in Properties(o)
    BY <1>2, <1>5, ObjectsAre, PropertiesAre
  <2>3. /\ WorldTyped(o, Values(o), game)
        /\ DOMAIN Values(o) = {"setName", "currentId"}
    BY <1>5, ValuesAre, PropertiesAre
  <2>4. \/ /\ v.setName = String("menu")
           /\ v.currentId = Values(o).currentId
        \/ v.setName = Values(o).setName /\ v.currentId = Number(Junk)
    BY <1>5, <2>1, <2>3
  <2>5. WorldTyped(o, v, game')
    BY <1>1, <2>3, <2>4 DEF WorldTyped, Number, Junk
  <2>6. /\ HeapTyped' /\ TablesGo
        /\ Values(o)'[key] = value
        /\ \A k \in Properties(o) : k # key => Values(o)'[k] = Values(o)[k]
        /\ \A p \in Object : p # o => Values(p)' = Values(p)
        /\ \A t \in DOMAIN cell : cell'[t].keys = cell[t].keys
                                  /\ cell'[t].first = cell[t].first
                                  /\ cell'[t].left = cell[t].left
    BY <1>1, <1>3, <1>5, <2>1, <2>2, <2>5, WrittenTables
  <2>7. Values("mode")' = Values("mode") /\ Values("chrono")' = Values("chrono")
    BY <2>2, <2>6, ObjectsAre
  <2>8. HeapClocks' /\ ClocksGo
    BY <1>1, <2>7, SameClocks
  <2>9. Home' = Home /\ Locked' = Locked /\ Remaining' = Remaining
    BY <2>7 DEF Home, Locked, Remaining, Now
  <2>10. /\ Now(o, "currentId")' \in {Now(o, "currentId"), Junk}
         /\ Now(o, "setName")' = "menu" \/ Now(o, "currentId")' = Junk
    <3>1. CASE key = "setName"
      BY <1>5, <2>2, <2>6, <3>1, PropertiesAre DEF Now, String
    <3>2. CASE key = "currentId"
      BY <1>5, <2>2, <2>6, <3>2, PropertiesAre DEF Now, Number
    <3> QED
      BY <3>1, <3>2
  <2>11. WorldsGo
    BY <2>6, <2>9, <2>10, ObjectsAre DEF WorldsGo, Now
  <2>12. KeysStay /\ BlanksGo
    BY <2>6 DEF KeyStays, KeysStay, BlanksGo
  <2>13. Corrupt'
    BY <2>2, <2>9, <2>10 DEF Corrupt
  <2> QED
    BY <1>1, <2>6, <2>8, <2>11, <2>12, <2>13 DEF HeapGoes
<1> QED
  BY <1>2, <1>4, <1>5

\* Every move of the memory.  A table that is rebuilt where it is keeps its
\* slots or closes up in Ruffle, and in Pepper Flash it is not the one whose
\* value is about to be read.
LEMMA HeapStep ==
  ASSUME HeapTyped, HeapClocks, HeapMoves, ~ torn',
         player \in {"pepper", "ruffle"}
  PROVE  /\ HeapTyped' /\ HeapClocks' /\ HeapGoes
         /\ player = "ruffle" =>
              \A t \in DOMAIN cell : KeyStays(t) \/ ClosesUp(t)
         /\ player = "pepper" /\ phase = "value" =>
              \A t \in DOMAIN cell : t = base => KeyStays(t)
         /\ game' = "recycled" /\ game # "recycled" => Corrupt'
         /\ player = "pepper" => table'["mode"] = table["mode"]
<1>1. CASE TimePasses
  <2>1. game = "runs" /\ (Tick \/ Count \/ Unlock \/ Elevator \/ Pause \/ Resume)
    BY <1>1 DEF TimePasses
  <2>2. table' = table /\ game' = game
    BY <2>1 DEF Tick, Count, Unlock, Elevator, Pause, Resume, BetweenFrames, Writes
  <2>3. HeapTyped' /\ HeapClocks' /\ HeapGoes /\ KeysStay
    BY <2>1, TickGoes, CountGoes, UnlockGoes, ElevatorGoes, PauseGoes, ResumeGoes
  <2> QED
    BY <2>1, <2>2, <2>3 DEF KeysStay
<1>2. CASE Left
  BY <1>2, LeftGoes DEF Left, KeysStay
<1>3. CASE Recycled
  BY <1>3, RecycledGoes DEF Recycled, KeysStay
<1>4. CASE PlayerMoves
  <2>1. game = "runs" /\ ((\E id \in Id : Goto(id)) \/ \E w \in World : Enter(w))
    BY <1>4 DEF PlayerMoves
  <2>2. table' = table /\ game' = game
    BY <2>1 DEF Goto, Enter
  <2> QED
    BY <2>1, <2>2, GotoGoes, EnterGoes DEF KeysStay
<1>5. CASE Closes
  BY <1>5, ClosesGoes DEF Closes, KeysStay
<1>6. CASE Rebuilds
  <2>1. PICK o \in Object, first \in {0, 1} :
          \/ player = "ruffle" /\ (Moves(o, first) \/ Shifted(o))
          \/ player = "pepper" /\ o # "mode" /\ Moves(o, first)
          \/ /\ player = "pepper" /\ Rehashed(o, first)
             /\ torn' = (torn \/ (phase = "value" /\ table[o] = base))
    <3>1. PICK o \in Object :
            LET first == cell[table[o]].first IN
            \/ player = "ruffle" /\ (Moves(o, first) \/ Shifted(o))
            \/ player = "pepper" /\ o # "mode" /\ Moves(o, 1 - first)
            \/ /\ player = "pepper" /\ Rehashed(o, 1 - first)
               /\ torn' = (torn \/ (phase = "value" /\ table[o] = base))
      BY <1>6 DEF Rebuilds
    <3>2. /\ cell[table[o]].first \in {0, 1}
          /\ 1 - cell[table[o]].first \in {0, 1}
      BY DEF HeapTyped, TableOf
    <3> QED
      BY <3>1, <3>2
  <2>2. game' = game /\ game = "runs"
    BY <2>1 DEF Moves, Shifted, Rehashed, Rebuilt
  <2>3. CASE Moves(o, first)
    <3>1. HeapTyped' /\ HeapClocks' /\ HeapGoes /\ KeysStay
      BY <2>3, MovesGoes
    <3>2. player = "pepper" => table'["mode"] = table["mode"]
      <4>1. CASE player = "ruffle"
        BY <4>1
      <4>2. CASE o # "mode"
        BY <2>3, <4>2, ObjectsAre DEF Moves, HeapTyped
      <4>3. CASE player = "pepper" /\ Rehashed(o, first)
        BY <4>3 DEF Rehashed
      <4> QED
        BY <2>1, <4>1, <4>2, <4>3
    <3> QED
      BY <2>2, <3>1, <3>2 DEF KeysStay
  <2>4. CASE player = "ruffle" /\ Shifted(o)
    BY <2>2, <2>4, ShiftedGoes
  <2>5. CASE /\ player = "pepper" /\ Rehashed(o, first)
             /\ torn' = (torn \/ (phase = "value" /\ table[o] = base))
    <3>1. /\ HeapTyped' /\ HeapClocks' /\ HeapGoes
          /\ \A t \in DOMAIN cell : t # table[o] => KeyStays(t)
      BY <2>5, RehashedGoes
    <3>2. phase = "value" => table[o] # base
      BY <2>5
    <3>3. table' = table
      BY <2>5 DEF Rehashed
    <3> QED
      BY <2>2, <2>5, <3>1, <3>2, <3>3
  <2> QED
    BY <2>1, <2>3, <2>4, <2>5
<1> QED
  BY <1>1, <1>2, <1>3, <1>4, <1>5, <1>6 DEF HeapMoves

-----------------------------------------------------------------------------
(* The types of the reader, under a move of the memory *)

\* A property is asked of the mode, its Chrono or a world.
LEMMA OwnersTyped ==
  ASSUME step \in Key
  PROVE  Owner(step) \in {"mode", "chrono", "world"}
BY OwnersAre, KeysAre

\* The table the reader is at stays one of its object.
LEMMA SearchingAfterAMove ==
  ASSUME TInv, HeapClocks, HeapMoves, ~ torn',
         UNCHANGED <<player, reader>>, step \in Key, phase # "follow"
  PROVE  Searching'
<1>1. PICK kind, o : kind = Owner(step) /\ o = Subject(kind)
  OBVIOUS
<1>2. /\ o \in Object
      /\ player = "ruffle" => at[kind] = o
      /\ TableOf(o, Base(kind))
      /\ phase = "value" =>
           /\ TableOf(o, base)
           /\ Blank(base) => Blank(Base(kind))
           /\ player = "pepper" =>
                /\ base = at[kind]
                /\ Blank(base) \/ (slot \in 0..(Length(base) - 1)
                                   /\ KeyAt(base, slot) = step)
           /\ player = "ruffle" /\ ~ Blank(base) =>
                \/ length = Length(base)
                \/ length = Length(base) + 1 /\ cell[base].left # <<>>
                   /\ cell[base].first = 0
  BY <1>1 DEF TInv, ReaderTyped, Searching
<1>3. HeapTyped /\ player \in {"pepper", "ruffle"}
  BY DEF TInv, ReaderTyped
<1>4. /\ HeapTyped' /\ HeapGoes
      /\ player = "ruffle" =>
           \A t \in DOMAIN cell : KeyStays(t) \/ ClosesUp(t)
      /\ player = "pepper" /\ phase = "value" =>
           \A t \in DOMAIN cell : t = base => KeyStays(t)
  BY <1>3, HeapStep
<1>5. /\ player' = player /\ step' = step /\ phase' = phase /\ at' = at
      /\ base' = base /\ slot' = slot /\ length' = length /\ got' = got /\ Owner(step)' = kind
  BY <1>1 DEF reader, Owner
<1>6. Subject(kind)' = o
  BY <1>1, <1>5 DEF Subject
<1>7. PICK b : b = Base(kind)'
  OBVIOUS
<1>8. /\ player = "pepper" => b = at[kind] /\ b = Base(kind)
      /\ player = "ruffle" => b = table'[o]
  BY <1>2, <1>5, <1>7 DEF Base
<1>9. \A t : TableOf(o, t) => TableOf(o, t)' /\ t \in DOMAIN cell
  BY <1>2, <1>4 DEF HeapGoes, TablesGo, TableOf
<1>10. TableOf(o, b)'
  <2>1. CASE player = "pepper"
    BY <1>2, <1>8, <1>9, <2>1
  <2>2. CASE player = "ruffle"
    <3>1. TableOf(o, table[o])'
      BY <1>2, <1>4 DEF HeapTyped
    <3> QED
      BY <1>8, <2>2, <3>1
  <2> QED
    BY <1>3, <2>1, <2>2
<1>11. ASSUME phase = "value", Blank(base)'
       PROVE  cell'[b].keys = <<>>
  <2>1. base \in DOMAIN cell /\ TableOf(o, base)
    BY <1>2, <1>9, <1>11
  <2>2. CASE cell'[base].keys = cell[base].keys
    <3>1. Blank(base)
      BY <1>5, <1>11, <2>2 DEF Blank
    <3>2. Blank(Base(kind)) /\ game = "recycled"
      BY <1>2, <1>11, <2>1, <3>1 DEF Blank, TableOf
    <3>3. cell' = cell /\ table' = table
      BY <1>4, <3>2 DEF HeapGoes
    <3>4. b = Base(kind)
      BY <1>5, <1>7, <3>3 DEF Base
    <3> QED
      BY <3>2, <3>3, <3>4 DEF Blank
  <2>3. CASE cell'[base].keys # cell[base].keys
    <3>1. PICK p \in Object :
            game # "recycled" /\ base = table[p] /\ table'[p] = table[p]
      BY <1>4, <2>1, <2>3 DEF HeapGoes, BlanksGo
    <3>2. p = o
      BY <1>2, <1>3, <2>1, <3>1, TablesAreApart DEF HeapTyped
    <3>3. b = base
      BY <1>2, <1>3, <1>8, <1>11, <3>1, <3>2
    <3> QED
      BY <1>5, <1>11, <3>3 DEF Blank
  <2> QED
    BY <2>2, <2>3
<1>12. ASSUME phase = "value", player = "pepper"
       PROVE  (Blank(base) \/ (slot \in 0..(Length(base) - 1)
                                /\ KeyAt(base, slot) = step))'
  <2>1. base \in DOMAIN cell
    BY <1>2, <1>9, <1>12
  <2>2. /\ cell'[base].first = cell[base].first
        /\ cell'[base].left = cell[base].left
        /\ cell'[base].keys \in {cell[base].keys, <<>>}
    BY <1>4, <1>12, <2>1 DEF KeyStays
  <2> QED
    BY <1>2, <1>5, <1>12, <2>2 DEF Blank, KeyAt, Length, LastKey
<1>13. /\ TableOf(Subject(kind), Base(kind))'
       /\ phase = "value" => TableOf(Subject(kind), base)'
       /\ phase = "value" => (Blank(base)' => Blank(Base(kind))')
  <2>1. TableOf(Subject(kind), Base(kind))'
    BY <1>6, <1>7, <1>10 DEF TableOf
  <2>2. ASSUME phase = "value" PROVE TableOf(Subject(kind), base)'
    <3>1. TableOf(o, base)
      BY <1>2, <2>2
    <3>2. PICK t : t = base
      OBVIOUS
    <3>3. TableOf(o, t)'
      BY <1>9, <3>1, <3>2
    <3> QED
      BY <1>5, <1>6, <3>2, <3>3 DEF TableOf
  <2>3. ASSUME phase = "value", Blank(base)' PROVE Blank(Base(kind))'
    BY <1>7, <1>11, <2>3 DEF Blank
  <2> QED
    BY <2>1, <2>2, <2>3
<1>14. ASSUME phase = "value", player = "ruffle", ~ Blank(base)'
       PROVE  (\/ length = Length(base)
               \/ length = Length(base) + 1 /\ cell[base].left # <<>>
                  /\ cell[base].first = 0)'
  <2>1. base \in DOMAIN cell /\ TableOf(o, base)
    BY <1>2, <1>9, <1>14
  <2>2. CASE KeyStays(base)
    BY <1>2, <1>5, <1>14, <2>2 DEF KeyStays, Blank, Length
  <2>3. CASE ClosesUp(base)
    <3>1. Len(cell[base].keys) \in Nat /\ ~ Blank(base)
      BY <1>2, <1>5, <1>14, <2>1, <2>3, KeysOfAre DEF TableOf, ClosesUp, Blank
    <3>2. length = Length(base) /\ Length(base) = 1 + Len(cell[base].keys)
      BY <1>2, <1>14, <2>3, <3>1 DEF ClosesUp, Length
    <3>3. Length(base)' = Len(cell[base].keys) /\ cell'[base].first = 0
      BY <1>5, <2>3, <3>1 DEF ClosesUp, Length
    <3>4. cell'[base].left # <<>>
      BY <2>3 DEF ClosesUp
    <3> QED
      BY <1>5, <3>1, <3>2, <3>3, <3>4
  <2> QED
    BY <1>4, <1>14, <2>1, <2>2, <2>3
<1> QED
  BY <1>2, <1>5, <1>6, <1>12, <1>13, <1>14 DEF Searching

\* No move of the memory changes the shape of what the reader has.
LEMMA ReaderAfterAMove ==
  ASSUME TInv, HeapClocks, HeapMoves, ~ torn',
         UNCHANGED <<player, reader>>
  PROVE  TInv'
<1>1. HeapTyped /\ ReaderTyped /\ NoneIsGone
  BY DEF TInv
<1>2. /\ HeapTyped' /\ HeapGoes
      /\ player = "pepper" => table'["mode"] = table["mode"]
  BY <1>1, HeapStep DEF ReaderTyped
<1>3. /\ player' = player /\ step' = step /\ phase' = phase /\ at' = at
      /\ base' = base /\ slot' = slot /\ got' = got /\ hint' = hint
  BY DEF reader
<1>4. step \in Key /\ phase # "follow" => Searching'
  BY SearchingAfterAMove
<1>5. ReaderTyped'
  BY <1>1, <1>2, <1>3, <1>4 DEF ReaderTyped
<1>6. NoneIsGone'
  BY <1>1, <1>2, <1>3 DEF NoneIsGone, HeapGoes
<1> QED
  BY <1>2, <1>5, <1>6 DEF TInv

-----------------------------------------------------------------------------
(* What was seen, under a move of the memory *)

ModeNowSeen == ModeSeen(Values("mode"))
ChronoNowSeen == ChronoSeen(Values("chrono"))

\* The clocks are numbers, and the Chrono is not ahead of the player.
LEMMA ClocksAgree ==
  ASSUME HeapTyped, HeapClocks
  PROVE  /\ Time \in Int /\ Clock \in Nat /\ Time <= Clock
         /\ Clock - Now("chrono", "gameTimer") >= Time
         /\ Now("mode", "duration") \in Nat
         /\ started # None => started \in Nat
         /\ ended # None => ended \in Nat
BY ValuesAre, TimeIs DEF HeapClocks

\* What is true now was true since the reading began.
LEMMA NowIsSeen ==
  ASSUME HeapTyped, HeapClocks, HistorySeen, ClocksRead
  PROVE  ModeNowSeen /\ ChronoNowSeen
<1> DEFINE m == Values("mode")
           c == Values("chrono")
<1>1. /\ m.fl_lock.is = Locked /\ m.duration.is = Now("mode", "duration")
      /\ m.fl_gameOver.is = Now("mode", "fl_gameOver")
      /\ m.endModeTimer.is = Remaining /\ m.world.is = Home
      /\ c.frameTimer.is = Clock /\ c.fl_stop.is = Stopped
      /\ c.haltedTimer.is = Now("chrono", "haltedTimer")
      /\ c.gameTimer.is = Now("chrono", "gameTimer")
  BY DEF Locked, Remaining, Home, Clock, Stopped, Now
<1>2. ModeTyped(m) /\ ChronoTyped(c) /\ Locked \in BOOLEAN
  BY ValuesAre
<1>3. /\ Time \in Int /\ Clock \in Nat /\ Time <= Clock
      /\ Time = IF Stopped THEN Now("chrono", "haltedTimer")
                ELSE Clock - Now("chrono", "gameTimer")
      /\ Now("mode", "duration") \in Nat /\ Remaining \in Nat
      /\ Now("chrono", "gameTimer") \in Int
  BY ClocksAgree, TimeIs, ValuesAre
<1>4. ModeSeen(m)
  <2>1. /\ m.fl_lock.is \in locks
        /\ ~ m.fl_lock.is => started # None
        /\ m.endModeTimer.is \in remainings
    BY <1>1 DEF HistorySeen, HeapClocks
  <2>2. /\ Between(before.duration, m.duration.is, Now("mode", "duration"))
        /\ before.over => m.fl_gameOver.is
        /\ m.fl_gameOver.is => Now("mode", "fl_gameOver")
        /\ Shown(m.world.is, Now(m.world.is, "currentId"))
    BY <1>1, <1>3 DEF HistorySeen, Between, Home
  <2>3. TimeRead => Timely(m.duration.is)
    BY <1>1, <1>3 DEF ClocksRead, Timely, HeapClocks, Between, Ahead
  <2>4. ClockRead => Ending(m.endModeTimer.is)
    BY <1>1, <1>3, HeapAssumption DEF ClocksRead, Ending, Ends, HeapClocks, Between, Ahead
  <2> QED
    BY <2>1, <2>2, <2>3, <2>4 DEF ModeSeen
<1>5. ChronoSeen(c)
  <2>1. /\ Between(before.frame, c.frameTimer.is, Clock)
        /\ ClockRead => got["frameTimer"] <= c.frameTimer.is
        /\ c.gameTimer.is <= Now("chrono", "gameTimer")
    BY <1>1, <1>3 DEF HistorySeen, ClocksRead, Between
  <2>2. ~ c.fl_stop.is => c.frameTimer.is - c.gameTimer.is <= Time
    BY <1>1, <1>3
  <2>3. c.fl_stop.is => Halted(c)
    BY <1>1, <1>3 DEF HistorySeen, Halted, Between
  <2> QED
    BY <2>1, <2>2, <2>3 DEF ChronoSeen
<1> QED
  BY <1>4, <1>5 DEF ModeNowSeen, ChronoNowSeen

\* What the reader has, and what is shown, under a move of the memory.
ReaderWaits ==
  /\ TInv /\ HeapClocks /\ HeapMoves /\ ~ torn'
  /\ UNCHANGED <<player, reader, before>>
  /\ IF game' = "recycled" THEN UNCHANGED <<shown, locks, remainings>>
     ELSE /\ shown' = shown \cup {Truth'.level}
          /\ locks' = locks \cup {Truth'.lock}
          /\ remainings' = remainings \cup {Truth'.remaining}

\* The level that is shown is the one of the world that is shown.
LEMMA HomeIs ==
  ASSUME HeapTyped
  PROVE  /\ Home \in World
         /\ game # "recycled" => Now(Home, "setName") = Title(Home)
         /\ Truth.level = <<Now(Home, "setName"), Now(Home, "currentId")>>
         /\ Truth.lock = Locked /\ Truth.remaining = Remaining
<1>1. Home \in World /\ WorldTyped(Home, Values(Home), game)
  BY ValuesAre DEF Home
<1> QED
  BY <1>1 DEF WorldTyped, String, Now, Home, Truth

\* What was true when the reading began stays behind what is.
LEMMA HistoryAfterAMove ==
  ASSUME ReaderWaits, HistorySeen
  PROVE  /\ HistorySeen' /\ shown \subseteq shown' /\ locks \subseteq locks'
         /\ remainings \subseteq remainings'
<1>1. /\ HeapTyped /\ HeapClocks /\ HeapTyped' /\ HeapClocks' /\ HeapGoes
      /\ before' = before
  BY HeapStep DEF ReaderWaits, TInv, ReaderTyped
<1>2. /\ shown \subseteq shown' /\ locks \subseteq locks'
      /\ remainings \subseteq remainings'
  BY DEF ReaderWaits
<1>3. /\ Clock \in Nat /\ Time \in Int /\ Now("mode", "duration") \in Nat
      /\ Home \in World
  BY <1>1, ClocksAgree, HomeIs
<1>4. (HeapTyped /\ HeapClocks
       => /\ Clock \in Nat /\ Time \in Int /\ Now("mode", "duration") \in Nat)'
  BY ClocksAgree, PTL
<1>5. (HeapTyped =>
       /\ Home \in World
       /\ game # "recycled" => Now(Home, "setName") = Title(Home)
       /\ Truth.level = <<Now(Home, "setName"), Now(Home, "currentId")>>
       /\ Truth.lock = Locked /\ Truth.remaining = Remaining)'
  BY HomeIs, PTL
<1>6. /\ before.frame <= Clock' /\ before.chrono <= Time'
      /\ before.duration <= Now("mode", "duration")'
      /\ before.over => Now("mode", "fl_gameOver")'
  BY <1>1, <1>3, <1>4 DEF HistorySeen, HeapGoes, ClocksGo
<1>7. Locked' \in locks' /\ Remaining' \in remainings'
  <2>1. CASE game' = "recycled"
    BY <1>1, <1>2, <2>1 DEF HistorySeen, HeapGoes, WorldsGo
  <2>2. CASE game' # "recycled"
    BY <1>1, <1>5, <2>2 DEF ReaderWaits
  <2> QED
    BY <2>1, <2>2
<1>8. Shown(Home, Now(Home, "currentId"))'
  <2>1. CASE game' = "recycled"
    <3>1. PICK w \in World : w = Home /\ w = Home'
      BY <1>1, <1>3, <2>1 DEF HeapGoes, WorldsGo
    <3>2. Shown(w, Now(w, "currentId"))
      BY <3>1 DEF HistorySeen, Home
    <3>3. Now(w, "currentId")' \in {Now(w, "currentId"), Junk}
      BY <1>1, <2>1 DEF HeapGoes, WorldsGo
    <3> QED
      BY <1>2, <3>1, <3>2, <3>3 DEF Shown
  <2>2. CASE game' # "recycled"
    BY <1>1, <1>5, <2>2 DEF ReaderWaits, Shown
  <2> QED
    BY <2>1, <2>2
<1> QED
  BY <1>1, <1>2, <1>6, <1>7, <1>8 DEF HistorySeen, Home

\* The level a world has was shown, and is again.
LEMMA WorldStaysSeen ==
  ASSUME ReaderWaits, HistorySeen, NEW w \in World, Shown(w, Now(w, "currentId"))
  PROVE  Shown(w, Now(w, "currentId"))'
<1>1. HeapGoes /\ shown \subseteq shown' /\ HistorySeen'
  BY HeapStep, HistoryAfterAMove DEF ReaderWaits, TInv, ReaderTyped
<1>2. CASE w = Home'
  <2>1. Shown(Home, Now(Home, "currentId"))'
    BY <1>1 DEF HistorySeen, Home
  <2> QED
    BY <1>2, <2>1 DEF Shown
<1>3. CASE w # Home'
  BY <1>1, <1>3 DEF HeapGoes, WorldsGo, Shown
<1> QED
  BY <1>2, <1>3

\* The clocks after a move.
LEMMA ClocksAgreeNext ==
  ASSUME ReaderWaits
  PROVE  /\ Time \in Int /\ Clock \in Nat /\ Now("mode", "duration") \in Nat
         /\ Time' \in Int /\ Clock' \in Nat /\ Now("mode", "duration")' \in Nat
         /\ Now("chrono", "gameTimer") \in Int
         /\ Now("chrono", "gameTimer")' \in Int
         /\ Time <= Clock /\ Time' <= Clock'
         /\ started = None => Now("mode", "duration") = 0
         /\ started' # None =>
              Between(Time' - 1, started' + Now("mode", "duration")', Time')
         /\ started # None => started \in Nat
         /\ started' # None => started' \in Nat
         /\ ended # None => ended \in Nat
         /\ HeapTyped' /\ HeapClocks' /\ HeapGoes
<1>1. /\ HeapTyped /\ HeapClocks /\ HeapTyped' /\ HeapClocks' /\ HeapGoes
  BY HeapStep DEF ReaderWaits, TInv, ReaderTyped
<1>2. (HeapTyped /\ HeapClocks
       => /\ Clock \in Nat /\ Time \in Int /\ Now("mode", "duration") \in Nat
          /\ Time <= Clock /\ (started # None => started \in Nat))'
  BY ClocksAgree, PTL
<1>3. (HeapTyped => Now("chrono", "gameTimer") \in Int)'
  BY ValuesAre, PTL
<1> QED
  BY <1>1, <1>2, <1>3, ClocksAgree, ValuesAre DEF HeapClocks, Ahead, Between

\* The reader keeps what it read, and a clock never goes back.
LEMMA TimelyStays ==
  ASSUME ReaderWaits, NEW d \in Nat, d <= Now("mode", "duration"), Timely(d),
         ReadTime \in Int, ReadTime <= Time
  PROVE  Timely(d)'
<1>1. ReadTime' = ReadTime
  BY DEF ReaderWaits, reader, ReadTime, State
<1> QED
  BY <1>1, ClocksAgreeNext DEF Timely, Between, HeapGoes, ClocksGo

\* What was left of the cinematic stays in agreement with the clock.
LEMMA EndingStays ==
  ASSUME ReaderWaits, NEW r \in Nat, Ending(r), got["frameTimer"] \in Nat
  PROVE  Ending(r)'
<1>1. got' = got
  BY DEF ReaderWaits, reader
<1> QED
  BY <1>1, ClocksAgreeNext, HeapAssumption
  DEF Ending, Ends, Between, HeapGoes, ClocksGo

\* What a table of a GameMode held stays seen, however the game goes on.
LEMMA ModeStaysSeen ==
  ASSUME ReaderWaits, HistorySeen, ClocksRead, NEW v, ModeTyped(v), ModeSeen(v)
  PROVE  ModeSeen(v)'
<1>1. /\ HeapGoes /\ locks \subseteq locks' /\ remainings \subseteq remainings'
      /\ step' = step /\ phase' = phase
      /\ before' = before
  BY ClocksAgreeNext, HistoryAfterAMove DEF ReaderWaits, reader
<1>2. v.duration.is \in Nat /\ v.endModeTimer.is \in Nat /\ v.world.is \in World
  BY ObjectsAre DEF ModeTyped, Reference
<1>3. v.fl_lock.is \in locks' /\ (~ v.fl_lock.is => started' # None)
  BY <1>1, ClocksAgreeNext, NothingAssumption DEF ModeSeen, HeapGoes, ClocksGo
<1>4. /\ Between(before.duration, v.duration.is, Now("mode", "duration"))'
      /\ v.fl_gameOver.is => Now("mode", "fl_gameOver")'
  BY <1>1, <1>2, ClocksAgreeNext DEF ModeSeen, Between, HeapGoes, ClocksGo, HistorySeen
<1>5. Shown(v.world.is, Now(v.world.is, "currentId"))'
  BY <1>2, WorldStaysSeen DEF ModeSeen
<1>6. TimeRead' => Timely(v.duration.is)'
  <2>1. ASSUME TimeRead PROVE Timely(v.duration.is)'
    BY <1>2, <2>1, TimelyStays DEF ModeSeen, ClocksRead, Between
  <2> QED
    BY <1>1, <2>1 DEF TimeRead
<1>7. ClockRead' => Ending(v.endModeTimer.is)'
  <2>1. ASSUME ClockRead PROVE Ending(v.endModeTimer.is)'
    BY <1>2, <2>1, EndingStays DEF ModeSeen, ClocksRead
  <2> QED
    BY <1>1, <2>1 DEF ClockRead, TimeRead
<1> QED
  BY <1>1, <1>3, <1>4, <1>5, <1>6, <1>7 DEF ModeSeen

\* A halted clock stays between the start and what is shown.
LEMMA HaltedStays ==
  ASSUME ReaderWaits, HistorySeen, NEW v, ChronoTyped(v), Halted(v)
  PROVE  Halted(v)'
BY ClocksAgreeNext
DEF ReaderWaits, HistorySeen, ChronoTyped, Halted, Between, HeapGoes, ClocksGo

\* The halted clock of the game stays seen once it was.
LEMMA HaltStays ==
  ASSUME ReaderWaits, HistorySeen, Halted(Values("chrono"))
  PROVE  Halted(Values("chrono"))'
<1>1. /\ Values("chrono").haltedTimer.is = Now("chrono", "haltedTimer")
      /\ Values("chrono")'.haltedTimer.is = Now("chrono", "haltedTimer")'
      /\ Now("chrono", "haltedTimer") \in Int
  BY ValuesAre DEF Now, ReaderWaits, TInv
<1>2. before' = before
  BY DEF ReaderWaits
<1>3. /\ before.chrono <= Now("chrono", "haltedTimer")'
      /\ Now("chrono", "haltedTimer")' <= Time'
  BY <1>1, ClocksAgreeNext DEF HistorySeen, Halted, Between, HeapGoes, ClocksGo
<1> QED
  BY <1>1, <1>2, <1>3 DEF Halted, Between

\* What a table of a Chrono held stays seen.
LEMMA ChronoStaysSeen ==
  ASSUME ReaderWaits, HistorySeen, ClocksRead, NEW v, ChronoTyped(v), ChronoSeen(v)
  PROVE  ChronoSeen(v)'
<1>1. /\ HeapGoes /\ step' = step /\ phase' = phase /\ before' = before /\ got' = got
  BY ClocksAgreeNext DEF ReaderWaits, reader
<1>2. /\ v.frameTimer.is \in Nat /\ v.gameTimer.is \in Int /\ v.fl_stop.is \in BOOLEAN
  BY DEF ChronoTyped
<1>3. /\ Between(before.frame, v.frameTimer.is, Clock)'
      /\ v.gameTimer.is <= Now("chrono", "gameTimer")'
      /\ ~ v.fl_stop.is => v.frameTimer.is - v.gameTimer.is <= Time'
  BY <1>1, <1>2, ClocksAgreeNext DEF ChronoSeen, Between, HeapGoes, ClocksGo, HistorySeen
<1>4. (ClockRead => got["frameTimer"] <= v.frameTimer.is)'
  BY <1>1 DEF ChronoSeen, ClockRead, TimeRead
<1>5. v.fl_stop.is => Halted(v)' /\ Halted(Values("chrono"))'
  BY HaltedStays, HaltStays DEF ChronoSeen
<1> QED
  BY <1>1, <1>3, <1>4, <1>5 DEF ChronoSeen

\* A table the reader reads is the one its object has, now as before, or one
\* that nothing writes.
LEMMA SourceAfterAMove ==
  ASSUME ReaderWaits, NEW t \in Sources', NEW kind, NEW o,
         kind = Owner(step), o = Subject(kind)
  PROVE  /\ o \in Object
         /\ \/ t = table'[o] /\ table[o] \in Sources
            \/ t \in Sources /\ TableOf(o, t) /\ cell'[t] = cell[t]
<1>1. /\ HeapTyped /\ HeapTyped' /\ HeapGoes /\ ReaderTyped
  BY HeapStep DEF ReaderWaits, TInv, ReaderTyped
<1>2. /\ player' = player /\ step' = step /\ phase' = phase /\ at' = at
      /\ base' = base /\ slot' = slot /\ got' = got
  BY DEF ReaderWaits, reader
<1>3. /\ step \in Key /\ phase # "follow"
      /\ t = Base(kind)' \/ (phase = "value" /\ t = base)
  BY <1>2 DEF Sources, ReadFrom, Owner
<1>4. /\ o \in Object
      /\ player = "ruffle" => at[kind] = o
      /\ TableOf(o, Base(kind))
      /\ phase = "value" =>
           /\ TableOf(o, base)
           /\ player = "pepper" => base = at[kind]
  BY <1>1, <1>3 DEF ReaderTyped, Searching
<1>5. player \in {"pepper", "ruffle"}
  BY <1>1 DEF ReaderTyped
<1>6. \A s : TableOf(o, s) => s \in DOMAIN cell
  BY DEF TableOf
<1>7. /\ Base(kind) \in Sources
      /\ phase = "value" => base \in Sources
  BY <1>3, <1>4, <1>6 DEF Sources, ReadFrom
<1>8. CASE player = "ruffle" /\ t = Base(kind)'
  <2>1. t = table'[o] /\ Base(kind) = table[o]
    BY <1>2, <1>4, <1>8 DEF Base
  <2> QED
    BY <1>4, <1>7, <2>1
<1>9. CASE ~ (player = "ruffle" /\ t = Base(kind)')
  <2>1. t \in Sources /\ TableOf(o, t) /\ t \in DOMAIN cell
    BY <1>2, <1>3, <1>4, <1>5, <1>6, <1>7, <1>9 DEF Base
  <2>2. CASE t = table[o]
    BY <1>1, <1>4, <2>1, <2>2 DEF HeapGoes, TablesGo
  <2>3. CASE t # table[o] /\ game # "recycled"
    <3>1. ASSUME NEW p \in Object PROVE t # table[p]
      BY <1>1, <1>4, <2>1, <2>3, TablesAreApart DEF HeapTyped
    <3> QED
      BY <1>1, <1>4, <2>1, <3>1 DEF HeapGoes, TablesGo
  <2>4. CASE game = "recycled"
    BY <1>1, <1>4, <2>1, <2>4 DEF HeapGoes
  <2> QED
    BY <2>2, <2>3, <2>4
<1> QED
  BY <1>8, <1>9

\* What is gone does not come back.
LEMMA GoneStays ==
  ASSUME ReaderWaits, Gone, step \in Key, phase # "follow"
  PROVE  Gone'
<1>1. /\ HeapGoes /\ ReaderTyped
  BY HeapStep DEF ReaderWaits, TInv, ReaderTyped
<1>2. /\ player' = player /\ step' = step /\ phase' = phase /\ at' = at
      /\ base' = base
  BY DEF ReaderWaits, reader
<1>3. CASE ~ open
  BY <1>1, <1>3 DEF HeapGoes, Gone
<1>4. CASE open
  <2>1. Blank(Base(Owner(step))) /\ (phase = "value" => Blank(base))
    BY <1>4 DEF Gone
  <2>2. game = "recycled"
    BY <1>1, <2>1 DEF ReaderTyped, Searching, TableOf, Blank
  <2>3. cell' = cell /\ table' = table
    BY <1>1, <2>2 DEF HeapGoes
  <2> QED
    BY <1>2, <2>1, <2>3 DEF Gone, Blank, Base, Owner
<1> QED
  BY <1>3, <1>4

\* What was read of the clocks stays seen.
LEMMA ClocksAfterAMove ==
  ASSUME ReaderWaits, HistorySeen, ClocksRead
  PROVE  ClocksRead'
<1>1. /\ step' = step /\ phase' = phase /\ got' = got /\ before' = before
  BY DEF ReaderWaits, reader
<1>2. ReadTime' = ReadTime
  BY <1>1 DEF ReadTime, State
<1>3. Clock <= Clock' /\ Time <= Time' /\ HistorySeen
  BY ClocksAgreeNext DEF HeapGoes, ClocksGo
<1>4. ASSUME ClockRead
      PROVE  /\ got["frameTimer"] \in Nat
             /\ Between(before.frame, got["frameTimer"], Clock)'
  BY <1>1, <1>3, <1>4, ClocksAgreeNext DEF ClocksRead, Between, HistorySeen
<1>5. ASSUME TimeRead
      PROVE  /\ ReadTime \in Int
             /\ Between(before.chrono - (Clock - before.frame), ReadTime, Time)'
  BY <1>1, <1>2, <1>3, <1>5, ClocksAgreeNext DEF ClocksRead, Between, HistorySeen
<1> QED
  BY <1>1, <1>2, <1>4, <1>5 DEF ClocksRead, ClockRead, TimeRead

\* What the tables of the reader hold stays seen, or is written now.
LEMMA SourcesAfterAMove ==
  ASSUME ReaderWaits, HistorySeen, ClocksRead, SourcesSeen
  PROVE  SourcesSeen'
<1>1. /\ HeapTyped /\ HeapTyped' /\ HeapClocks' /\ HeapGoes /\ ReaderTyped
  BY HeapStep DEF ReaderWaits, TInv, ReaderTyped
<1>2. /\ player' = player /\ step' = step /\ phase' = phase /\ at' = at
      /\ base' = base /\ got' = got
  BY DEF ReaderWaits, reader
<1>3. HistorySeen' /\ ClocksRead' /\ shown \subseteq shown'
  BY HistoryAfterAMove, ClocksAfterAMove
<1>4. (ModeNowSeen /\ ChronoNowSeen)'
  <2>1. (HeapTyped /\ HeapClocks /\ HistorySeen /\ ClocksRead
         => ModeNowSeen /\ ChronoNowSeen)'
    BY NowIsSeen, PTL
  <2> QED
    BY <1>1, <1>3, <2>1
<1>5. SUFFICES ASSUME NEW t \in Sources' PROVE SourceSeen(cell[t].value)'
  BY DEF SourcesSeen
<1>6. PICK kind, o : kind = Owner(step) /\ o = Subject(kind)
  OBVIOUS
<1>7. /\ o \in Object
      /\ \/ t = table'[o] /\ table[o] \in Sources
         \/ t \in Sources /\ TableOf(o, t) /\ cell'[t] = cell[t]
  BY <1>6, SourceAfterAMove
<1>8. /\ kind = "world" => o = got["world"]
      /\ kind # "world" => o = kind
      /\ Owner(step)' = kind /\ step \in Key /\ phase # "follow"
  BY <1>2, <1>6 DEF Subject, Sources, Owner
<1>9. kind \in {"mode", "chrono", "world"}
  BY <1>6, <1>8, OwnersTyped
<1>10. kind = "world" => o \in World
  <2>1. step \in {"setName", "currentId"} => got["world"] \in World
    BY <1>1 DEF ReaderTyped
  <2>2. kind = "world" => step \in {"setName", "currentId"}
    BY <1>6, <1>8, KeysAre, OwnersAre
  <2> QED
    BY <1>8, <2>1, <2>2
<1>11. step = "haltedTimer" \/ step = "gameTimer" => kind = "chrono"
  BY <1>6, OwnersAre
<1>12. Gone => Gone'
  BY <1>8, GoneStays
<1>13. CASE t = table'[o] /\ table[o] \in Sources
  <2>1. /\ cell'[t].value = Values(o)' /\ SourceSeen(Values(o))
    BY <1>13 DEF Values, SourcesSeen
  <2>2. kind = "mode" => ModeSeen(Values("mode"))'
    BY <1>4 DEF ModeNowSeen
  <2>3. kind = "chrono" => ChronoSeen(Values("chrono"))'
    BY <1>4 DEF ChronoNowSeen
  <2>4. kind = "world" => Shown(o, Values(o).currentId.is)'
    BY <1>6, <1>8, <1>10, <2>1, WorldStaysSeen DEF SourceSeen, Now
  <2>5. step = "haltedTimer" => Halted(Values("chrono"))'
    BY <1>8, <1>11, <2>1, HaltStays DEF SourceSeen
  <2>6. step = "gameTimer" /\ ~ Gone =>
          /\ ~ got["fl_stop"]
          /\ got["frameTimer"] - Values("chrono")'.gameTimer.is <= Time'
    <3> SUFFICES ASSUME step = "gameTimer", ~ Gone
                 PROVE  /\ ~ got["fl_stop"]
                        /\ got["frameTimer"] - Values("chrono")'.gameTimer.is <= Time'
      OBVIOUS
    <3>1. /\ ~ got["fl_stop"]
          /\ got["frameTimer"] - Now("chrono", "gameTimer") <= Time
      BY <1>8, <1>11, <2>1 DEF SourceSeen, Now
    <3>2. got["frameTimer"] \in Nat
      BY DEF ClocksRead, ClockRead
    <3>3. Now("chrono", "gameTimer") <= Now("chrono", "gameTimer")' /\ Time <= Time'
      BY <1>1 DEF HeapGoes, ClocksGo
    <3>4. got["frameTimer"] - Now("chrono", "gameTimer")' <= Time'
      BY <3>1, <3>2, <3>3, ClocksAgreeNext
    <3> QED
      BY <3>1, <3>4 DEF Now
  <2>7. SourceSeen(Values(o))'
    BY <1>2, <1>8, <1>11, <1>12, <2>2, <2>3, <2>4, <2>5, <2>6 DEF SourceSeen
  <2> QED
    BY <2>1, <2>7
<1>14. CASE t \in Sources /\ TableOf(o, t) /\ cell'[t] = cell[t]
  <2>1. PICK v : v = cell[t].value
    OBVIOUS
  <2>2. cell'[t].value = v /\ SourceSeen(v)
    BY <1>14, <2>1 DEF SourcesSeen
  <2>3. kind = "mode" => ModeSeen(v)'
    BY <1>6, <1>8, <1>14, <2>1, <2>2, ModeStaysSeen DEF SourceSeen, TableOf
  <2>4. kind = "chrono" => ChronoTyped(v)
    BY <1>8, <1>14, <2>1 DEF TableOf
  <2>5. kind = "chrono" => ChronoSeen(v)'
    BY <1>6, <2>2, <2>4, ChronoStaysSeen DEF SourceSeen
  <2>6. kind = "world" => Shown(o, v.currentId.is)'
    BY <1>3, <1>6, <1>8, <2>2 DEF SourceSeen, Shown
  <2>7. step = "haltedTimer" => Halted(v)'
    BY <1>11, <2>2, <2>4, HaltedStays DEF SourceSeen
  <2>8. step = "gameTimer" /\ ~ Gone =>
          ~ got["fl_stop"] /\ got["frameTimer"] - v.gameTimer.is <= Time'
    <3>1. step = "gameTimer" => got["frameTimer"] \in Nat /\ v.gameTimer.is \in Int
      BY <1>11, <2>4 DEF ClocksRead, ClockRead, ChronoTyped
    <3>2. Time <= Time'
      BY <1>1 DEF HeapGoes, ClocksGo
    <3> QED
      BY <2>2, <3>1, <3>2, ClocksAgreeNext DEF SourceSeen
  <2>9. SourceSeen(v)'
    BY <1>2, <1>8, <1>12, <2>2, <2>3, <2>5, <2>6, <2>7, <2>8 DEF SourceSeen
  <2> QED
    BY <2>2, <2>9
<1> QED
  BY <1>7, <1>13, <1>14

\* What was left of the last entry stays seen.
LEMMA LeftStaysSeen ==
  ASSUME ReaderWaits, HistorySeen, ClocksRead, step \in Key, phase # "follow",
         NEW x \in Int, step = "endModeTimer" => x \in Nat, LeftSeen(x)
  PROVE  LeftSeen(x)'
<1>1. /\ step' = step /\ got' = got /\ HeapGoes /\ remainings \subseteq remainings'
      /\ shown \subseteq shown'
  BY ClocksAgreeNext, HistoryAfterAMove DEF ReaderWaits, reader
<1>2. step = "endModeTimer" => (x \in remainings /\ Ending(x))'
  <2>1. step = "endModeTimer" => got["frameTimer"] \in Nat
    BY DEF ClocksRead, ClockRead, TimeRead
  <2>2. step = "endModeTimer" => Ending(x)'
    BY <2>1, EndingStays DEF LeftSeen
  <2> QED
    BY <1>1, <2>2 DEF LeftSeen
<1>3. step = "currentId" => Shown(got["world"], x)'
  BY <1>1 DEF LeftSeen, Shown
<1>4. step = "gameTimer" =>
        /\ x <= Now("chrono", "gameTimer")'
        /\ Gone' \/ (~ got["fl_stop"] /\ got["frameTimer"] - x <= Time')
  <2>1. step = "gameTimer" => got["frameTimer"] \in Nat
    BY DEF ClocksRead, ClockRead
  <2>2. Now("chrono", "gameTimer") <= Now("chrono", "gameTimer")' /\ Time <= Time'
    BY <1>1 DEF HeapGoes, ClocksGo
  <2> QED
    BY <2>1, <2>2, ClocksAgreeNext, GoneStays DEF LeftSeen
<1> QED
  BY <1>1, <1>2, <1>3, <1>4 DEF LeftSeen

\* The last entry of a table was seen, when the table closes up.
LEMMA LastSeen ==
  ASSUME NEW o \in Object, o = Subject(Owner(step)), NEW v, SourceSeen(v),
         step \in Key, o \in World <=> Owner(step) = "world"
  PROVE  LeftSeen(v[FinalKey(o)].is)
<1>1. CASE step = "endModeTimer"
  <2>1. v[FinalKey(o)].is = v.endModeTimer.is
    BY <1>1, OwnersAre, ObjectsAre DEF Subject, FinalKey
  <2> QED
    BY <1>1, <2>1, OwnersAre DEF SourceSeen, ModeSeen, LeftSeen, ClockRead, TimeRead
<1>2. CASE step = "currentId"
  <2>1. v[FinalKey(o)].is = v.currentId.is
    BY <1>2, OwnersAre, ObjectsAre DEF FinalKey
  <2> QED
    BY <1>2, <2>1, OwnersAre DEF SourceSeen, LeftSeen
<1>3. CASE step = "gameTimer"
  <2>1. v[FinalKey(o)].is = v.gameTimer.is
    BY <1>3, OwnersAre, ObjectsAre DEF Subject, FinalKey
  <2> QED
    BY <1>3, <2>1, OwnersAre DEF SourceSeen, ChronoSeen, LeftSeen
<1> QED
  BY <1>1, <1>2, <1>3 DEF LeftSeen

\* What is left of the last entry stays seen, or is left now.
LEMMA CopyAfterAMove ==
  ASSUME ReaderWaits, HistorySeen, ClocksRead, SourcesSeen, CopySeen
  PROVE  CopySeen'
<1>1. /\ HeapTyped /\ HeapTyped' /\ HeapGoes /\ ReaderTyped
      /\ player = "ruffle" =>
           \A t \in DOMAIN cell : KeyStays(t) \/ ClosesUp(t)
  BY HeapStep DEF ReaderWaits, TInv, ReaderTyped
<1>2. /\ player' = player /\ step' = step /\ phase' = phase /\ base' = base
      /\ length' = length /\ got' = got
  BY DEF ReaderWaits, reader
<1>3. SUFFICES ASSUME player = "ruffle", phase = "value",
                      length # Length(base)', ~ Blank(base)'
               PROVE  LeftSeen(cell[base].left[1].is)'
  BY <1>2 DEF CopySeen
<1>4. step \in Key /\ phase # "follow"
  BY <1>1, <1>3 DEF ReaderTyped
<1>5. PICK o : o = Subject(Owner(step))
  OBVIOUS
<1>6. o \in Object /\ TableOf(o, base) /\ base \in DOMAIN cell
  BY <1>1, <1>3, <1>4, <1>5 DEF ReaderTyped, Searching, TableOf
<1>7. o \in World <=> Owner(step) = "world"
  <2>1. step \in {"setName", "currentId"} => got["world"] \in World
    BY <1>1 DEF ReaderTyped
  <2>2. Owner(step) = "world" => step \in {"setName", "currentId"}
    BY <1>4, KeysAre, OwnersAre
  <2>3. Owner(step) \in {"mode", "chrono", "world"}
    BY <1>4, OwnersTyped
  <2> QED
    BY <1>5, <2>1, <2>2, <2>3, ObjectsAre DEF Subject
<1>8. step = "endModeTimer" => o = "mode"
  BY <1>5, OwnersAre DEF Subject
<1>9. CASE KeyStays(base)
  <2>1. /\ ~ Blank(base) /\ length # Length(base)
        /\ cell'[base].left = cell[base].left
    BY <1>2, <1>3, <1>9 DEF KeyStays, Blank, Length
  <2>2. PICK x : x = cell[base].left[1].is
    OBVIOUS
  <2>3. LeftSeen(x)
    BY <1>3, <2>1, <2>2 DEF CopySeen
  <2>4. cell[base].left # <<>>
    BY <1>1, <1>3, <1>4, <2>1 DEF ReaderTyped, Searching
  <2>5. x \in Int /\ (step = "endModeTimer" => x \in Nat)
    BY <1>6, <1>8, <2>2, <2>4 DEF TableOf, LeftTyped
  <2>6. LeftSeen(x)'
    BY <1>4, <2>3, <2>5, LeftStaysSeen
  <2> QED
    BY <1>2, <2>1, <2>2, <2>6 DEF LeftSeen
<1>10. CASE ClosesUp(base)
  <2>1. cell[base].keys = KeysOf(o)
    BY <1>2, <1>3, <1>6, <1>10 DEF TableOf, ClosesUp, Blank
  <2>2. PICK v, x : v = cell[base].value /\ x = v[FinalKey(o)].is
    OBVIOUS
  <2>3. cell'[base].left[1].is = x
    BY <1>6, <1>10, <2>1, <2>2, KeysOfAre DEF ClosesUp, Last, LastKey
  <2>4. base \in Sources
    BY <1>3, <1>4, <1>6 DEF Sources, ReadFrom
  <2>5. LeftSeen(x)
    BY <1>4, <1>5, <1>6, <1>7, <2>2, <2>4, LastSeen DEF SourcesSeen
  <2>6. x \in Int /\ (step = "endModeTimer" => x \in Nat)
    <3>1. CASE o = "mode"
      BY <1>6, <2>2, <3>1, ObjectsAre DEF FinalKey, TableOf, ModeTyped
    <3>2. CASE o = "chrono"
      BY <1>6, <1>8, <2>2, <3>2, ObjectsAre DEF FinalKey, TableOf, ChronoTyped
    <3>3. CASE o \in World
      BY <1>6, <1>8, <2>2, <3>3, ObjectsAre DEF FinalKey, TableOf, WorldTyped
    <3> QED
      BY <1>6, <3>1, <3>2, <3>3, ObjectsAre
  <2>7. LeftSeen(x)'
    BY <1>4, <2>5, <2>6, LeftStaysSeen
  <2> QED
    BY <1>2, <2>3, <2>7 DEF LeftSeen
<1> QED
  BY <1>1, <1>3, <1>6, <1>9, <1>10

\* The level that was read stays one that was shown.
LEMMA LevelsAfterAMove ==
  ASSUME ReaderWaits, HistorySeen, LevelsRead
  PROVE  LevelsRead'
<1>1. /\ step' = step /\ phase' = phase /\ got' = got /\ shown \subseteq shown'
  BY HistoryAfterAMove DEF ReaderWaits, reader
<1>2. WorldRead => got["world"] \in World
  BY KeysAre DEF WorldRead, ReaderWaits, TInv, ReaderTyped
<1>3. WorldRead => Shown(got["world"], Now(got["world"], "currentId"))'
  <2>1. PICK w : w = got["world"]
    OBVIOUS
  <2>2. WorldRead => Shown(w, Now(w, "currentId"))'
    BY <1>2, <2>1, WorldStaysSeen DEF LevelsRead
  <2> QED
    BY <1>1, <2>1, <2>2
<1> QED
  BY <1>1, <1>3 DEF LevelsRead, WorldRead, LevelRead, LockRead, DurationRead

\* The rest of what was read stays seen.
LEMMA StateAfterAMove ==
  ASSUME ReaderWaits, HistorySeen, ClocksRead, StateRead
  PROVE  StateRead'
<1>1. /\ step' = step /\ phase' = phase /\ got' = got /\ before' = before
      /\ locks \subseteq locks' /\ remainings \subseteq remainings' /\ HeapGoes
  BY HistoryAfterAMove, ClocksAgreeNext DEF ReaderWaits, reader
<1>2. ASSUME LockRead
      PROVE  \/ step = "duration" /\ Gone'
             \/ got["fl_lock"] \in locks' /\ (~ got["fl_lock"] => started' # None)
  <2>1. CASE step = "duration" /\ Gone
    <3>1. phase # "follow"
      BY <2>1, KeysAre DEF ReaderWaits, TInv, ReaderTyped
    <3> QED
      BY <2>1, <3>1, GoneStays, KeysAre
  <2>2. CASE got["fl_lock"] \in locks /\ (~ got["fl_lock"] => started # None)
    BY <1>1, <2>2, ClocksAgreeNext DEF HeapGoes, ClocksGo
  <2> QED
    BY <1>2, <2>1, <2>2 DEF StateRead
<1>3. ASSUME DurationRead
      PROVE  /\ got["duration"] \in Nat
             /\ Between(before.duration, got["duration"], Now("mode", "duration"))'
             /\ Timely(got["duration"])'
  <2>1. PICK d : d = got["duration"]
    OBVIOUS
  <2>2. /\ d \in Nat /\ Between(before.duration, d, Now("mode", "duration"))
        /\ Timely(d)
    BY <1>3, <2>1 DEF StateRead
  <2>3. ReadTime \in Int /\ ReadTime <= Time
    BY <1>3 DEF ClocksRead, TimeRead, DurationRead, Between
  <2>4. d <= Now("mode", "duration")
    BY <2>2 DEF Between
  <2>5. Timely(d)'
    BY <2>2, <2>3, <2>4, TimelyStays
  <2>6. Between(before.duration, d, Now("mode", "duration"))'
    BY <1>1, <2>2, ClocksAgreeNext DEF Between, HeapGoes, ClocksGo, HistorySeen
  <2> QED
    BY <1>1, <2>1, <2>2, <2>5, <2>6
<1>4. ASSUME step \in {"endModeTimer", "state"}
      PROVE  /\ got["fl_gameOver"] \in BOOLEAN
             /\ got["fl_gameOver"] => Now("mode", "fl_gameOver")'
             /\ before.over => got["fl_gameOver"] \/ ~ open' \/ game' = "recycled"
  BY <1>1, <1>4 DEF StateRead, HeapGoes, ClocksGo
<1>5. ASSUME step = "state"
      PROVE  /\ got["endModeTimer"] \in Nat /\ Ending(got["endModeTimer"])'
             /\ got["endModeTimer"] \in remainings' \/ ~ open' \/ game' = "recycled"
  <2>1. PICK r : r = got["endModeTimer"]
    OBVIOUS
  <2>2. r \in Nat /\ Ending(r) /\ got["frameTimer"] \in Nat
    BY <1>5, <2>1 DEF StateRead, ClocksRead, ClockRead, TimeRead
  <2>3. Ending(r)'
    BY <2>2, EndingStays
  <2>4. r \in remainings' \/ ~ open' \/ game' = "recycled"
    BY <1>1, <1>5, <2>1 DEF StateRead, HeapGoes
  <2> QED
    BY <1>1, <2>1, <2>2, <2>3, <2>4
<1>6. LockRead' = LockRead /\ DurationRead' = DurationRead
  BY <1>1 DEF LockRead, DurationRead
<1> QED
  BY <1>1, <1>2, <1>3, <1>4, <1>5, <1>6 DEF StateRead

\* A move leaves a hopeless reading hopeless.
LEMMA HopelessAfterAMove ==
  ASSUME RInv, GameMoves, ~ torn'
  PROVE  Hopeless'
<1>1. /\ HeapTyped /\ HeapClocks /\ HeapMoves /\ UNCHANGED <<player, reader>>
      /\ ~ torn' /\ player \in {"pepper", "ruffle"}
      /\ Hopeless /\ (before = None => before' = None)
  BY DEF RInv, TInv, ReaderTyped, GameMoves
<1>2. /\ HeapGoes /\ (game' = "recycled" /\ game # "recycled" => Corrupt')
      /\ step' = step /\ phase' = phase /\ at' = at /\ base' = base /\ got' = got
      /\ player' = player /\ length' = length
  BY <1>1, HeapStep DEF reader
<1>3. (before' = None) = (before = None)
  BY <1>1 DEF GameMoves
<1>4. CASE game # "recycled"
  BY <1>1, <1>2, <1>3, <1>4 DEF Hopeless, Idle
<1>5. CASE game = "recycled"
  <2>1. game' = game /\ table' = table /\ cell' = cell
    BY <1>2, <1>5 DEF HeapGoes
  <2>2. Corrupt'
    BY <1>1, <1>5, <2>1 DEF Hopeless, Corrupt, Blank, Home, Now, Values
  <2>3. Doomed => Doomed'
    BY <1>2, <2>1 DEF Doomed, Blank, Home, Now, Values, AtHome, Base
  <2>4. Base(Owner(step))' = Base(Owner(step)) /\ Home' = Home
        /\ Length(base)' = Length(base)
    BY <1>2, <2>1 DEF Base, Owner, Home, Now, Values, Length
  <2> QED
    BY <1>1, <1>2, <1>3, <2>1, <2>2, <2>3, <2>4 DEF Hopeless, Idle
<1> QED
  BY <1>4, <1>5

\* Every move of the game and of its memory keeps the invariant.
LEMMA GameMovesInv ==
  ASSUME RInv, GameMoves, ~ torn'
  PROVE  RInv'
<1>1. TInv /\ HeapClocks /\ Seen /\ Hopeless /\ HeapMoves
      /\ UNCHANGED <<player, reader>>
  BY DEF RInv, GameMoves
<1>2. TInv' /\ HeapClocks'
  BY <1>1, ReaderAfterAMove, HeapStep DEF TInv, ReaderTyped
<1>3. ASSUME before' # None PROVE Seen'
  <2>1. before # None /\ ReaderWaits
    BY <1>1, <1>3 DEF GameMoves, ReaderWaits
  <2>2. HistorySeen /\ SourcesSeen /\ CopySeen /\ ClocksRead /\ LevelsRead /\ StateRead
    BY <1>1, <2>1 DEF Seen
  <2> QED
    BY <2>1, <2>2, HistoryAfterAMove, SourcesAfterAMove, CopyAfterAMove, ClocksAfterAMove,
       LevelsAfterAMove, StateAfterAMove DEF Seen
<1>4. Seen'
  BY <1>3 DEF Seen
<1> QED
  BY <1>2, <1>4, HopelessAfterAMove DEF RInv

-----------------------------------------------------------------------------
(* A step of the reader: types *)

\* Where the memory stays, so does all that is said of it.
LEMMA SameHeap ==
  ASSUME UNCHANGED heap
  PROVE  /\ open' = open /\ game' = game /\ table' = table /\ cell' = cell
         /\ started' = started /\ ended' = ended /\ ticked' = ticked
         /\ Ahead' = Ahead
         /\ \A o : Values(o)' = Values(o)
         /\ Clock' = Clock /\ Time' = Time /\ Home' = Home /\ Locked' = Locked
         /\ Remaining' = Remaining /\ Truth' = Truth
         /\ \A o, key : Now(o, key)' = Now(o, key)
         /\ HeapTyped' = HeapTyped /\ HeapClocks' = HeapClocks
<1>1. /\ open' = open /\ game' = game /\ table' = table /\ cell' = cell
      /\ started' = started /\ ended' = ended /\ ticked' = ticked
  BY DEF heap
<1>2. /\ \A o : Values(o)' = Values(o)
      /\ \A o, key : Now(o, key)' = Now(o, key)
  BY <1>1 DEF Values, Now
<1>3. /\ Clock' = Clock /\ Time' = Time /\ Home' = Home /\ Locked' = Locked
      /\ Remaining' = Remaining /\ Truth' = Truth /\ Ahead' = Ahead
  BY <1>1, <1>2 DEF Ahead, Clock, Time, Home, Locked, Remaining, Truth, Stopped
<1>4. HeapTyped' = HeapTyped
  BY <1>1 DEF HeapTyped, TableOf
<1>5. HeapClocks' = HeapClocks
  BY <1>1, <1>2, <1>3 DEF HeapClocks, Stopped
<1> QED
  BY <1>1, <1>2, <1>3, <1>4, <1>5

\* The kind of what a table holds is the kind the reader asks for.
LEMMA ValueIs ==
  ASSUME NEW o \in Object, NEW t, TableOf(o, t), NEW key \in Properties(o)
  PROVE  /\ cell[t].value[key].type = Kind(key)
         /\ cell[t].value[key].is # None
         /\ cell[t].left # <<>> /\ key = FinalKey(o) =>
              /\ cell[t].left[1].type = Kind(key)
              /\ cell[t].left[1].is # None
<1> DEFINE v == cell[t].value
<1>4. cell[t].left # <<>> /\ key = FinalKey(o) =>
        /\ cell[t].left[1].type = Kind(key)
        /\ cell[t].left[1].is # None
  <2> SUFFICES ASSUME cell[t].left # <<>>, key = FinalKey(o)
               PROVE  /\ cell[t].left[1].type = Kind(key)
                      /\ cell[t].left[1].is # None
    OBVIOUS
  <2>1. PICK x : x = cell[t].left[1]
    OBVIOUS
  <2>2. x = Number(x.is) /\ x.is \in Int
    BY <2>1 DEF TableOf, LeftTyped
  <2>3. Kind(key) = "number"
    BY KindsAre, ObjectsAre DEF FinalKey
  <2> QED
    BY <2>1, <2>2, <2>3, NothingAssumption DEF Number
<1> SUFFICES v[key].type = Kind(key) /\ v[key].is # None
  BY <1>4
<1>1. CASE o = "mode"
  <2>1. ModeTyped(v)
    BY <1>1 DEF TableOf
  <2>2. \A k \in Properties(o) : v[k].type = Kind(k)
    BY <1>1, <2>1, KindsAre, PropertiesAre DEF ModeTyped, Reference, Number, Bool
  <2>3. v.gameChrono.is # None /\ v.world.is # None
    BY <2>1, NothingAssumption, ObjectsAre DEF ModeTyped, Reference
  <2>4. v.fl_lock.is # None /\ v.fl_gameOver.is # None
    BY <2>1, NothingAssumption DEF ModeTyped
  <2>5. v.duration.is # None /\ v.endModeTimer.is # None
    BY <2>1, NothingAssumption DEF ModeTyped
  <2> QED
    BY <1>1, <2>2, <2>3, <2>4, <2>5, PropertiesAre
<1>2. CASE o = "chrono"
  <2>1. ChronoTyped(v)
    BY <1>2 DEF TableOf
  <2>2. \A k \in Properties(o) : v[k].type = Kind(k)
    BY <1>2, <2>1, KindsAre, PropertiesAre DEF ChronoTyped, Number, Bool
  <2>3. v.fl_stop.is # None
    BY <2>1, NothingAssumption DEF ChronoTyped
  <2>4. v.frameTimer.is # None /\ v.haltedTimer.is # None /\ v.gameTimer.is # None
    BY <2>1, NothingAssumption DEF ChronoTyped
  <2> QED
    BY <1>2, <2>2, <2>3, <2>4, PropertiesAre
<1>3. CASE o \in World
  <2>1. WorldTyped(o, v, game)
    BY <1>3 DEF TableOf
  <2>2. \A k \in Properties(o) : v[k].type = Kind(k)
    BY <1>3, <2>1, KindsAre, PropertiesAre DEF WorldTyped, Number, String
  <2>3. v.setName.is # None
    BY <2>1, NothingAssumption DEF WorldTyped, Title, String, KnownWorlds
  <2>4. v.currentId.is # None
    BY <2>1, NothingAssumption DEF WorldTyped
  <2> QED
    BY <1>3, <2>2, <2>3, <2>4, PropertiesAre
<1> QED
  BY <1>1, <1>2, <1>3, ObjectsAre

\* What is read: nothing if nothing more can be, or what the table holds.
Given(t) == IF Gone THEN None ELSE cell[t].value[step].is

Takes(t) ==
  /\ t \in Sources /\ Take(Given(t))
  /\ UNCHANGED <<heap, player, at, history>> /\ DOMAIN hint' = Key

\* The object that is read, and the tables it is read from.
LEMMA SubjectIs ==
  ASSUME TInv, step \in Key, phase # "follow"
  PROVE  LET kind == Owner(step)
             o == Subject(kind)
         IN  /\ o \in Object /\ step \in Properties(o)
             /\ kind = "world" => o = got["world"] /\ o \in World
             /\ kind # "world" => o = kind
             /\ kind \in {"mode", "chrono", "world"}
             /\ TableOf(o, Base(kind)) /\ Base(kind) \in Sources
             /\ phase = "value" => TableOf(o, base) /\ base \in Sources
<1> DEFINE kind == Owner(step)
           o == Subject(kind)
<1>1. ReaderTyped /\ Searching
  BY DEF TInv, ReaderTyped
<1>2. /\ o \in Object /\ TableOf(o, Base(kind))
      /\ phase = "value" => TableOf(o, base)
  BY <1>1 DEF Searching
<1>3. /\ kind = "world" => o = got["world"]
      /\ kind # "world" => o = kind
      /\ kind \in {"mode", "chrono", "world"}
  BY OwnersTyped DEF Subject
<1>4. kind = "world" => step \in {"setName", "currentId"}
  BY KeysAre, OwnersAre
<1>5. kind = "world" => o \in World
  BY <1>1, <1>3, <1>4 DEF ReaderTyped
<1>6. step \in Properties(o)
  BY <1>3, <1>4, <1>5, KeysAre, OwnersAre, PropertiesAre
<1>7. \A t : TableOf(o, t) => t \in DOMAIN cell
  BY DEF TableOf
<1> QED
  BY <1>2, <1>3, <1>5, <1>6, <1>7 DEF Sources, ReadFrom

\* Where a table is one no more, the memory was used again.
LEMMA GoneIs ==
  ASSUME TInv, step \in Key, phase # "follow", Gone
  PROVE  ~ open \/ game = "recycled"
BY SubjectIs DEF Gone, Blank, TableOf

\* A slot that holds the key gives its value, or past the end what is left of
\* it.
LEMMA DecodedIs ==
  ASSUME NEW o \in Object, NEW t, TableOf(o, t), ~ Blank(t),
         NEW key \in Properties(o),
         NEW s \in 0..Length(t), KeyAt(t, s) = key
  PROVE  \/ s < Length(t) /\ Decoded(t, s, key) = cell[t].value[key].is
         \/ /\ s = Length(t) /\ key = FinalKey(o) /\ cell[t].left # <<>>
            /\ Decoded(t, s, key) = cell[t].left[1].is
<1>1. /\ cell[t].keys = KeysOf(o) /\ cell[t].first \in {0, 1}
      /\ cell[t].left = <<>> \/ cell[t].left = <<cell[t].left[1]>>
  BY DEF TableOf, Blank
<1>2. Length(t) \in Nat
  BY <1>1, KeysOfAre DEF Length
<1>3. s # None /\ key # None
  BY <1>2, NothingAssumption, KeyInKey
<1>4. Decoded(t, s, key) = IF Held(t, s).type = Kind(key) THEN Held(t, s).is ELSE None
  BY <1>3 DEF Decoded
<1>5. \/ s < Length(t) /\ Held(t, s) = cell[t].value[key]
      \/ /\ s = Length(t) /\ key = FinalKey(o) /\ Held(t, s) = cell[t].left[1]
  BY <1>1, <1>2, HeldIs
<1>6. CASE s < Length(t) /\ Held(t, s) = cell[t].value[key]
  BY <1>4, <1>6, ValueIs
<1>7. CASE s = Length(t) /\ key = FinalKey(o) /\ Held(t, s) = cell[t].left[1]
  <2>1. cell[t].left # <<>>
    <3>1. s - cell[t].first + 1 = Len(cell[t].keys) + 1 /\ Len(cell[t].keys) \in Nat
      BY <1>1, <1>2, <1>7, KeysOfAre DEF Length
    <3>2. s - cell[t].first + 1 \notin 1..Len(cell[t].keys)
      BY <3>1
    <3>3. s - cell[t].first + 1 - Len(cell[t].keys) \in DOMAIN cell[t].left
      BY <1>1, <1>2, <1>3, <3>1, <3>2 DEF KeyAt
    <3> QED
      BY <3>3
  <2> QED
    BY <1>4, <1>7, <2>1, ValueIs
<1> QED
  BY <1>5, <1>6, <1>7

\* What is left of the last entry, past the end of a table that closed up: it
\* was its value then.
LeftTaken(x) ==
  /\ open /\ step \in Key /\ phase = "value" /\ player = "ruffle"
  /\ ~ Blank(base) /\ length # Length(base) /\ cell[base].left # <<>>
  /\ step = FinalKey(Subject(Owner(step)))
  /\ x = cell[base].left[1].is

TakesLeft(x) ==
  /\ LeftTaken(x) /\ Take(x)
  /\ UNCHANGED <<heap, player, at, history>> /\ DOMAIN hint' = Key

\* The read of a value gives what a source holds, what is left of it, or
\* nothing (Value).
LEMMA ValueTakes ==
  ASSUME TInv, Value
  PROVE  (\E t : Takes(t)) \/ (\E x : TakesLeft(x))
<1>1. /\ open /\ step \in Key /\ phase = "value" /\ phase # "follow"
      /\ ReaderTyped /\ Searching /\ UNCHANGED <<heap, player, at, history>>
  BY DEF Value, TInv, ReaderTyped
<1>2. PICK o : /\ o = Subject(Owner(step)) /\ o \in Object /\ step \in Properties(o)
               /\ TableOf(o, base) /\ base \in Sources
  BY <1>1, SubjectIs
<1>3. Blank(base) <=> Gone
  BY <1>1 DEF Gone, Searching
<1>4. PICK s : s = IF player = "pepper" THEN slot ELSE SlotOf(base, length, step)
  OBVIOUS
<1>5. Take(Decoded(base, s, step)) /\ DOMAIN hint' = Key
  BY <1>1, <1>4 DEF Value, ReaderTyped
<1>6. CASE Blank(base)
  <2>1. Decoded(base, s, step) = Given(base)
    BY <1>3, <1>6, NothingIsBlank DEF Given, Blank
  <2> QED
    BY <1>1, <1>2, <1>5, <2>1 DEF Takes
<1>7. CASE ~ Blank(base)
  <2>1. /\ cell[base].keys = KeysOf(o) /\ cell[base].first \in {0, 1}
        /\ cell[base].left = <<>> \/ cell[base].left = <<cell[base].left[1]>>
    BY <1>2, <1>7 DEF TableOf, Blank
  <2>2. Length(base) \in Nat
    BY <2>1, <1>2, KeysOfAre DEF Length
  <2>3. /\ s \in 0..Length(base) /\ KeyAt(base, s) = step
        /\ s = Length(base) => player = "ruffle" /\ length # Length(base)
    <3>1. CASE player = "pepper"
      <4>1. slot \in 0..(Length(base) - 1) /\ KeyAt(base, slot) = step
        BY <1>1, <1>7, <3>1 DEF Searching
      <4> QED
        BY <1>4, <2>2, <3>1, <4>1
    <3>2. CASE player # "pepper"
      <4>1. player = "ruffle" /\ length \in {Length(base), Length(base) + 1}
        BY <1>1, <1>7, <3>2 DEF Searching, ReaderTyped
      <4>2. SlotOf(base, length, step) \in 0..(length - 1)
            /\ KeyAt(base, SlotOf(base, length, step)) = step
        BY <1>2, <2>1, <4>1, SlotIsFound
      <4> QED
        BY <1>4, <2>2, <3>2, <4>1, <4>2
    <3> QED
      BY <3>1, <3>2
  <2>4. \/ s < Length(base) /\ Decoded(base, s, step) = cell[base].value[step].is
        \/ /\ s = Length(base) /\ step = FinalKey(o) /\ cell[base].left # <<>>
           /\ Decoded(base, s, step) = cell[base].left[1].is
    BY <1>2, <1>7, <2>3, DecodedIs
  <2>5. CASE Decoded(base, s, step) = cell[base].value[step].is
    <3>1. Decoded(base, s, step) = Given(base)
      BY <1>3, <1>7, <2>5 DEF Given
    <3> QED
      BY <1>1, <1>2, <1>5, <3>1 DEF Takes
  <2>6. CASE /\ s = Length(base) /\ step = FinalKey(o) /\ cell[base].left # <<>>
             /\ Decoded(base, s, step) = cell[base].left[1].is
    <3>1. LeftTaken(Decoded(base, s, step))
      BY <1>1, <1>2, <1>7, <2>3, <2>6 DEF LeftTaken
    <3> QED
      BY <1>1, <1>5, <3>1 DEF TakesLeft
  <2> QED
    BY <2>4, <2>5, <2>6
<1> QED
  BY <1>6, <1>7

\* A property is found where it is looked for.
Finds ==
  /\ step \in Key /\ phase = "find" /\ phase' = "value"
  /\ step' = step /\ got' = got /\ DOMAIN hint' = Key
  /\ base' = Base(Owner(step))
  /\ player = "pepper" =>
       slot' \in 0..(Length(base') - 1) /\ KeyAt(base', slot') = step
  /\ player = "ruffle" => length' = Length(base')
  /\ UNCHANGED <<heap, player, at, history>>

\* The search for a slot finds it, or the table has no keys (Find).
LEMMA FindTakes ==
  ASSUME TInv, Find
  PROVE  Finds \/ \E t : Takes(t)
<1>1. /\ open /\ step \in Key /\ phase = "find" /\ phase # "follow"
      /\ ReaderTyped /\ Searching /\ UNCHANGED <<heap, player, at, history>>
  BY DEF Find, TInv, ReaderTyped
<1>2. PICK t : t = Base(Owner(step))
  OBVIOUS
<1>3. PICK o : /\ o = Subject(Owner(step)) /\ o \in Object /\ step \in Properties(o)
               /\ TableOf(o, t) /\ t \in Sources
  BY <1>1, <1>2, SubjectIs
<1>4. PICK s : s = SlotOf(t, Length(t), step)
  OBVIOUS
<1>5. \/ /\ player = "ruffle"
         /\ base' = t /\ length' = Length(t) /\ phase' = "value"
         /\ UNCHANGED <<step, hint, slot, got>>
      \/ /\ player = "pepper" /\ s = None
         /\ Take(None) /\ UNCHANGED hint
      \/ /\ player = "pepper" /\ s # None
         /\ base' = t /\ slot' = s /\ phase' = "value"
         /\ hint' = [hint EXCEPT ![step] = s]
         /\ UNCHANGED <<step, length, got>>
  BY <1>2, <1>4 DEF Find
<1>6. t \in DOMAIN cell /\ cell' = cell
  BY <1>1, <1>3, SameHeap DEF TableOf
<1>7. CASE ~ Blank(t)
  <2>1. s \in 0..(Length(t) - 1) /\ KeyAt(t, s) = step /\ Length(t) \in Nat
    <3>1. /\ cell[t].keys = KeysOf(o) /\ cell[t].first \in {0, 1}
          /\ cell[t].left = <<>> \/ cell[t].left = <<cell[t].left[1]>>
      BY <1>3, <1>7 DEF TableOf, Blank
    <3>2. SlotOf(t, Length(t), step) \in 0..(Length(t) - 1)
          /\ KeyAt(t, SlotOf(t, Length(t), step)) = step
      BY <1>3, <3>1, SlotIsFound
    <3>3. Length(t) \in Nat
      BY <1>3, <3>1, KeysOfAre DEF Length
    <3> QED
      BY <1>4, <3>2, <3>3
  <2>2. s # None
    BY <2>1, NothingAssumption
  <2>3. DOMAIN hint' = Key
    BY <1>1, <1>5, <2>2 DEF ReaderTyped
  <2> QED
    BY <1>1, <1>2, <1>5, <2>1, <2>2, <2>3 DEF Finds
<1>8. CASE Blank(t)
  <2>1. Gone /\ Given(t) = None
    BY <1>1, <1>2, <1>8 DEF Gone, Given
  <2>2. CASE player = "ruffle"
    BY <1>1, <1>2, <1>5, <2>2 DEF Finds, ReaderTyped
  <2>3. CASE player # "ruffle"
    <3>1. s = None
      <4>1. SUFFICES ASSUME s # None PROVE FALSE
        OBVIOUS
      <4>2. \A i : KeyAt(t, i) = None
        <5>1. cell[t].keys = <<>> /\ Len(cell[t].keys) = 0
          BY <1>8 DEF Blank
        <5> QED
          BY <5>1 DEF KeyAt
      <4>3. Holding(t, Length(t), step) = {}
        BY <1>1, <4>2, NothingAssumption DEF Holding
      <4> QED
        BY <1>4, <4>1, <4>3 DEF SlotOf
    <3>2. Take(None) /\ hint' = hint
      BY <1>5, <2>3, <3>1
    <3> QED
      BY <1>1, <1>3, <2>1, <3>2 DEF Takes, ReaderTyped
  <2> QED
    BY <2>2, <2>3
<1> QED
  BY <1>7, <1>8

\* A reading that stops.
Stops ==
  /\ step' = "none" /\ phase' = "find" /\ got' = got /\ DOMAIN hint' = Key
  /\ ~ open \/ game = "recycled"
  /\ UNCHANGED <<heap, player, at, history>>

\* A process that has closed gives nothing (Lost).
LEMMA LostTakes ==
  ASSUME TInv, Lost
  PROVE  Stops \/ \E t : Takes(t)
<1>1. ~ open /\ step \in Key /\ ReaderTyped
  BY DEF Lost, TInv
<1>2. CASE phase = "follow"
  BY <1>1, <1>2 DEF Lost, Stops, ReaderTyped
<1>3. CASE phase # "follow"
  <2>1. Base(Owner(step)) \in Sources
    BY <1>1, <1>3, SubjectIs
  <2>2. Take(None)
    BY <1>3 DEF Lost
  <2> QED
    BY <1>1, <2>1, <2>2 DEF Lost, Takes, Given, Gone, ReaderTyped
<1> QED
  BY <1>2, <1>3

\* A reading that goes on with what it read.
Keeps(x, next) ==
  /\ got' = [got EXCEPT ![step] = x] /\ step' = next /\ phase' = "find"
  /\ UNCHANGED <<heap, player, at, history>> /\ DOMAIN hint' = Key

\* A reading that follows the object it read.
Holds(x) ==
  /\ got' = [got EXCEPT ![step] = x] /\ step' = step /\ phase' = "follow"
  /\ UNCHANGED <<heap, player, at, history>> /\ DOMAIN hint' = Key

\* A source is a table of the object that is read.
LEMMA SourceIs ==
  ASSUME TInv, NEW t \in Sources
  PROVE  LET kind == Owner(step)
             o == Subject(kind)
         IN  /\ step \in Key /\ phase # "follow"
             /\ o \in Object /\ step \in Properties(o) /\ TableOf(o, t)
             /\ kind = "world" => o = got["world"] /\ o \in World
             /\ kind # "world" => o = kind
             /\ t = Base(kind) \/ Base(kind) = table[o]
             /\ cell[t].value[step].is # None
             /\ kind = "mode" => ModeTyped(cell[t].value)
             /\ kind = "chrono" => ChronoTyped(cell[t].value)
             /\ kind = "world" => WorldTyped(o, cell[t].value, game)
<1> DEFINE kind == Owner(step)
           o == Subject(kind)
<1>1. /\ step \in Key /\ phase # "follow"
      /\ t = Base(kind) \/ (phase = "value" /\ t = base)
  BY DEF Sources, ReadFrom
<1>2. /\ o \in Object /\ step \in Properties(o)
      /\ kind = "world" => o = got["world"] /\ o \in World
      /\ kind # "world" => o = kind
      /\ TableOf(o, t)
  BY <1>1, SubjectIs
<1>3. t = Base(kind) \/ Base(kind) = table[o]
  BY <1>1 DEF TInv, ReaderTyped, Searching, Base
<1>4. cell[t].value[step].is # None
  BY <1>2, ValueIs
<1>5. /\ kind = "mode" => ModeTyped(cell[t].value)
      /\ kind = "chrono" => ChronoTyped(cell[t].value)
      /\ kind = "world" => WorldTyped(o, cell[t].value, game)
  BY <1>2 DEF TableOf
<1> QED
  BY <1>1, <1>2, <1>3, <1>4, <1>5

\* A required property is taken from a table that is there, or the reading
\* stops.
LEMMA TakesRequired ==
  ASSUME TInv, NEW t, Takes(t),
         step \in {"frameTimer", "gameTimer", "setName", "currentId", "duration"}
  PROVE  \/ Stops
         \/ /\ ~ Gone /\ Valid(step, cell[t].value[step].is)
            /\ Keeps(cell[t].value[step].is, Follows(step))
<1> DEFINE x == cell[t].value[step].is
<1>1. /\ t \in Sources /\ step \in Key /\ phase # "follow" /\ x # None
  BY SourceIs DEF Takes
<1>2. step \notin Optional /\ Kind(step) # "object"
  BY KindsAre DEF Optional
<1>3. CASE Gone
  <2>1. Given(t) = None /\ ~ Valid(step, None)
    BY <1>3, NothingAssumption DEF Given, Valid
  <2> QED
    BY <1>1, <1>2, <1>3, <2>1, GoneIs DEF Takes, Take, Stops
<1>4. CASE ~ Gone /\ ~ Valid(step, x)
  <2>1. Given(t) = x
    BY <1>4 DEF Given
  <2>2. step \in {"setName", "currentId"}
    BY <1>1, <1>4 DEF Valid
  <2>3. game = "recycled"
    <3>1. SUFFICES ASSUME game # "recycled" PROVE FALSE
      OBVIOUS
    <3>2. PICK w : w \in World /\ WorldTyped(w, cell[t].value, game)
      BY <1>1, <2>2, SourceIs, OwnersAre
    <3>3. cell[t].value.setName.is \in KnownWorlds /\ cell[t].value.currentId.is \in Id
      BY <3>1, <3>2 DEF WorldTyped, Title, String, KnownWorlds
    <3> QED
      BY <1>1, <1>4, <2>2, <3>3 DEF Valid, Id, Junk
  <2> QED
    BY <1>1, <1>2, <1>4, <2>1, <2>3 DEF Takes, Take, Stops
<1>5. CASE ~ Gone /\ Valid(step, x)
  <2>1. Given(t) = x
    BY <1>5 DEF Given
  <2>2. NextStep(step, x) = Follows(step)
    BY DEF NextStep
  <2> QED
    BY <1>1, <1>2, <1>5, <2>1, <2>2 DEF Takes, Take, Keeps
<1> QED
  BY <1>3, <1>4, <1>5

\* What is left of the last entry is a number, and one of the game.
LEMMA LeftIs ==
  ASSUME TInv, NEW x, LeftTaken(x)
  PROVE  /\ step \in {"endModeTimer", "gameTimer", "currentId"}
         /\ step \in Key /\ phase = "value" /\ x \in Int /\ x # None
         /\ step = "endModeTimer" => x \in Nat
         /\ step = "currentId" => x \in Id
         /\ Valid(step, x)
<1> PICK kind, o : kind = Owner(step) /\ o = Subject(kind)
  OBVIOUS
<1>1. /\ step \in Key /\ phase = "value" /\ step = FinalKey(o)
      /\ cell[base].left # <<>> /\ x = cell[base].left[1].is
  BY DEF LeftTaken
<1>2. o \in Object /\ TableOf(o, base)
  BY <1>1, SubjectIs
<1>3. LeftTyped(o, cell[base].left[1])
  BY <1>1, <1>2 DEF TableOf
<1>4. /\ o = "mode" => step = "endModeTimer"
      /\ o = "chrono" => step = "gameTimer"
      /\ o \in World => step = "currentId"
  BY <1>1, <1>2, ObjectsAre DEF FinalKey
<1>5. /\ x \in Int /\ x # None /\ (o = "mode" => x \in Nat)
      /\ (o \in World => x \in Id)
  BY <1>1, <1>3, NothingAssumption DEF LeftTyped
<1> QED
  BY <1>1, <1>2, <1>4, <1>5, ObjectsAre DEF Valid, Id, Junk

\* It is taken as it is, and the reading goes on.
LEMMA LeftTakes ==
  ASSUME TInv, NEW x, TakesLeft(x)
  PROVE  LeftTaken(x) /\ Keeps(x, Follows(step))
<1>1. /\ step \in {"endModeTimer", "gameTimer", "currentId"} /\ x # None
      /\ Valid(step, x) /\ LeftTaken(x)
  BY LeftIs DEF TakesLeft
<1>2. Kind(step) # "object" /\ NextStep(step, x) = Follows(step)
  BY <1>1, KindsAre DEF NextStep
<1> QED
  BY <1>1, <1>2 DEF TakesLeft, Take, Keeps

\* So is an object.
LEMMA TakesObject ==
  ASSUME TInv, NEW t, Takes(t), step \in {"gameChrono", "world"}
  PROVE  Stops \/ (~ Gone /\ Holds(cell[t].value[step].is))
<1> DEFINE x == cell[t].value[step].is
<1>1. t \in Sources /\ step \in Key /\ phase # "follow" /\ x # None
  BY SourceIs DEF Takes
<1>2. step \notin Optional /\ Kind(step) = "object"
  BY KindsAre DEF Optional
<1>3. CASE Gone
  <2>1. Given(t) = None /\ ~ Valid(step, None)
    BY <1>3 DEF Given, Valid
  <2> QED
    BY <1>1, <1>2, <1>3, <2>1, GoneIs DEF Takes, Take, Stops
<1>4. CASE ~ Gone
  <2>1. Given(t) = x /\ Valid(step, x)
    BY <1>1, <1>4 DEF Given, Valid
  <2> QED
    BY <1>1, <1>2, <1>4, <2>1 DEF Takes, Take, Holds
<1> QED
  BY <1>3, <1>4

\* A property the reading goes on without has its default then.
LEMMA TakesOptional ==
  ASSUME TInv, NEW t, Takes(t), step \in Optional
  PROVE  LET x == IF Gone THEN Default(step) ELSE cell[t].value[step].is
         IN  Keeps(x, NextStep(step, x))
<1> DEFINE x == IF Gone THEN Default(step) ELSE cell[t].value[step].is
<1>1. t \in Sources /\ step \in Key /\ cell[t].value[step].is # None
  BY SourceIs DEF Takes
<1>2. Kind(step) # "object"
  BY KindsAre DEF Optional
<1>3. x = IF Given(t) = None THEN Default(step) ELSE Given(t)
  BY <1>1 DEF Given
<1> QED
  BY <1>1, <1>2, <1>3 DEF Takes, Take, Keeps

\* Where the reading goes on, its next property is looked for in the same
\* object, or in the mode.
LEMMA ArrivesTyped ==
  ASSUME TInv, UNCHANGED <<heap, player, at>>, DOMAIN got' = Key,
         DOMAIN hint' = Key, phase' = "find",
         step' \in Key \cup {"state", "none"},
         step' = "none" => ~ open \/ game = "recycled",
         step' \in {"setName", "currentId"} => got'["world"] \in World,
         step' \in Key =>
           \/ Owner(step') = "mode"
           \/ /\ step \in Key /\ phase # "follow"
              /\ Owner(step') = Owner(step) /\ got'["world"] = got["world"]
  PROVE  TInv'
<1>1. HeapTyped /\ HeapTyped' /\ ReaderTyped
  BY SameHeap DEF TInv
<1>2. /\ open' = open /\ game' = game /\ table' = table /\ cell' = cell
  BY SameHeap
<1>3. ASSUME step' \in Key PROVE Searching'
  <2>1. PICK kind : kind = Owner(step')
    OBVIOUS
  <2>2. Owner(step)' = kind /\ Base(kind)' = Base(kind)
    BY <1>2, <2>1 DEF Owner, Base
  <2>3. PICK o, b : o = Subject(kind)' /\ b = Base(kind)
    OBVIOUS
  <2>4. o \in Object /\ (player = "ruffle" => at[kind] = o) /\ TableOf(o, b)
    <3>1. CASE kind = "mode"
      <4>1. o = "mode"
        BY <2>3, <3>1 DEF Subject
      <4>2. (player = "ruffle" => at[kind] = o) /\ b = table["mode"]
        BY <1>1, <2>3, <3>1, <4>1 DEF ReaderTyped, Base
      <4> QED
        BY <1>1, <4>1, <4>2, ObjectsAre DEF HeapTyped
    <3>2. CASE kind # "mode"
      <4>1. /\ step \in Key /\ phase # "follow"
            /\ kind = Owner(step) /\ got'["world"] = got["world"]
        BY <1>3, <2>1, <3>2
      <4>2. o = Subject(kind) /\ Searching
        BY <1>1, <2>3, <4>1 DEF Subject, ReaderTyped
      <4> QED
        BY <2>3, <4>1, <4>2 DEF Searching
    <3> QED
      BY <3>1, <3>2
  <2>5. TableOf(o, b)'
    BY <1>2, <2>4 DEF TableOf
  <2>6. TableOf(Subject(kind), Base(kind))'
    BY <2>2, <2>3, <2>5 DEF TableOf
  <2> QED
    BY <2>2, <2>3, <2>4, <2>6 DEF Searching
<1>4. ReaderTyped'
  <2>1. /\ player' = player /\ at' = at /\ player \in {"pepper", "ruffle"}
        /\ DOMAIN at = {"mode", "chrono", "world"}
        /\ at["mode"] = IF player = "pepper" THEN table["mode"] ELSE "mode"
    BY <1>1 DEF ReaderTyped
  <2> QED
    BY <1>2, <1>3, <2>1 DEF ReaderTyped
<1>5. NoneIsGone'
  BY <1>2 DEF NoneIsGone
<1> QED
  BY <1>1, <1>4, <1>5 DEF TInv

\* The step that comes after each property, and what is known there.
LEMMA TakesTyped ==
  ASSUME TInv, NEW t, Takes(t)
  PROVE  TInv'
<1>1. /\ step \in Key /\ phase # "follow" /\ ReaderTyped /\ HeapTyped
      /\ DOMAIN got = Key
      /\ UNCHANGED <<heap, player, at>>
  BY SourceIs DEF Takes, TInv, ReaderTyped
<1>2. CASE Stops
  BY <1>1, <1>2, ArrivesTyped, KeysAre DEF Stops
<1>3. ASSUME NEW x, NEW next, Keeps(x, next), step # "world",
             next \in Key \cup {"state"},
             next \in Key => \/ Owner(next) = "mode"
                             \/ Owner(next) = Owner(step),
             next \in {"setName", "currentId"} => step = "setName"
      PROVE  TInv'
  <2>1. /\ DOMAIN got' = Key /\ got'["world"] = got["world"]
        /\ DOMAIN hint' = Key /\ phase' = "find" /\ step' = next
    BY <1>1, <1>3, KeysAre DEF Keeps
  <2>2. next # "none"
    BY <1>3, KeysAre
  <2>3. next \in {"setName", "currentId"} => got["world"] \in World
    BY <1>1, <1>3 DEF ReaderTyped
  <2> QED
    BY <1>1, <1>3, <2>1, <2>2, <2>3, ArrivesTyped
<1>4. CASE step \in {"frameTimer", "gameTimer", "setName", "currentId", "duration"}
  <2>1. CASE Stops
    BY <1>2, <2>1
  <2>2. CASE ~ Stops
    <3>1. PICK x : Keeps(x, Follows(step))
      BY <1>4, <2>2, TakesRequired
    <3>2. \/ step = "frameTimer" /\ Follows(step) = "fl_stop"
          \/ step = "gameTimer" /\ Follows(step) = "world"
          \/ step = "setName" /\ Follows(step) = "currentId"
          \/ step = "currentId" /\ Follows(step) = "fl_lock"
          \/ step = "duration" /\ Follows(step) = "fl_gameOver"
      BY <1>4, FollowsAre
    <3> QED
      BY <1>3, <3>1, <3>2, KeysAre, OwnersAre
  <2> QED
    BY <2>1, <2>2
<1>5. CASE step \in Optional
  <2>1. PICK x : Keeps(x, NextStep(step, x))
    BY <1>5, TakesOptional
  <2>2. \/ step = "fl_stop" /\ NextStep(step, x) \in {"gameTimer", "haltedTimer"}
        \/ step = "haltedTimer" /\ NextStep(step, x) \in {"gameTimer", "world"}
        \/ step = "fl_lock" /\ NextStep(step, x) = "duration"
        \/ step = "fl_gameOver" /\ NextStep(step, x) = "endModeTimer"
        \/ step = "endModeTimer" /\ NextStep(step, x) = "state"
    BY <1>5, FollowsAre DEF Optional, NextStep
  <2> QED
    BY <1>3, <2>1, <2>2, KeysAre, OwnersAre
<1>6. CASE step \in {"gameChrono", "world"}
  <2>1. CASE Stops
    BY <1>2, <2>1
  <2>2. CASE ~ Stops
    <3>1. PICK x : x = cell[t].value[step].is /\ Holds(x) /\ ModeTyped(cell[t].value)
      BY <1>6, <2>2, TakesObject, SourceIs, OwnersAre DEF Takes
    <3>2. \/ step = "gameChrono" /\ x = "chrono"
          \/ step = "world" /\ x \in World
      BY <1>6, <3>1, ObjectsAre DEF ModeTyped, Reference
    <3>3. /\ step' = step /\ phase' = "follow" /\ DOMAIN got' = Key
          /\ got'[step] = x /\ DOMAIN hint' = Key
      BY <1>1, <3>1 DEF Holds
    <3>4. HeapTyped' /\ table' = table /\ player' = player /\ at' = at
      BY <1>1, SameHeap
    <3>5. ReaderTyped'
      BY <1>1, <1>6, <3>2, <3>3, <3>4, KeysAre DEF ReaderTyped
    <3>6. NoneIsGone'
      BY <1>6, <3>3 DEF NoneIsGone
    <3> QED
      BY <3>4, <3>5, <3>6 DEF TInv
  <2> QED
    BY <2>1, <2>2
<1> QED
  BY <1>1, <1>4, <1>5, <1>6, KeysAre DEF Optional

\* And after what is left of a property.
LEMMA LeftTakesTyped ==
  ASSUME TInv, NEW x, TakesLeft(x)
  PROVE  TInv'
<1>1. /\ step \in {"endModeTimer", "gameTimer", "currentId"} /\ step \in Key
      /\ phase # "follow" /\ DOMAIN got = Key
  BY LeftIs, LeftTakes DEF TInv, ReaderTyped
<1>2. /\ got' = [got EXCEPT ![step] = x] /\ step' = Follows(step) /\ phase' = "find"
      /\ UNCHANGED <<heap, player, at>> /\ DOMAIN hint' = Key
  BY LeftTakes DEF Keeps
<1>3. \/ step' = "state"
      \/ step' \in {"world", "fl_lock"} /\ Owner(step') = "mode"
  BY <1>1, <1>2, FollowsAre, OwnersAre
<1> QED
  BY <1>1, <1>2, <1>3, ArrivesTyped, KeysAre

\* A reading begins with the Chrono.
LEMMA BeginTyped ==
  ASSUME TInv, Begin
  PROVE  TInv' /\ step' = "gameChrono"
<1>1. Order[1] = "gameChrono"
  BY DEF Order
<1>2. step' = "gameChrono" /\ phase' = "find" /\ DOMAIN got' = Key
  BY <1>1 DEF Begin, Nothing
<1>3. DOMAIN hint' = Key /\ UNCHANGED <<heap, player, at>>
  BY DEF Begin, TInv, ReaderTyped
<1> QED
  BY <1>2, <1>3, ArrivesTyped, KeysAre, OwnersAre

\* Where a property is found is a table of its object, under its key.
LEMMA FindsTyped ==
  ASSUME TInv, Finds
  PROVE  TInv'
<1>1. HeapTyped /\ HeapTyped' /\ ReaderTyped /\ Searching
  BY SameHeap DEF TInv, Finds, ReaderTyped
<1>2. /\ open' = open /\ game' = game /\ table' = table /\ cell' = cell
      /\ player' = player /\ at' = at /\ got' = got /\ step' = step
      /\ phase' = "value" /\ step \in Key /\ phase = "find" /\ DOMAIN hint' = Key
  BY SameHeap DEF Finds
<1>3. PICK kind, o, b : kind = Owner(step) /\ o = Subject(kind) /\ b = Base(kind)
  OBVIOUS
<1>4. /\ Owner(step)' = kind /\ Subject(kind)' = o /\ Base(kind)' = b /\ base' = b
  BY <1>2, <1>3 DEF Owner, Subject, Base, Finds
<1>5. o \in Object /\ (player = "ruffle" => at[kind] = o) /\ TableOf(o, b)
  BY <1>1, <1>3 DEF Searching
<1>6. TableOf(o, b)'
  BY <1>2, <1>5 DEF TableOf
<1>7. TableOf(Subject(kind), Base(kind))' /\ TableOf(Subject(kind), base)'
  BY <1>4, <1>6 DEF TableOf
<1>8. /\ player = "pepper" => /\ base' = at[kind]
                               /\ (slot \in 0..(Length(base) - 1))'
                               /\ (KeyAt(base, slot) = step)'
      /\ player = "ruffle" => (length = Length(base))'
  BY <1>2, <1>3, <1>4 DEF Finds, Base, Length, KeyAt, LastKey
<1>9. (Blank(base) => Blank(Base(kind)))'
  BY <1>4 DEF Blank
<1>10. Searching'
  BY <1>2, <1>4, <1>5, <1>7, <1>8, <1>9 DEF Searching
<1>11. ReaderTyped'
  BY <1>1, <1>2, <1>10 DEF ReaderTyped
<1>12. NoneIsGone'
  BY <1>2, KeysAre DEF NoneIsGone
<1> QED
  BY <1>1, <1>11, <1>12 DEF TInv

\* A reading stops where it may.
LEMMA StopsTyped ==
  ASSUME TInv, Stops
  PROVE  TInv'
<1>1. DOMAIN got' = Key
  BY DEF TInv, ReaderTyped, Stops
<1> QED
  BY <1>1, ArrivesTyped, KeysAre DEF Stops

\* An object is followed to its table.
Reaches(kind, o, next) ==
  /\ \/ step = "gameChrono" /\ kind = "chrono" /\ o = "chrono" /\ next = "frameTimer"
     \/ step = "world" /\ kind = "world" /\ o = got["world"] /\ o \in World
        /\ next = "setName"
  /\ phase = "follow" /\ ~ Blank(table[o])
  /\ at' = [at EXCEPT ![kind] = IF player = "pepper" THEN table[o] ELSE o]
  /\ step' = next /\ phase' = "find" /\ got' = got /\ hint' = hint
  /\ UNCHANGED <<heap, player, history>>

\* An object is reached, or is none any more (Follow).
LEMMA FollowTakes ==
  ASSUME TInv, Follow
  PROVE  Stops \/ \E kind, o, next : Reaches(kind, o, next)
<1>1. ReaderTyped /\ HeapTyped
  BY DEF TInv
<1>2. PICK o : o = got[step]
  OBVIOUS
<1>3. \/ step = "gameChrono" /\ o = "chrono"
      \/ step = "world" /\ o \in World
  BY <1>1, <1>2 DEF Follow, ReaderTyped
<1>4. o \in Object
  BY <1>3, ObjectsAre
<1>5. CASE Blank(table[o])
  <2>1. game = "recycled"
    BY <1>1, <1>4, <1>5 DEF HeapTyped, TableOf, Blank
  <2>2. step' = "none" /\ at' = at
    BY <1>2, <1>5 DEF Follow, Blank
  <2> QED
    BY <1>1, <2>1, <2>2 DEF Follow, Stops, ReaderTyped
<1>6. CASE ~ Blank(table[o])
  <2>1. PICK kind : kind = IF step = "world" THEN "world" ELSE "chrono"
    OBVIOUS
  <2>2. /\ at' = [at EXCEPT ![kind] = IF player = "pepper" THEN table[o] ELSE o]
        /\ step' = Follows(step)
    BY <1>2, <1>6, <2>1 DEF Follow, Blank
  <2>3. PICK next : next = Follows(step)
    OBVIOUS
  <2>4. Reaches(kind, o, next)
    BY <1>2, <1>3, <1>6, <2>1, <2>2, <2>3, FollowsAre DEF Follow, Reaches
  <2> QED
    BY <2>4
<1> QED
  BY <1>5, <1>6

\* An object that is reached is read from the table it has.
LEMMA FollowsIs ==
  ASSUME TInv, NEW kind, NEW o, NEW next, Reaches(kind, o, next)
  PROVE  /\ TInv' /\ o \in Object
         /\ Owner(step)' = kind /\ Base(kind)' = table[o] /\ Subject(kind)' = o
<1>1. HeapTyped /\ HeapTyped' /\ ReaderTyped
  BY SameHeap DEF TInv, Reaches
<1>2. /\ open' = open /\ game' = game /\ table' = table /\ cell' = cell
      /\ player' = player
  BY SameHeap DEF Reaches
<1>3. o \in Object
  BY ObjectsAre DEF Reaches
<1>4. Owner(step)' = kind /\ next \in Key /\ next # "none" /\ kind # "mode"
      /\ kind \in DOMAIN at
  BY <1>1, OwnersAre, KeysAre DEF Reaches, Owner, ReaderTyped
<1>5. /\ at'[kind] = IF player = "pepper" THEN table[o] ELSE o
      /\ at'["mode"] = at["mode"] /\ DOMAIN at' = DOMAIN at
  BY <1>4 DEF Reaches
<1>6. PICK b : b = table[o]
  OBVIOUS
<1>7. Base(kind)' = b
  BY <1>2, <1>5, <1>6 DEF Base
<1>8. Subject(kind)' = o
  BY DEF Subject, Reaches
<1>9. TableOf(o, b)'
  BY <1>1, <1>2, <1>3, <1>6 DEF HeapTyped, TableOf
<1>10. Searching'
  <2>1. TableOf(Subject(kind), Base(kind))'
    BY <1>7, <1>8, <1>9 DEF TableOf
  <2>2. (player = "ruffle" => at[kind] = Subject(kind))' /\ phase' = "find"
    BY <1>2, <1>5, <1>8 DEF Reaches
  <2> QED
    BY <1>3, <1>4, <1>8, <2>1, <2>2 DEF Searching
<1>11. ReaderTyped'
  BY <1>1, <1>2, <1>4, <1>5, <1>10, KeysAre DEF ReaderTyped, Reaches
<1>12. NoneIsGone'
  BY <1>4 DEF NoneIsGone, Reaches
<1> QED
  BY <1>1, <1>3, <1>4, <1>6, <1>7, <1>8, <1>11, <1>12 DEF TInv

-----------------------------------------------------------------------------
(* A step of the reader: what was seen *)

\* Where the memory and the history stay, so does what was seen.
LEMMA SameHistory ==
  ASSUME UNCHANGED <<heap, history>>
  PROVE  HistorySeen' = HistorySeen /\ before' = before /\ shown' = shown
         /\ locks' = locks /\ remainings' = remainings
<1>1. before' = before /\ shown' = shown /\ locks' = locks
      /\ remainings' = remainings
  BY DEF history
<1> QED
  BY <1>1, SameHeap DEF HistorySeen, Shown

\* Of the mode, the reader reads the table it has.
LEMMA ModeSourcesSeen ==
  ASSUME TInv, HeapClocks, HistorySeen, ClocksRead, phase = "find",
         Owner(step) = "mode"
  PROVE  SourcesSeen
<1>1. ReaderTyped /\ HeapTyped
  BY DEF TInv
<1>2. ModeSeen(Values("mode"))
  BY <1>1, NowIsSeen DEF ModeNowSeen
<1>3. ASSUME NEW t \in Sources PROVE SourceSeen(cell[t].value)
  <2>1. t = Base("mode")
    BY <1>3 DEF Sources, ReadFrom
  <2>2. t = table["mode"]
    BY <1>1, <2>1 DEF ReaderTyped, Base
  <2>3. cell[t].value = Values("mode")
    BY <2>2 DEF Values
  <2>4. step # "haltedTimer" /\ step # "gameTimer"
    BY OwnersAre
  <2> QED
    BY <1>2, <2>3, <2>4 DEF SourceSeen
<1> QED
  BY <1>3 DEF SourcesSeen

\* A reading that stops promises nothing.
LEMMA StopsSeen ==
  ASSUME Seen, Stops
  PROVE  Seen'
<1>1. step' = "none" /\ "none" \notin Key /\ UNCHANGED <<heap, history>>
  BY KeysAre DEF Stops
<1>2. HistorySeen' = HistorySeen /\ before' = before
  BY <1>1, SameHistory
<1>3. ~ LockRead' /\ ~ DurationRead' /\ ~ LevelRead' /\ ~ TimeRead' /\ ~ ClockRead'
      /\ ~ WorldRead'
  BY <1>1 DEF LockRead, DurationRead, LevelRead, TimeRead, ClockRead, WorldRead
<1>4. SourcesSeen'
  BY <1>1 DEF SourcesSeen, Sources
<1>5. ClocksRead'
  BY <1>1, <1>3 DEF ClocksRead
<1>7. CopySeen'
  BY DEF CopySeen, Stops
<1>6. LevelsRead' /\ StateRead'
  BY <1>1, <1>3 DEF LevelsRead, StateRead
<1> QED
  BY <1>2, <1>4, <1>5, <1>6, <1>7 DEF Seen

\* What is known while a property is read.
LEMMA SeenIs ==
  ASSUME Seen, before # None, NEW t \in Sources
  PROVE  /\ HistorySeen /\ SourcesSeen /\ CopySeen /\ ClocksRead /\ LevelsRead /\ StateRead
         /\ SourceSeen(cell[t].value)
BY DEF Seen, SourcesSeen

\* From one property of the Chrono to the next.
LEMMA ChronoArrives ==
  ASSUME TInv, TInv', HeapClocks, UNCHANGED <<heap, player, at, history>>,
         NEW t \in Sources, Owner(step) = "chrono", Owner(step') = "chrono",
         phase' = "find", ChronoSeen(cell[t].value), HistorySeen, ClocksRead',
         got'["frameTimer"] <= cell[t].value.frameTimer.is,
         NEW b, b = Base("chrono")
  PROVE  /\ ChronoSeen(cell[b].value)' /\ \A s \in Sources' : s = b
         /\ b = t \/ cell[b].value = Values("chrono")
         /\ Gone => Gone'
<1>1. b = t \/ b = table["chrono"]
  BY SourceIs
<1>2. /\ cell' = cell /\ table' = table /\ open' = open /\ Clock' = Clock
      /\ Time' = Time /\ Now("chrono", "gameTimer")' = Now("chrono", "gameTimer")
      /\ Values("chrono")' = Values("chrono") /\ before' = before
      /\ HistorySeen' /\ HeapClocks'
  BY SameHeap, SameHistory
<1>3. Base("chrono")' = b /\ Owner(step)' = "chrono"
  BY <1>2 DEF Base, Owner
<1>4. \A s \in Sources' : s = b
  BY <1>3 DEF Sources, ReadFrom
<1>5. ASSUME b = t PROVE ChronoSeen(cell[b].value)'
  <2>1. PICK v : v = cell[t].value
    OBVIOUS
  <2>2. ChronoSeen(v) /\ got'["frameTimer"] <= v.frameTimer.is /\ v = cell'[b].value
    BY <1>2, <1>5, <2>1
  <2>3. ChronoSeen(v)'
    BY <1>2, <2>2 DEF ChronoSeen, Halted
  <2> QED
    BY <2>2, <2>3
<1>6. ASSUME b = table["chrono"] PROVE ChronoSeen(cell[b].value)'
  <2>1. (TInv /\ HeapClocks /\ HistorySeen /\ ClocksRead => ChronoNowSeen)'
    <3>1. (HeapTyped /\ HeapClocks /\ HistorySeen /\ ClocksRead
           => ModeNowSeen /\ ChronoNowSeen)'
      BY NowIsSeen, PTL
    <3> QED
      BY <3>1 DEF TInv
  <2>2. ChronoSeen(Values("chrono"))'
    BY <1>2, <2>1 DEF ChronoNowSeen
  <2>3. Values("chrono")' = cell'[b].value
    BY <1>2, <1>6 DEF Values
  <2> QED
    BY <2>2, <2>3
<1>7. Gone => Gone'
  BY <1>2, <1>3 DEF Gone, Blank
<1> QED
  BY <1>1, <1>4, <1>5, <1>6, <1>7 DEF Values

\* Where the memory and the history stay, and no clock was read.
NothingElse ==
  /\ TInv /\ HeapClocks /\ HistorySeen /\ ClocksRead /\ TInv'
  /\ UNCHANGED <<heap, player, at, history>>

\* What stays where only the reader goes on.
LEMMA NothingElseIs ==
  ASSUME NothingElse
  PROVE  /\ HeapTyped /\ HeapClocks' /\ HistorySeen' /\ before' = before
         /\ shown' = shown /\ locks' = locks
         /\ remainings' = remainings /\ cell' = cell /\ table' = table
         /\ started' = started /\ ended' = ended /\ open' = open /\ game' = game
         /\ Clock' = Clock /\ Time' = Time /\ DOMAIN got = Key
         /\ Clock \in Nat /\ Time \in Int /\ before.frame \in Nat
         /\ before.chrono \in Int /\ Now("chrono", "gameTimer") \in Int
         /\ Time <= Clock - Now("chrono", "gameTimer")
BY SameHeap, SameHistory, ClocksAgree, ValuesAre
DEF NothingElse, TInv, ReaderTyped, HistorySeen

\* The clock of the player is read first, and bounds what follows.
LEMMA FrameTimerSeen ==
  ASSUME NothingElse, NEW t \in Sources, step = "frameTimer",
         ChronoSeen(cell[t].value), ChronoTyped(cell[t].value),
         Keeps(cell[t].value.frameTimer.is, "fl_stop")
  PROVE  Seen'
<1> DEFINE v == cell[t].value
<1> PICK x : x = v.frameTimer.is
  OBVIOUS
<1>1. /\ step' = "fl_stop" /\ phase' = "find" /\ got'["frameTimer"] = x
  BY NothingElseIs, KeysAre DEF Keeps
<1>2. ClocksRead'
  <2>1. x \in Nat /\ Between(before.frame, x, Clock)'
    BY NothingElseIs DEF ChronoSeen, ChronoTyped, Between
  <2> QED
    BY <1>1, <2>1 DEF ClocksRead, TimeRead, Between
<1>3. SourcesSeen'
  <2>1. PICK b : b = Base("chrono")
    OBVIOUS
  <2>2. ChronoSeen(cell[b].value)' /\ \A s \in Sources' : s = b
    BY <1>1, <1>2, <2>1, ChronoArrives, OwnersAre DEF NothingElse, ChronoTyped
  <2>3. (SourceSeen(cell[b].value))'
    BY <1>1, <2>2, OwnersAre DEF SourceSeen, Owner
  <2> QED
    BY <2>2, <2>3 DEF SourcesSeen
<1>4. LevelsRead' /\ StateRead'
  BY <1>1 DEF LevelsRead, StateRead, WorldRead, LevelRead, LockRead, DurationRead
<1> QED
  BY <1>1, <1>2, <1>3, <1>4, NothingElseIs DEF Seen, CopySeen

\* The Chrono is stopped, and its halted clock was shown, or it is not.
LEMMA StopSeen ==
  ASSUME NothingElse, NEW t \in Sources, step = "fl_stop",
         ChronoSeen(cell[t].value), ChronoTyped(cell[t].value), NEW x,
         x = IF Gone THEN FALSE ELSE cell[t].value.fl_stop.is,
         Keeps(x, IF x THEN "haltedTimer" ELSE "gameTimer")
  PROVE  Seen'
<1> PICK v : v = cell[t].value
  OBVIOUS
<1>1. /\ step' = IF x THEN "haltedTimer" ELSE "gameTimer"
      /\ phase' = "find" /\ got'["fl_stop"] = x
      /\ got'["frameTimer"] = got["frameTimer"]
  BY NothingElseIs, KeysAre DEF Keeps
<1>2. /\ got["frameTimer"] \in Nat
      /\ Between(before.frame, got["frameTimer"], Clock)
      /\ got["frameTimer"] <= v.frameTimer.is
      /\ ChronoSeen(v) /\ ChronoTyped(v)
  BY DEF NothingElse, ClocksRead, ClockRead, ChronoSeen
<1>3. ClocksRead'
  BY <1>1, <1>2, NothingElseIs DEF ClocksRead, ClockRead, TimeRead, Between
<1>4. PICK b : b = Base("chrono")
  OBVIOUS
<1>5. /\ ChronoSeen(cell[b].value)' /\ \A s \in Sources' : s = b
      /\ b = t \/ cell[b].value = Values("chrono")
      /\ Gone => Gone'
  BY <1>1, <1>2, <1>3, <1>4, ChronoArrives, OwnersAre DEF NothingElse
<1>6. PICK u : u = cell[b].value
  OBVIOUS
<1>7. u = v \/ u = Values("chrono")
  BY <1>5, <1>6
<1>8. x => Halted(u)
  <2>1. x => v.fl_stop.is
    OBVIOUS
  <2> QED
    BY <1>2, <1>7, <2>1 DEF ChronoSeen
<1>9. ~ x /\ ~ Gone => got["frameTimer"] - u.gameTimer.is <= Time
  <2> SUFFICES ASSUME ~ x, ~ Gone PROVE got["frameTimer"] - u.gameTimer.is <= Time
    OBVIOUS
  <2>1. /\ v.frameTimer.is - v.gameTimer.is <= Time
        /\ v.gameTimer.is <= Now("chrono", "gameTimer")
    BY <1>2 DEF ChronoSeen
  <2>2. v.frameTimer.is \in Nat /\ v.gameTimer.is \in Int
    BY <1>2 DEF ChronoTyped
  <2>3. u.gameTimer.is = v.gameTimer.is \/ u.gameTimer.is = Now("chrono", "gameTimer")
    BY <1>7 DEF Now
  <2> QED
    BY <1>2, <2>1, <2>2, <2>3, NothingElseIs
<1>10. Halted(u)' = Halted(u)
  BY NothingElseIs DEF Halted
<1>11. SourceSeen(u)'
  <2>1. ChronoSeen(u)' /\ Owner(step)' = "chrono"
    BY <1>1, <1>5, <1>6, NothingElseIs, OwnersAre DEF Owner
  <2> QED
    BY <1>1, <1>5, <1>8, <1>9, <1>10, <2>1, NothingElseIs DEF SourceSeen
<1>12. SourcesSeen'
  BY <1>5, <1>6, <1>11, NothingElseIs DEF SourcesSeen
<1>13. LevelsRead' /\ StateRead'
  BY <1>1 DEF LevelsRead, StateRead, WorldRead, LevelRead, LockRead, DurationRead
<1> QED
  BY <1>1, <1>3, <1>12, <1>13, NothingElseIs DEF Seen, CopySeen

\* The time that was read lags at most.
LEMMA TimeSeen ==
  ASSUME NothingElse, ClockRead, step' = "world", phase' = "find",
         got'["frameTimer"] = got["frameTimer"], ReadTime' \in Int,
         Between(before.chrono - (Clock - before.frame), ReadTime', Time)
  PROVE  Seen'
<1>1. ClocksRead'
  BY NothingElseIs DEF ClocksRead, ClockRead, TimeRead, Between, NothingElse
<1>2. SourcesSeen'
  <2>1. (TInv /\ HeapClocks /\ HistorySeen /\ ClocksRead /\ phase = "find"
         /\ Owner(step) = "mode" => SourcesSeen)'
    BY ModeSourcesSeen, PTL
  <2>2. Owner(step)' = "mode"
    BY OwnersAre DEF Owner
  <2> QED
    BY <1>1, <2>1, <2>2, NothingElseIs DEF NothingElse
<1>3. LevelsRead' /\ StateRead'
  BY DEF LevelsRead, StateRead, WorldRead, LevelRead, LockRead, DurationRead
<1> QED
  BY <1>1, <1>2, <1>3, NothingElseIs DEF Seen, CopySeen

\* A halted clock that is read is the time; one that is gone leaves no other.
LEMMA HaltedTimerSeen ==
  ASSUME NothingElse, NEW t \in Sources, step = "haltedTimer",
         ChronoSeen(cell[t].value), Halted(cell[t].value),
         ChronoTyped(cell[t].value), NEW x,
         x = IF Gone THEN None ELSE cell[t].value.haltedTimer.is,
         Keeps(x, IF x = None THEN "gameTimer" ELSE "world")
  PROVE  Seen'
<1> PICK v : v = cell[t].value
  OBVIOUS
<1>1. /\ step' = IF x = None THEN "gameTimer" ELSE "world"
      /\ phase' = "find" /\ got'["haltedTimer"] = x
      /\ got'["frameTimer"] = got["frameTimer"]
      /\ got'["fl_stop"] = got["fl_stop"]
  BY NothingElseIs, KeysAre DEF Keeps
<1>2. /\ got["frameTimer"] \in Nat /\ got["fl_stop"]
      /\ Between(before.frame, got["frameTimer"], Clock)
      /\ got["frameTimer"] <= v.frameTimer.is
      /\ ChronoSeen(v) /\ ChronoTyped(v) /\ Halted(v) /\ ClockRead
  BY DEF NothingElse, ClocksRead, ClockRead, ChronoSeen
<1>3. CASE Gone
  <2>1. step' = "gameTimer"
    BY <1>1, <1>3
  <2>2. ClocksRead'
    BY <1>1, <1>2, <2>1, NothingElseIs DEF ClocksRead, ClockRead, TimeRead, Between
  <2>3. PICK b : b = Base("chrono")
    OBVIOUS
  <2>4. /\ ChronoSeen(cell[b].value)' /\ \A s \in Sources' : s = b
        /\ Gone'
    BY <1>1, <1>2, <1>3, <2>1, <2>2, <2>3, ChronoArrives, OwnersAre DEF NothingElse
  <2>5. SourceSeen(cell[b].value)'
    BY <2>1, <2>4, OwnersAre DEF SourceSeen, Owner
  <2>6. LevelsRead' /\ StateRead'
    BY <2>1 DEF LevelsRead, StateRead, WorldRead, LevelRead, LockRead, DurationRead
  <2> QED
    BY <1>1, <2>2, <2>4, <2>5, <2>6, NothingElseIs DEF Seen, SourcesSeen, CopySeen
<1>4. CASE ~ Gone
  <2>1. x = v.haltedTimer.is /\ x \in Int /\ x # None
    BY <1>2, <1>4, NothingAssumption DEF ChronoTyped
  <2>2. ReadTime' = x
    BY <1>1, <1>2, <2>1 DEF ReadTime, State
  <2>3. Between(before.chrono - (Clock - before.frame), x, Time)
    BY <1>2, <2>1, NothingElseIs DEF Halted, Between, NothingElse, HistorySeen
  <2> QED
    BY <1>1, <1>2, <2>1, <2>2, <2>3, TimeSeen
<1> QED
  BY <1>3, <1>4

\* The clock of the player less the start of the Chrono is the time.
LEMMA GameTimerSeen ==
  ASSUME NothingElse, step = "gameTimer", NEW x \in Int, ~ got["fl_stop"],
         got["frameTimer"] - x <= Time, x <= Now("chrono", "gameTimer"),
         Keeps(x, "world")
  PROVE  Seen'
<1>1. /\ step' = "world" /\ phase' = "find" /\ got'["gameTimer"] = x
      /\ got'["frameTimer"] = got["frameTimer"]
      /\ got'["fl_stop"] = got["fl_stop"]
  BY NothingElseIs, KeysAre DEF Keeps
<1>3. /\ got["frameTimer"] \in Nat /\ ClockRead
      /\ Between(before.frame, got["frameTimer"], Clock)
  BY DEF NothingElse, ClocksRead, ClockRead
<1>4. ReadTime' = got["frameTimer"] - x
  BY <1>1 DEF ReadTime, State
<1>5. Between(before.chrono - (Clock - before.frame),
              got["frameTimer"] - x, Time)
  BY <1>3, NothingElseIs DEF Between, NothingElse, HistorySeen
<1> QED
  BY <1>1, <1>3, <1>4, <1>5, TimeSeen

\* Once the time is read, no clock is read again.
LEMMA TimeKept ==
  ASSUME NothingElse, TimeRead, step # "state", TimeRead', NEW x,
         got' = [got EXCEPT ![step] = x]
  PROVE  /\ ClocksRead' /\ ReadTime' = ReadTime
         /\ got'[step] = x
         /\ \A key \in Key : key # step => got'[key] = got[key]
         /\ phase' = "find" /\ Owner(step') = "mode" => SourcesSeen'
<1>1. step \in Key
  BY KeysAre DEF TimeRead
<1>2. got'[step] = x /\ \A key \in Key : key # step => got'[key] = got[key]
  BY <1>1, NothingElseIs
<1>3. /\ got'["frameTimer"] = got["frameTimer"] /\ got'["fl_stop"] = got["fl_stop"]
      /\ got'["haltedTimer"] = got["haltedTimer"]
      /\ got'["gameTimer"] = got["gameTimer"]
  BY <1>2, KeysAre DEF TimeRead
<1>4. ReadTime' = ReadTime
  BY <1>3 DEF ReadTime, State
<1>5. step' # "haltedTimer" /\ ClockRead
  BY DEF TimeRead, ClockRead
<1>6. ClocksRead'
  BY <1>3, <1>4, <1>5, NothingElseIs DEF ClocksRead, Between, NothingElse
<1>7. ASSUME phase' = "find", Owner(step') = "mode" PROVE SourcesSeen'
  <2>1. (TInv /\ HeapClocks /\ HistorySeen /\ ClocksRead /\ phase = "find"
         /\ Owner(step) = "mode" => SourcesSeen)'
    BY ModeSourcesSeen, PTL
  <2>2. Owner(step)' = "mode"
    BY <1>7 DEF Owner
  <2> QED
    BY <1>6, <1>7, <2>1, <2>2, NothingElseIs DEF NothingElse
<1> QED
  BY <1>2, <1>4, <1>6, <1>7

\* Nothing is read of the Chrono yet.
LEMMA GameChronoSeen ==
  ASSUME NothingElse, step = "gameChrono", NEW x, Holds(x)
  PROVE  Seen'
<1>1. step' = "gameChrono" /\ phase' = "follow"
  BY DEF Holds
<1>2. SourcesSeen' /\ ClocksRead' /\ LevelsRead' /\ StateRead'
  BY <1>1 DEF SourcesSeen, Sources, ClocksRead, ClockRead, TimeRead, LevelsRead,
       WorldRead, LevelRead, StateRead, LockRead, DurationRead
<1> QED
  BY <1>1, <1>2, NothingElseIs DEF Seen, CopySeen

\* The world that is read was shown, with the level it has.
LEMMA WorldSeen ==
  ASSUME NothingElse, step = "world", NEW t \in Sources,
         ModeSeen(cell[t].value), Holds(cell[t].value.world.is)
  PROVE  Seen'
<1> PICK x : x = cell[t].value.world.is
  OBVIOUS
<1>1. step' = "world" /\ phase' = "follow" /\ got' = [got EXCEPT ![step] = x]
  BY DEF Holds
<1>2. ClocksRead' /\ got'["world"] = x
  BY <1>1, TimeKept DEF TimeRead
<1>3. SourcesSeen' /\ StateRead'
  BY <1>1 DEF SourcesSeen, Sources, StateRead, LockRead, DurationRead
<1>4. LevelsRead'
  <2>1. Shown(x, Now(x, "currentId"))
    BY DEF ModeSeen
  <2>2. Shown(x, Now(x, "currentId"))'
    BY <2>1, NothingElseIs, SameHeap DEF NothingElse, Shown
  <2> QED
    BY <1>1, <1>2, <2>2 DEF LevelsRead, LevelRead, LockRead, DurationRead
<1> QED
  BY <1>1, <1>2, <1>3, <1>4, NothingElseIs DEF Seen, CopySeen

\* A world of the game, where its title is not that of something else.
LEMMA SetNameSeen ==
  ASSUME NothingElse, step = "setName", NEW t \in Sources, SourcesSeen,
         LevelsRead, Valid("setName", cell[t].value.setName.is),
         Keeps(cell[t].value.setName.is, "currentId")
  PROVE  Seen'
<1> PICK x : x = cell[t].value.setName.is
  OBVIOUS
<1> PICK w : w = got["world"]
  OBVIOUS
<1>1. step' = "currentId" /\ phase' = "find" /\ got' = [got EXCEPT ![step] = x]
  BY DEF Keeps
<1>2. /\ ClocksRead' /\ got'["setName"] = x /\ got'["world"] = w
  BY <1>1, TimeKept, KeysAre DEF TimeRead
<1>3. x = Title(w)
  <2>1. WorldTyped(w, cell[t].value, game)
    BY SourceIs, OwnersAre DEF NothingElse
  <2>2. cell[t].value.setName \in {String(Title(w)), String("menu")}
    BY <2>1 DEF WorldTyped
  <2>3. x \in {Title(w), "menu"}
    BY <2>2 DEF String
  <2>4. x # "menu"
    BY DEF Valid, KnownWorlds
  <2> QED
    BY <2>3, <2>4
<1>4. LevelsRead'
  <2>1. Shown(w, Now(w, "currentId"))
    BY DEF LevelsRead, WorldRead
  <2>2. Shown(w, Now(w, "currentId"))'
    BY <2>1, NothingElseIs, SameHeap DEF NothingElse, Shown
  <2> QED
    BY <1>1, <1>2, <1>3, <2>2 DEF LevelsRead, LevelRead, LockRead, DurationRead
<1>5. StateRead'
  BY <1>1 DEF StateRead, LockRead, DurationRead
<1>6. SourcesSeen'
  <2>1. PICK b : b = Base("world")
    OBVIOUS
  <2>2. Base("world")' = b /\ Owner(step)' = "world"
    BY <1>1, <2>1, NothingElseIs, OwnersAre DEF Base, Owner, NothingElse
  <2>3. \A s \in Sources' : s = b
    BY <1>1, <2>2 DEF Sources, ReadFrom
  <2>4. b \in Sources
    BY <2>1, SourceIs, SubjectIs, OwnersAre DEF NothingElse
  <2>5. PICK v : v = cell[b].value
    OBVIOUS
  <2>6. Shown(w, v.currentId.is)
    BY <2>4, <2>5, OwnersAre DEF SourcesSeen, SourceSeen
  <2>7. SourceSeen(v)'
    BY <1>1, <1>2, <2>2, <2>6, NothingElseIs DEF SourceSeen, Shown
  <2> QED
    BY <2>3, <2>5, <2>7, NothingElseIs DEF SourcesSeen
<1> QED
  BY <1>1, <1>2, <1>4, <1>5, <1>6, NothingElseIs DEF Seen, CopySeen

\* The level and the world that were read were shown together.
LEMMA CurrentIdSeen ==
  ASSUME NothingElse, step = "currentId", NEW x, Shown(got["world"], x),
         LevelsRead, Valid("currentId", x), Keeps(x, "fl_lock")
  PROVE  Seen'
<1>1. step' = "fl_lock" /\ phase' = "find" /\ got' = [got EXCEPT ![step] = x]
  BY DEF Keeps
<1>2. /\ ClocksRead' /\ SourcesSeen' /\ got'["currentId"] = x
      /\ got'["setName"] = got["setName"]
  BY <1>1, TimeKept, KeysAre, OwnersAre DEF TimeRead
<1>3. got["setName"] = Title(got["world"])
  BY DEF LevelsRead
<1>4. x # Junk
  BY DEF Valid, Junk
<1>5. <<Title(got["world"]), x>> \in shown
  BY <1>4 DEF Shown
<1>6. LevelsRead'
  BY <1>1, <1>2, <1>3, <1>5, NothingElseIs DEF LevelsRead, WorldRead
<1>7. StateRead'
  BY <1>1 DEF StateRead, LockRead, DurationRead
<1> QED
  BY <1>1, <1>2, <1>6, <1>7, NothingElseIs DEF Seen, CopySeen

\* From one property of the mode to the next.
LEMMA ModeArrives ==
  ASSUME NothingElse, LevelRead, step # "state", LevelRead', LevelsRead,
         phase' = "find", NEW x, got' = [got EXCEPT ![step] = x]
  PROVE  /\ HistorySeen' /\ ClocksRead' /\ SourcesSeen' /\ LevelsRead'
         /\ ReadTime' = ReadTime /\ got'[step] = x
         /\ \A key \in Key : key # step => got'[key] = got[key]
         /\ Gone => Gone'
<1>1. TimeRead /\ TimeRead' /\ ~ WorldRead' /\ step' # "currentId"
  BY DEF TimeRead, LevelRead, LockRead, DurationRead, WorldRead
<1>2. /\ ClocksRead' /\ ReadTime' = ReadTime /\ got'[step] = x
      /\ \A key \in Key : key # step => got'[key] = got[key]
      /\ Owner(step') = "mode" => SourcesSeen'
  BY <1>1, TimeKept
<1>3. SourcesSeen'
  <2>1. CASE step' = "state"
    BY <2>1, KeysAre DEF SourcesSeen, Sources
  <2>2. CASE step' # "state"
    BY <1>2, <2>2, OwnersAre DEF LevelRead, LockRead, DurationRead
  <2> QED
    BY <2>1, <2>2
<1>4. got'["setName"] = got["setName"] /\ got'["currentId"] = got["currentId"]
  BY <1>2, KeysAre DEF LevelRead, LockRead, DurationRead
<1>5. LevelsRead'
  BY <1>1, <1>4, NothingElseIs DEF LevelsRead
<1>6. Gone => Gone'
  <2>1. Owner(step) = "mode" /\ Owner(step') = "mode"
    BY DEF Owner, LevelRead, LockRead, DurationRead
  <2>2. Owner(step)' = "mode"
    BY <2>1 DEF Owner
  <2>3. Base("mode")' = Base("mode")
    BY NothingElseIs DEF NothingElse, Base
  <2> QED
    BY <2>1, <2>2, <2>3, NothingElseIs DEF Gone, Blank
<1> QED
  BY <1>2, <1>3, <1>5, <1>6, NothingElseIs

\* The lock is one that was true, or the mode is gone and the reading will
\* stop.
LEMMA LockSeen ==
  ASSUME NothingElse, step = "fl_lock", NEW t \in Sources,
         ModeSeen(cell[t].value), LevelsRead, NEW x,
         x = IF Gone THEN FALSE ELSE cell[t].value.fl_lock.is,
         Keeps(x, "duration")
  PROVE  Seen'
<1>1. step' = "duration" /\ phase' = "find" /\ got' = [got EXCEPT ![step] = x]
  BY DEF Keeps
<1>2. /\ HistorySeen' /\ ClocksRead' /\ SourcesSeen' /\ LevelsRead'
      /\ got'["fl_lock"] = x /\ (Gone => Gone')
  BY <1>1, ModeArrives DEF LevelRead, LockRead
<1>3. ~ Gone => x \in locks /\ (~ x => started # None)
  BY DEF ModeSeen
<1>4. StateRead'
  BY <1>1, <1>2, <1>3, NothingElseIs DEF StateRead, DurationRead
<1> QED
  BY <1>1, <1>2, <1>4 DEF Seen, CopySeen

\* The duration is one that was true, at the time that was read or later.
LEMMA DurationSeen ==
  ASSUME NothingElse, step = "duration", NEW t \in Sources, ~ Gone,
         ModeSeen(cell[t].value), ModeTyped(cell[t].value), LevelsRead,
         StateRead, Keeps(cell[t].value.duration.is, "fl_gameOver")
  PROVE  Seen'
<1> PICK x : x = cell[t].value.duration.is
  OBVIOUS
<1>1. /\ step' = "fl_gameOver" /\ phase' = "find"
      /\ got' = [got EXCEPT ![step] = x]
  BY DEF Keeps
<1>2. /\ HistorySeen' /\ ClocksRead' /\ SourcesSeen' /\ LevelsRead'
      /\ got'["duration"] = x /\ ReadTime' = ReadTime
      /\ got'["fl_lock"] = got["fl_lock"]
  BY <1>1, ModeArrives, KeysAre DEF LevelRead, LockRead, DurationRead
<1>3. got["fl_lock"] \in locks /\ (~ got["fl_lock"] => started # None)
  BY DEF StateRead, LockRead
<1>4. /\ x \in Nat /\ Between(before.duration, x, Now("mode", "duration"))
      /\ Timely(x)
  BY DEF ModeSeen, ModeTyped, TimeRead
<1>5. Timely(x)' /\ Now("mode", "duration")' = Now("mode", "duration")
  BY <1>2, <1>4, NothingElseIs, SameHeap DEF NothingElse, Timely
<1>6. StateRead'
  BY <1>1, <1>2, <1>3, <1>4, <1>5, NothingElseIs DEF StateRead, LockRead
<1> QED
  BY <1>1, <1>2, <1>6 DEF Seen, CopySeen

\* The lock and the duration that were read.
LEMMA DurationKept ==
  ASSUME NothingElse, step \in {"fl_gameOver", "endModeTimer"}, StateRead,
         LevelsRead, step' \in {"endModeTimer", "state"}, phase' = "find",
         NEW x, got' = [got EXCEPT ![step] = x]
  PROVE  /\ HistorySeen' /\ ClocksRead' /\ SourcesSeen' /\ LevelsRead'
         /\ got'[step] = x
         /\ \A key \in Key : key # step => got'[key] = got[key]
         /\ got'["fl_lock"] \in locks' /\ (~ got'["fl_lock"] => started' # None)
         /\ got'["duration"] \in Nat
         /\ Between(before.duration, got["duration"], Now("mode", "duration"))'
         /\ Timely(got["duration"])'
<1>1. LevelRead /\ LevelRead' /\ DurationRead /\ LockRead
  BY DEF LevelRead, LockRead, DurationRead
<1>2. /\ HistorySeen' /\ ClocksRead' /\ SourcesSeen' /\ LevelsRead'
      /\ got'[step] = x /\ ReadTime' = ReadTime
      /\ \A key \in Key : key # step => got'[key] = got[key]
  BY <1>1, ModeArrives
<1>3. got'["fl_lock"] = got["fl_lock"]
  BY <1>2, KeysAre
<1>4. PICK d : d = got["duration"]
  OBVIOUS
<1>5. got'["duration"] = d
  BY <1>2, <1>4, KeysAre
<1>6. /\ got["fl_lock"] \in locks /\ (~ got["fl_lock"] => started # None)
      /\ d \in Nat /\ Between(before.duration, d, Now("mode", "duration"))
      /\ Timely(d)
  BY <1>1, <1>4 DEF StateRead
<1>7. Now("mode", "duration")' = Now("mode", "duration")
  BY SameHeap DEF NothingElse
<1>8. Timely(d)'
  BY <1>2, <1>6, NothingElseIs DEF Timely
<1>9. Timely(got["duration"])'
  BY <1>5, <1>8 DEF Timely
<1>10. Between(before.duration, got["duration"], Now("mode", "duration"))'
  BY <1>5, <1>6, <1>7, NothingElseIs
<1> QED
  BY <1>2, <1>3, <1>5, <1>6, <1>9, <1>10, NothingElseIs

\* Game over is never read before it is, nor missed but of what is gone.
LEMMA GameOverSeen ==
  ASSUME NothingElse, step = "fl_gameOver", NEW t \in Sources,
         ModeSeen(cell[t].value), ModeTyped(cell[t].value), LevelsRead, StateRead,
         NEW x, x = IF Gone THEN FALSE ELSE cell[t].value.fl_gameOver.is,
         Keeps(x, "endModeTimer")
  PROVE  Seen'
<1>1. /\ step' = "endModeTimer" /\ phase' = "find"
      /\ got' = [got EXCEPT ![step] = x]
  BY DEF Keeps
<1>2. /\ HistorySeen' /\ ClocksRead' /\ SourcesSeen' /\ LevelsRead'
      /\ got'["fl_gameOver"] = x
      /\ got'["fl_lock"] \in locks' /\ (~ got'["fl_lock"] => started' # None)
      /\ got'["duration"] \in Nat
      /\ Between(before.duration, got["duration"], Now("mode", "duration"))'
      /\ Timely(got["duration"])'
  BY <1>1, DurationKept
<1>3. x \in BOOLEAN
  BY DEF ModeTyped
<1>4. x => Now("mode", "fl_gameOver")'
  <2>1. x => Now("mode", "fl_gameOver")
    BY DEF ModeSeen
  <2> QED
    BY <2>1, SameHeap DEF NothingElse
<1>5. before.over => x \/ ~ open \/ game = "recycled"
  <2>1. CASE Gone
    BY <2>1, GoneIs, SourceIs DEF NothingElse
  <2>2. CASE ~ Gone
    BY <2>2 DEF ModeSeen
  <2> QED
    BY <2>1, <2>2
<1>6. StateRead'
  <2>1. got'["fl_gameOver"] = x
    BY <1>2
  <2>2. before' = before /\ open' = open /\ game' = game
    BY NothingElseIs
  <2>3. before'.over => x \/ ~ open' \/ game' = "recycled"
    BY <1>5, <2>2, Zenon
  <2>4. /\ got'["fl_gameOver"] \in BOOLEAN
        /\ got'["fl_gameOver"] => Now("mode", "fl_gameOver")'
        /\ before'.over => got'["fl_gameOver"] \/ ~ open' \/ game' = "recycled"
    BY <1>3, <1>4, <2>1, <2>3, Zenon
  <2> QED
    BY <1>1, <1>2, <2>4 DEF StateRead
<1> QED
  BY <1>1, <1>2, <1>6 DEF Seen, CopySeen

\* What is left of the cinematic is what it was at the clock read or later.
LEMMA EndModeTimerSeen ==
  ASSUME NothingElse, step = "endModeTimer", LevelsRead, StateRead, NEW x \in Nat,
         Ending(x), x \in remainings \/ ~ open \/ game = "recycled",
         Keeps(x, "state")
  PROVE  Seen'
<1>1. /\ step' = "state" /\ phase' = "find"
      /\ got' = [got EXCEPT ![step] = x]
  BY DEF Keeps
<1>2. /\ HistorySeen' /\ ClocksRead' /\ SourcesSeen' /\ LevelsRead'
      /\ got'["endModeTimer"] = x
      /\ got'["fl_gameOver"] = got["fl_gameOver"]
      /\ got'["frameTimer"] = got["frameTimer"]
      /\ got'["fl_lock"] \in locks' /\ (~ got'["fl_lock"] => started' # None)
      /\ got'["duration"] \in Nat
      /\ Between(before.duration, got["duration"], Now("mode", "duration"))'
      /\ Timely(got["duration"])'
  BY <1>1, DurationKept, KeysAre
<1>4. Ending(x)'
  BY <1>2, NothingElseIs DEF Ending, Ends
<1>5. Ending(got["endModeTimer"])'
  BY <1>2, <1>4 DEF Ending, Ends
<1>6. /\ got["fl_gameOver"] \in BOOLEAN
      /\ got["fl_gameOver"] => Now("mode", "fl_gameOver")
      /\ before.over => got["fl_gameOver"] \/ ~ open \/ game = "recycled"
  BY DEF StateRead
<1>7. Now("mode", "fl_gameOver")' = Now("mode", "fl_gameOver")
  BY SameHeap DEF NothingElse
<1>9. /\ remainings' = remainings /\ open' = open /\ game' = game
      /\ before' = before
  BY NothingElseIs
<1>8. StateRead'
  <2>1. /\ got'["fl_gameOver"] \in BOOLEAN
        /\ got'["fl_gameOver"] => Now("mode", "fl_gameOver")'
        /\ before'.over => got'["fl_gameOver"] \/ ~ open' \/ game' = "recycled"
    BY <1>2, <1>6, <1>7, <1>9
  <2>2. /\ got'["endModeTimer"] \in Nat /\ Ending(got["endModeTimer"])'
        /\ got'["endModeTimer"] \in remainings' \/ ~ open' \/ game' = "recycled"
    BY <1>2, <1>5, <1>9
  <2> QED
    BY <1>1, <1>2, <2>1, <2>2 DEF StateRead
<1> QED
  BY <1>1, <1>2, <1>8 DEF Seen, CopySeen

-----------------------------------------------------------------------------
(* A step of the reader: all of what was seen *)

\* Each property in its turn.
LEMMA ModeTakesSeen ==
  ASSUME NothingElse, NEW t, Takes(t), Seen, SourcesSeen, LevelsRead, StateRead,
         Owner(step) = "mode"
  PROVE  Seen'
<1> PICK v : v = cell[t].value
  OBVIOUS
<1>1. TInv /\ t \in Sources /\ step \in Key
  BY SourceIs DEF NothingElse, Takes
<1>2. ModeSeen(v) /\ ModeTyped(v)
  BY <1>1, SourceIs DEF SourcesSeen, SourceSeen
<1>3. step \in {"gameChrono", "world", "fl_lock", "duration", "fl_gameOver",
                "endModeTimer"}
  BY <1>1, KeysAre, OwnersAre
<1>4. Stops => Seen'
  BY StopsSeen
<1>5. CASE step = "gameChrono"
  BY <1>1, <1>4, <1>5, TakesObject, GameChronoSeen
<1>6. CASE step = "world"
  <2>1. Stops \/ Holds(cell[t].value.world.is)
    BY <1>1, <1>6, TakesObject
  <2> QED
    BY <1>1, <1>2, <1>4, <1>6, <2>1, WorldSeen
<1>7. CASE step = "fl_lock"
  <2> PICK x : x = IF Gone THEN FALSE ELSE cell[t].value.fl_lock.is
    OBVIOUS
  <2>1. Keeps(x, "duration")
    BY <1>1, <1>7, TakesOptional, FollowsAre DEF Optional, Default, Kind, NextStep
  <2> QED
    BY <1>1, <1>2, <1>7, <2>1, LockSeen
<1>8. CASE step = "duration"
  <2>1. Stops \/ (~ Gone /\ Keeps(cell[t].value.duration.is, "fl_gameOver"))
    BY <1>1, <1>8, TakesRequired, FollowsAre
  <2> QED
    BY <1>1, <1>2, <1>4, <1>8, <2>1, DurationSeen
<1>9. CASE step = "fl_gameOver"
  <2> PICK x : x = IF Gone THEN FALSE ELSE cell[t].value.fl_gameOver.is
    OBVIOUS
  <2>1. Keeps(x, "endModeTimer")
    BY <1>1, <1>9, TakesOptional, FollowsAre DEF Optional, Default, Kind, NextStep
  <2> QED
    BY <1>1, <1>2, <1>9, <2>1, GameOverSeen
<1>10. CASE step = "endModeTimer"
  <2> PICK x : x = IF Gone THEN 0 ELSE cell[t].value.endModeTimer.is
    OBVIOUS
  <2>1. Keeps(x, "state")
    BY <1>1, <1>10, TakesOptional, FollowsAre DEF Optional, Default, Kind, NextStep
  <2> QED
    <3>1. ClockRead /\ x \in Nat
      BY <1>2, <1>10 DEF ClockRead, TimeRead, ModeTyped
    <3>2. Ending(x)
      BY <1>2, <3>1 DEF ModeSeen, Ending
    <3>3. x \in remainings \/ ~ open \/ game = "recycled"
      BY <1>1, <1>2, SourceIs, GoneIs DEF ModeSeen
    <3> QED
      BY <1>10, <2>1, <3>1, <3>2, <3>3, EndModeTimerSeen
<1> QED
  BY <1>3, <1>5, <1>6, <1>7, <1>8, <1>9, <1>10

\* Each property of the Chrono.
LEMMA ChronoTakesSeen ==
  ASSUME NothingElse, NEW t, Takes(t), Seen, SourcesSeen, LevelsRead, StateRead,
         Owner(step) = "chrono"
  PROVE  Seen'
<1> PICK v : v = cell[t].value
  OBVIOUS
<1>1. TInv /\ t \in Sources /\ step \in Key
  BY SourceIs DEF NothingElse, Takes
<1>2. ChronoSeen(v) /\ ChronoTyped(v) /\ SourceSeen(v)
  BY <1>1, SourceIs DEF SourcesSeen, SourceSeen
<1>3. step \in {"frameTimer", "fl_stop", "haltedTimer", "gameTimer"}
  BY <1>1, KeysAre, OwnersAre
<1>4. Stops => Seen'
  BY StopsSeen
<1>5. CASE step = "frameTimer"
  <2>1. Stops \/ Keeps(cell[t].value.frameTimer.is, "fl_stop")
    BY <1>1, <1>5, TakesRequired, FollowsAre
  <2> QED
    BY <1>1, <1>2, <1>4, <1>5, <2>1, FrameTimerSeen
<1>6. CASE step = "fl_stop"
  <2> PICK x : x = IF Gone THEN FALSE ELSE cell[t].value.fl_stop.is
    OBVIOUS
  <2>1. Keeps(x, NextStep("fl_stop", x))
    BY <1>1, <1>6, TakesOptional DEF Optional, Default, Kind
  <2>2. Keeps(x, IF x THEN "haltedTimer" ELSE "gameTimer")
    BY <2>1, FollowsAre DEF NextStep
  <2> QED
    BY <1>1, <1>2, <1>6, <2>2, StopSeen
<1>7. CASE step = "haltedTimer"
  <2> PICK x : x = IF Gone THEN None ELSE cell[t].value.haltedTimer.is
    OBVIOUS
  <2>1. Keeps(x, NextStep("haltedTimer", x))
    BY <1>1, <1>7, TakesOptional DEF Optional, Default, Kind
  <2>2. Keeps(x, IF x = None THEN "gameTimer" ELSE "world")
    BY <2>1, FollowsAre DEF NextStep
  <2>3. Halted(v)
    BY <1>2, <1>7 DEF SourceSeen
  <2> QED
    BY <1>1, <1>2, <1>7, <2>2, <2>3, HaltedTimerSeen
<1>8. CASE step = "gameTimer"
  <2>1. Stops \/ (~ Gone /\ Keeps(cell[t].value.gameTimer.is, "world"))
    BY <1>1, <1>8, TakesRequired, FollowsAre
  <2> QED
    <3> PICK x : x = cell[t].value.gameTimer.is
      OBVIOUS
    <3>1. x \in Int /\ x <= Now("chrono", "gameTimer")
      BY <1>2 DEF ChronoSeen, ChronoTyped
    <3>2. ~ Gone => ~ got["fl_stop"] /\ got["frameTimer"] - x <= Time
      BY <1>2, <1>8 DEF SourceSeen
    <3> QED
      BY <1>4, <1>8, <2>1, <3>1, <3>2, GameTimerSeen
<1> QED
  BY <1>3, <1>5, <1>6, <1>7, <1>8

\* Each property of the world.
LEMMA WorldTakesSeen ==
  ASSUME NothingElse, NEW t, Takes(t), Seen, SourcesSeen, LevelsRead, StateRead,
         Owner(step) = "world"
  PROVE  Seen'
<1>1. TInv /\ t \in Sources /\ step \in Key
  BY SourceIs DEF NothingElse, Takes
<1>2. SourceSeen(cell[t].value)
  BY <1>1 DEF SourcesSeen
<1>3. step \in {"setName", "currentId"}
  BY <1>1, KeysAre, OwnersAre
<1>4. Stops => Seen'
  BY StopsSeen
<1>5. CASE step = "setName"
  <2>1. Stops \/ (Valid("setName", cell[t].value.setName.is)
                  /\ Keeps(cell[t].value.setName.is, "currentId"))
    BY <1>1, <1>5, TakesRequired, FollowsAre
  <2> QED
    BY <1>1, <1>4, <1>5, <2>1, SetNameSeen
<1>6. CASE step = "currentId"
  <2>1. Stops \/ (Valid("currentId", cell[t].value.currentId.is)
                  /\ Keeps(cell[t].value.currentId.is, "fl_lock"))
    BY <1>1, <1>6, TakesRequired, FollowsAre
  <2> QED
    <3>1. Shown(got["world"], cell[t].value.currentId.is)
      BY <1>2, <1>6, OwnersAre DEF SourceSeen
    <3> QED
      BY <1>4, <1>6, <2>1, <3>1, CurrentIdSeen
<1> QED
  BY <1>3, <1>5, <1>6

\* What is left of the last entry was true when it was, and not of what is
\* gone.
LEMMA LeftTakesSeen ==
  ASSUME NothingElse, NEW x, TakesLeft(x), before # None, Seen
  PROVE  Seen'
<1>1. /\ TInv /\ LevelsRead /\ StateRead /\ CopySeen
      /\ LeftTaken(x) /\ Keeps(x, Follows(step))
  BY LeftTakes DEF Seen, NothingElse
<1>2. /\ step \in {"endModeTimer", "gameTimer", "currentId"}
      /\ step \in Key /\ phase = "value" /\ x \in Int /\ Valid(step, x)
      /\ step = "endModeTimer" => x \in Nat
  BY <1>1, LeftIs
<1>3. LeftSeen(x)
  BY <1>1 DEF CopySeen, LeftTaken
<1>4. ~ Gone
  BY <1>1, <1>2 DEF Gone, LeftTaken
<1>5. CASE step = "endModeTimer"
  BY <1>1, <1>2, <1>3, <1>5, FollowsAre, EndModeTimerSeen DEF LeftSeen
<1>6. CASE step = "currentId"
  BY <1>1, <1>2, <1>3, <1>6, FollowsAre, CurrentIdSeen DEF LeftSeen
<1>7. CASE step = "gameTimer"
  BY <1>1, <1>2, <1>3, <1>4, <1>7, FollowsAre, GameTimerSeen DEF LeftSeen
<1> QED
  BY <1>2, <1>5, <1>6, <1>7

\* Whatever property is taken, what was got was seen.
LEMMA TakesSeen ==
  ASSUME TInv, HeapClocks, Seen
  PROVE  /\ \A t : Takes(t) => Seen'
         /\ \A x : TakesLeft(x) => Seen'
<1>4. ASSUME NEW x, TakesLeft(x) PROVE Seen'
  <2>1. before' = before
    BY <1>4 DEF TakesLeft, history
  <2>2. CASE before = None
    BY <2>1, <2>2 DEF Seen
  <2>3. CASE before # None
    <3>1. NothingElse
      BY <1>4, <2>3, LeftTakesTyped DEF NothingElse, TakesLeft, Seen
    <3> QED
      BY <1>4, <2>3, <3>1, LeftTakesSeen
  <2> QED
    BY <2>2, <2>3
<1> SUFFICES ASSUME NEW t, Takes(t) PROVE Seen'
  BY <1>4
<1>1. t \in Sources /\ before' = before
  BY DEF Takes, history
<1>2. CASE before = None
  BY <1>1, <1>2 DEF Seen
<1>3. CASE before # None
  <2>1. HistorySeen /\ SourcesSeen /\ ClocksRead /\ LevelsRead /\ StateRead
    BY <1>1, <1>3, SeenIs
  <2>2. NothingElse
    BY <2>1, TakesTyped DEF NothingElse, Takes
  <2>3. Owner(step) \in {"mode", "chrono", "world"}
    BY <1>1, SourceIs, KeysAre, OwnersAre
  <2> QED
    BY <2>1, <2>2, <2>3, ModeTakesSeen, ChronoTakesSeen, WorldTakesSeen
<1> QED
  BY <1>2, <1>3

\* Where a property is found is where it was looked for.
LEMMA FindsSeen ==
  ASSUME TInv, HeapClocks, Seen, Finds
  PROVE  Seen'
<1>1. /\ open' = open /\ game' = game /\ table' = table /\ cell' = cell
      /\ player' = player /\ at' = at /\ got' = got /\ step' = step
      /\ phase = "find" /\ phase' = "value" /\ step \in Key
      /\ started' = started /\ ended' = ended /\ player \in {"pepper", "ruffle"}
      /\ Clock' = Clock /\ Time' = Time
      /\ \A o : Values(o)' = Values(o)
      /\ \A o, key : Now(o, key)' = Now(o, key)
  BY SameHeap DEF Finds, TInv, ReaderTyped
<1>2. HistorySeen' = HistorySeen /\ before' = before /\ shown' = shown
      /\ locks' = locks /\ remainings' = remainings
  BY SameHistory DEF Finds
<1>3. CASE before = None
  BY <1>2, <1>3 DEF Seen
<1>4. CASE before # None
  <2>1. /\ HistorySeen /\ SourcesSeen /\ ClocksRead /\ LevelsRead /\ StateRead
    BY <1>4 DEF Seen
  <2>2. PICK kind, b : kind = Owner(step) /\ b = Base(kind)
    OBVIOUS
  <2>3. Owner(step)' = kind /\ Base(kind)' = b /\ base' = b
    BY <1>1, <2>2 DEF Owner, Base, Finds
  <2>4. Gone => Gone'
    BY <1>1, <2>2, <2>3 DEF Gone, Blank
  <2>5. b \in Sources /\ \A s \in Sources' : s = b
    BY <1>1, <2>2, <2>3, SubjectIs DEF Sources, ReadFrom
  <2>6. PICK v : v = cell[b].value
    OBVIOUS
  <2>7. SourceSeen(v)
    BY <2>1, <2>5, <2>6 DEF SourcesSeen
  <2>8. SourceSeen(v)'
    <3>1. TimeRead' = TimeRead /\ ClockRead' = ClockRead /\ ReadTime' = ReadTime
      BY <1>1 DEF TimeRead, ClockRead, ReadTime, State
    <3>2. ModeSeen(v) => ModeSeen(v)'
      BY <1>1, <1>2, <3>1 DEF ModeSeen, Shown, Timely, Ending, Ends
    <3>3. /\ ChronoSeen(v) => ChronoSeen(v)'
          /\ Halted(v) => Halted(v)'
      BY <1>1, <1>2, <3>1 DEF ChronoSeen, Halted
    <3>4. Shown(got["world"], v.currentId.is) = Shown(got["world"], v.currentId.is)'
      BY <1>1, <1>2 DEF Shown
    <3> QED
      BY <1>1, <2>2, <2>3, <2>4, <2>7, <3>2, <3>3, <3>4 DEF SourceSeen
  <2>9. SourcesSeen'
    BY <1>1, <2>5, <2>6, <2>8 DEF SourcesSeen
  <2>10. ClocksRead' /\ LevelsRead'
    BY <1>1, <1>2, <2>1 DEF ClocksRead, LevelsRead, ClockRead, TimeRead, ReadTime,
         State, WorldRead, LevelRead, LockRead, DurationRead, Shown
  <2>11. StateRead'
    BY <1>1, <1>2, <2>1, <2>4 DEF StateRead, LockRead, DurationRead, Timely,
         ReadTime, State, Ending, Ends
  <2>12. CopySeen'
    <3>1. player = "ruffle" => length' = Length(base)'
      BY <1>1 DEF Finds, Length
    <3> QED
      BY <1>1, <3>1 DEF CopySeen
  <2> QED
    BY <1>2, <2>1, <2>9, <2>10, <2>11, <2>12 DEF Seen
<1> QED
  BY <1>3, <1>4

\* An object is followed to the table it has.
LEMMA ReachesSeen ==
  ASSUME TInv, HeapClocks, Seen, NEW kind, NEW o, NEW next, Reaches(kind, o, next)
  PROVE  Seen'
<1>1. /\ cell' = cell /\ Clock' = Clock /\ Time' = Time /\ got' = got
      /\ HeapTyped' /\ HeapClocks'
      /\ \A p : Values(p)' = Values(p)
      /\ \A p, key : Now(p, key)' = Now(p, key)
  BY SameHeap DEF Reaches, TInv
<1>2. HistorySeen' = HistorySeen /\ before' = before /\ shown' = shown
      /\ locks' = locks
  BY SameHistory DEF Reaches
<1>3. PICK b : b = table[o]
  OBVIOUS
<1>4. Owner(step)' = kind /\ Base(kind)' = b /\ phase = "follow"
      /\ phase' = "find" /\ step' = next
  BY <1>3, FollowsIs DEF Reaches
<1>5. \A s \in Sources' : s = b
  BY <1>4 DEF Sources, ReadFrom
<1>6. PICK v : v = cell[b].value
  OBVIOUS
<1>7. v = Values(o) /\ v = Values(o)'
  BY <1>1, <1>3, <1>6 DEF Values
<1>8. CASE before = None
  BY <1>2, <1>8 DEF Seen
<1>9. CASE before # None /\ step = "gameChrono"
  <2>1. HistorySeen
    BY <1>9 DEF Seen
  <2>2. kind = "chrono" /\ o = "chrono" /\ step' = "frameTimer"
    BY <1>9 DEF Reaches
  <2>3. ClocksRead' /\ LevelsRead' /\ StateRead'
    BY <1>4, <2>2 DEF ClocksRead, ClockRead, TimeRead, LevelsRead, WorldRead,
         LevelRead, StateRead, LockRead, DurationRead
  <2>4. (HeapTyped /\ HeapClocks /\ HistorySeen /\ ClocksRead
         => ModeNowSeen /\ ChronoNowSeen)'
    BY NowIsSeen, PTL
  <2>5. ChronoSeen(Values("chrono"))'
    BY <1>1, <1>2, <2>1, <2>3, <2>4 DEF ChronoNowSeen
  <2>6. PICK u : u = Values("chrono")
    OBVIOUS
  <2>7. ChronoSeen(u)'
    BY <1>1, <2>5, <2>6
  <2>8. SourceSeen(v)'
    BY <1>4, <1>7, <2>2, <2>6, <2>7 DEF SourceSeen
  <2>9. SourcesSeen'
    BY <1>1, <1>5, <1>6, <2>8 DEF SourcesSeen
  <2> QED
    BY <1>2, <1>4, <2>1, <2>3, <2>9 DEF Seen, CopySeen
<1>10. CASE before # None /\ step = "world"
  <2>1. HistorySeen /\ ClocksRead /\ LevelsRead
    BY <1>10 DEF Seen
  <2>2. kind = "world" /\ o = got["world"] /\ step' = "setName"
    BY <1>10 DEF Reaches
  <2>3. ReadTime' = ReadTime
    BY <1>1 DEF ReadTime, State
  <2>4. ClocksRead'
    BY <1>1, <1>2, <1>10, <2>1, <2>2, <2>3 DEF ClocksRead, ClockRead, TimeRead
  <2>5. Shown(o, Now(o, "currentId"))
    BY <1>4, <1>10, <2>1, <2>2 DEF LevelsRead, WorldRead
  <2>6. Shown(o, Now(o, "currentId"))'
    BY <1>1, <1>2, <2>5 DEF Shown
  <2>7. LevelsRead' /\ StateRead'
    BY <1>1, <2>2, <2>6 DEF LevelsRead, LevelRead, StateRead, LockRead, DurationRead
  <2>8. Shown(o, v.currentId.is)
    BY <1>7, <2>5 DEF Now
  <2>9. SourceSeen(v)'
    BY <1>1, <1>2, <1>4, <2>2, <2>8 DEF SourceSeen, Shown
  <2>10. SourcesSeen'
    BY <1>1, <1>5, <1>6, <2>9 DEF SourcesSeen
  <2> QED
    BY <1>2, <1>4, <2>1, <2>4, <2>7, <2>10 DEF Seen, CopySeen
<1> QED
  BY <1>8, <1>9, <1>10 DEF Reaches

\* What is true is something, where the memory is that of the game.
LEMMA TruthIs ==
  ASSUME HeapTyped, game # "recycled"
  PROVE  Truth # None
<1>1. /\ Truth.frame \in Nat /\ Truth.chrono \in Int /\ Truth.lock \in BOOLEAN
      /\ Truth.duration \in Nat /\ Truth.over \in BOOLEAN /\ Truth.remaining \in Nat
  BY ValuesAre, TimeIs DEF Truth
<1>2. Truth.level \in (KnownWorlds \cup {"menu"}) \X Int
  <2>1. /\ Truth.level = <<Now(Home, "setName"), Now(Home, "currentId")>>
        /\ Now(Home, "setName") = Title(Home) /\ Home \in World
    BY HomeIs
  <2>2. Now(Home, "currentId") \in Int
    BY <2>1, ValuesAre DEF WorldTyped, Now
  <2> QED
    BY <2>1, <2>2 DEF Title, KnownWorlds
<1>3. Truth \in Truths
  BY <1>1, <1>2 DEF Truth, Truths
<1> QED
  BY <1>3, NothingAssumption

\* A reading begins with what is true, or in a memory that is corrupt.
LEMMA BeginSeen ==
  ASSUME RInv, Begin
  PROVE  Seen' /\ Hopeless'
<1>1. TInv /\ HeapTyped /\ HeapClocks /\ Seen /\ Hopeless /\ Idle /\ before = None
  BY DEF RInv, TInv, Begin, Hopeless
<1>2. /\ game' = game /\ cell' = cell /\ table' = table /\ Clock' = Clock
      /\ Time' = Time /\ Locked' = Locked /\ Home' = Home
      /\ Remaining' = Remaining
      /\ \A o, key : Now(o, key)' = Now(o, key)
      /\ HeapTyped' /\ HeapClocks'
  BY <1>1, SameHeap DEF Begin
<1>3. TInv' /\ step' = "gameChrono" /\ phase' = "find" /\ ~ Idle' /\ step' \in Key
  BY <1>1, BeginTyped, KeysAre DEF Begin, Idle
<1>4. CASE game = "recycled"
  <2>1. before' = None
    BY <1>1, <1>4 DEF Begin
  <2>2. Corrupt
    BY <1>1, <1>4 DEF Hopeless
  <2>3. Corrupt' /\ Doomed'
    BY <1>2, <1>3, <2>2 DEF Corrupt, Doomed, Blank, UpToTheWorld
  <2> QED
    BY <1>2, <1>3, <1>4, <2>1, <2>3 DEF Seen, Hopeless
<1>5. CASE game # "recycled"
  <2>1. /\ before' = Truth /\ shown' = {Truth.level} /\ locks' = {Locked}
        /\ remainings' = {Remaining}
        /\ before' # None
    BY <1>1, <1>5, TruthIs DEF Begin
  <2>2. /\ before'.frame = Clock /\ before'.chrono = Time
        /\ before'.duration = Now("mode", "duration")
        /\ before'.over = Now("mode", "fl_gameOver")
    BY <1>1, <2>1, TimeIs DEF Truth
  <2>3. /\ Clock \in Nat /\ Time \in Int /\ Now("mode", "duration") \in Nat
        /\ Now("mode", "fl_gameOver") \in BOOLEAN
    BY <1>1, ClocksAgree, ValuesAre
  <2>4. PICK w : w = Home
    OBVIOUS
  <2>5. <<Title(w), Now(w, "currentId")>> \in shown'
    BY <1>1, <1>5, <2>1, <2>4, HomeIs
  <2>6. Shown(w, Now(w, "currentId"))' /\ Now("mode", "world")' = w
    BY <1>2, <2>4, <2>5 DEF Shown, Home
  <2>7. Shown(Now("mode", "world"), Now(Now("mode", "world"), "currentId"))'
    BY <2>6 DEF Shown
  <2>8. HistorySeen'
    BY <1>2, <2>1, <2>2, <2>3, <2>7 DEF HistorySeen
  <2>9. ClocksRead' /\ LevelsRead' /\ StateRead'
    BY <1>3 DEF ClocksRead, ClockRead, TimeRead, LevelsRead, WorldRead, LevelRead,
         StateRead, LockRead, DurationRead
  <2>10. (TInv /\ HeapClocks /\ HistorySeen /\ ClocksRead /\ phase = "find"
          /\ Owner(step) = "mode" => SourcesSeen)'
    BY ModeSourcesSeen, PTL
  <2>11. Owner(step)' = "mode"
    BY <1>3, OwnersAre DEF Owner
  <2>12. SourcesSeen'
    BY <1>2, <1>3, <2>8, <2>9, <2>10, <2>11
  <2>13. Hopeless'
    BY <1>2, <1>3, <1>5, <2>1 DEF Hopeless
  <2> QED
    BY <1>3, <2>8, <2>9, <2>12, <2>13 DEF Seen, CopySeen
<1> QED
  BY <1>4, <1>5

-----------------------------------------------------------------------------
(* A step of the reader: a memory used again before the reading began *)

\* A step that leaves the memory and the history leaves what is corrupt.
LEMMA HopelessOnward ==
  ASSUME Hopeless, UNCHANGED <<heap, history>>, ~ Idle, step' # "rest"
  PROVE  /\ before # None => Hopeless'
         /\ step' = "none" => Hopeless'
         /\ game = "recycled" => Corrupt'
         /\ game' = game /\ before' = before
<1>1. /\ game' = game /\ table' = table /\ cell' = cell
      /\ \A o, key : Now(o, key)' = Now(o, key)
      /\ Home' = Home
  BY SameHeap
<1>2. before' = before
  BY DEF history
<1>3. Corrupt' = Corrupt
  BY <1>1 DEF Corrupt, Blank
<1>4. ~ Idle'
  BY DEF Idle
<1> QED
  BY <1>1, <1>2, <1>3, <1>4 DEF Hopeless

\* A slot that is found in a hopeless reading is in the table it will fail on.
LEMMA FindsHopeless ==
  ASSUME RInv, Finds
  PROVE  Hopeless'
<1>1. Hopeless /\ step \in Key /\ ~ Idle /\ step' = step
  BY KeysAre DEF RInv, Finds, Idle
<1>2. /\ before # None => Hopeless'
      /\ game = "recycled" => Corrupt'
      /\ game' = game /\ before' = before
  BY <1>1, HopelessOnward, KeysAre DEF Finds
<1>3. CASE before = None
  <2>1. game = "recycled" /\ Doomed
    BY <1>1, <1>3, KeysAre DEF Hopeless
  <2>2. /\ table' = table /\ cell' = cell /\ got' = got /\ at' = at
        /\ player' = player /\ Home' = Home
        /\ \A o, key : Now(o, key)' = Now(o, key)
        /\ phase = "find" /\ phase' = "value" /\ base' = Base(Owner(step))
    BY SameHeap DEF Finds
  <2>3. Doomed'
    BY <1>1, <2>1, <2>2 DEF Doomed, Blank, AtHome, Base
  <2>4. /\ base' = Base(Owner(step))'
        /\ player' = "ruffle" => length' = Length(base)'
    BY <1>1, <2>2 DEF Base, Owner, Finds, Length
  <2> QED
    BY <1>1, <1>2, <2>1, <2>2, <2>3, <2>4 DEF Hopeless, Idle
<1> QED
  BY <1>2, <1>3

\* An object that is reached leaves a hopeless reading hopeless.
LEMMA ReachesHopeless ==
  ASSUME RInv, NEW kind, NEW o, NEW next, Reaches(kind, o, next)
  PROVE  Hopeless'
<1>1. Hopeless /\ TInv /\ step \in Key /\ ~ Idle /\ step' = next
      /\ next \in {"frameTimer", "setName"}
  BY KeysAre DEF RInv, Reaches, Idle
<1>2. /\ before # None => Hopeless'
      /\ game = "recycled" => Corrupt'
      /\ game' = game /\ before' = before
  BY <1>1, HopelessOnward, KeysAre DEF Reaches
<1>3. CASE before = None
  <2>1. /\ game = "recycled" /\ Doomed
        /\ step = "world" => got["world"] = Home
    BY <1>1, <1>3, KeysAre DEF Hopeless, Reaches
  <2>2. /\ table' = table /\ cell' = cell /\ got' = got
        /\ Home' = Home /\ phase = "follow" /\ phase' = "find"
        /\ \A p, key : Now(p, key)' = Now(p, key)
        /\ ~ Blank(table[o])
    BY SameHeap DEF Reaches
  <2>3. Base(kind)' = table[o]
    BY <1>1, FollowsIs
  <2>4. Doomed'
    <3>1. CASE step = "gameChrono"
      BY <2>1, <2>2, <3>1 DEF Reaches, Doomed, Blank, UpToTheWorld
    <3>2. CASE step = "world"
      <4>1. o = Home /\ kind = "world" /\ step' = "setName"
        BY <2>1, <3>2 DEF Reaches
      <4>2. AtHome'
        BY <2>1, <2>2, <2>3, <3>2, <4>1 DEF AtHome
      <4>3. Now(Home, "setName") = "menu" \/ Now(Home, "currentId") = Junk
        BY <2>1, <2>2, <3>2, <4>1 DEF Doomed
      <4> QED
        BY <2>2, <4>1, <4>2, <4>3 DEF Doomed
    <3> QED
      BY <3>1, <3>2 DEF Reaches
  <2> QED
    BY <1>1, <1>2, <2>1, <2>2, <2>4, KeysAre DEF Hopeless, Idle
<1> QED
  BY <1>2, <1>3

\* Up to the world, the reading goes on towards what is corrupt.
LEMMA TowardsTheWorld ==
  ASSUME RInv, before = None, UNCHANGED <<heap, history>>,
         step \in UpToTheWorld, step' \in UpToTheWorld, phase' # "value",
         step' = "world" /\ phase' = "follow" => got'["world"] = Home,
         step = "gameChrono" => step' = "gameChrono" /\ ~ Blank(table["mode"])
  PROVE  Hopeless'
<1>1. /\ Hopeless /\ ~ Idle /\ step \in Key /\ step # "none"
      /\ step' \in Key /\ step' # "rest"
  BY KeysAre DEF RInv, UpToTheWorld, Idle
<1>2. game = "recycled" /\ Doomed
  BY <1>1 DEF Hopeless
<1>3. /\ game' = game /\ before' = before /\ Corrupt'
  BY <1>1, <1>2, HopelessOnward
<1>4. /\ table' = table /\ cell' = cell /\ Home' = Home
      /\ \A o, key : Now(o, key)' = Now(o, key)
  BY SameHeap
<1>5. Doomed'
  BY <1>2, <1>4 DEF Doomed, Blank, UpToTheWorld
<1> QED
  BY <1>1, <1>2, <1>3, <1>4, <1>5 DEF Hopeless, Idle

\* A hopeless reading never gets past what is corrupt.
LEMMA TakesHopeless ==
  ASSUME RInv, NEW t, Takes(t)
  PROVE  Hopeless'
<1>1. /\ TInv /\ HeapTyped /\ Hopeless /\ t \in Sources /\ UNCHANGED <<heap, history>>
      /\ step \in Key /\ phase # "follow" /\ step # "none" /\ ~ Idle
      /\ step' # "rest"
  <2>1. TInv /\ t \in Sources /\ TInv' /\ UNCHANGED <<heap, history>>
    BY TakesTyped DEF RInv, Takes
  <2>2. step \in Key /\ phase # "follow"
    BY <2>1, SourceIs
  <2>3. step' # "rest"
    BY <2>2, KeysAre, FollowsAre DEF Takes, Take, NextStep
  <2> QED
    BY <2>1, <2>2, <2>3, KeysAre DEF RInv, TInv, Idle
<1>2. /\ before # None => Hopeless'
      /\ step' = "none" => Hopeless'
  BY <1>1, HopelessOnward
<1>3. Stops => Hopeless'
  BY <1>2 DEF Stops
<1>4. CASE before = None
  <2>1. /\ game = "recycled" /\ Doomed
        /\ phase = "value" => base = Base(Owner(step))
    BY <1>1, <1>4 DEF Hopeless
  <2>2. t = Base(Owner(step))
    BY <1>1, <2>1 DEF Sources, ReadFrom
  <2>3. step \in UpToTheWorld \cup {"setName", "currentId"}
    BY <2>1 DEF Doomed, UpToTheWorld
  <2>4. CASE step \in {"gameChrono", "world"}
    <3>1. t = table["mode"]
      BY <1>1, <2>2, <2>4, OwnersAre DEF TInv, ReaderTyped, Base
    <3>2. CASE Stops
      BY <1>3, <3>2
    <3>3. CASE ~ Gone /\ Holds(cell[t].value[step].is)
      <4>1. step' = step /\ phase' = "follow"
            /\ got' = [got EXCEPT ![step] = cell[t].value[step].is]
        BY <3>3 DEF Holds
      <4>2. ~ Blank(table["mode"])
        BY <2>1, <2>2, <3>1, <3>3 DEF Gone
      <4>3. step = "world" => got'["world"] = Home
        <5>1. step = "world" => got'["world"] = cell[t].value["world"].is
          BY <1>1, <4>1 DEF TInv, ReaderTyped
        <5> QED
          BY <3>1, <5>1 DEF Home, Now, Values
      <4> QED
        BY <1>1, <1>4, <2>4, <4>1, <4>2, <4>3, TowardsTheWorld DEF UpToTheWorld
    <3> QED
      BY <1>1, <2>4, <3>2, <3>3, TakesObject
  <2>5. CASE step \in {"frameTimer", "gameTimer"}
    <3>1. Stops \/ Keeps(cell[t].value[step].is, Follows(step))
      BY <1>1, <2>5, TakesRequired
    <3>2. ASSUME Keeps(cell[t].value[step].is, Follows(step)) PROVE Hopeless'
      <4>1. step' \in {"fl_stop", "world"} /\ phase' = "find"
        BY <2>5, <3>2, FollowsAre DEF Keeps
      <4> QED
        BY <1>1, <1>4, <2>5, <4>1, TowardsTheWorld DEF UpToTheWorld
    <3> QED
      BY <1>3, <3>1, <3>2
  <2>6. CASE step \in {"fl_stop", "haltedTimer"}
    <3>1. PICK x : Keeps(x, NextStep(step, x))
      BY <1>1, <2>6, TakesOptional DEF Optional
    <3>2. step' \in {"haltedTimer", "gameTimer", "world"} /\ phase' = "find"
      BY <2>6, <3>1, FollowsAre DEF Keeps, NextStep
    <3> QED
      BY <1>1, <1>4, <2>6, <3>2, TowardsTheWorld DEF UpToTheWorld
  <2>7. CASE step \in {"setName", "currentId"}
    <3>1. /\ AtHome /\ t = table[Home]
          /\ \/ step = "setName" /\ Now(Home, "setName") = "menu"
             \/ Now(Home, "currentId") = Junk
      BY <2>1, <2>2, <2>7, OwnersAre DEF Doomed, AtHome, UpToTheWorld
    <3>2. cell[t].value[step].is = Now(Home, step)
      BY <3>1 DEF Now, Values
    <3>3. \/ Stops
          \/ /\ Valid(step, cell[t].value[step].is)
             /\ Keeps(cell[t].value[step].is, Follows(step))
      BY <1>1, <2>7, TakesRequired
    <3>4. ASSUME Valid(step, cell[t].value[step].is),
                 Keeps(cell[t].value[step].is, Follows(step))
          PROVE  Hopeless'
      <4>1. Valid(step, Now(Home, step))
        BY <3>2, <3>4
      <4>2. ~ (step = "setName" /\ Now(Home, "setName") = "menu")
        BY <4>1 DEF Valid, KnownWorlds
      <4>3. ~ (step = "currentId" /\ Now(Home, "currentId") = Junk)
        BY <4>1 DEF Valid, Junk
      <4>4. step = "setName" /\ Now(Home, "currentId") = Junk
        BY <2>7, <3>1, <4>2, <4>3
      <4>5. /\ step' = "currentId" /\ phase' = "find" /\ at' = at /\ player' = player
            /\ got' = [got EXCEPT ![step] = cell[t].value[step].is]
        BY <3>4, <4>4, FollowsAre DEF Keeps
      <4>6. got'["world"] = got["world"]
        BY <4>4, <4>5, KeysAre, <1>1 DEF TInv, ReaderTyped
      <4>7. /\ table' = table /\ Home' = Home
            /\ Now(Home, "currentId")' = Now(Home, "currentId")
        BY <1>1, SameHeap
      <4>8. Base("world")' = Base("world")
        BY <4>5, <4>7 DEF Base
      <4>9. AtHome'
        BY <3>1, <4>6, <4>7, <4>8 DEF AtHome
      <4>10. Doomed'
        BY <4>4, <4>5, <4>7, <4>9 DEF Doomed
      <4>11. game' = game /\ before' = before /\ Corrupt'
        BY <1>1, <2>1, HopelessOnward
      <4> QED
        BY <2>1, <4>5, <4>10, <4>11, KeysAre DEF Hopeless, Idle
    <3> QED
      BY <1>3, <3>3, <3>4
  <2> QED
    BY <2>3, <2>4, <2>5, <2>6, <2>7 DEF UpToTheWorld
<1> QED
  BY <1>2, <1>4

\* Nothing is left of an entry that a hopeless reading finds.
LEMMA LeftTakesHopeless ==
  ASSUME RInv, NEW x, TakesLeft(x)
  PROVE  Hopeless'
<1>1. /\ TInv /\ Hopeless /\ LeftTaken(x) /\ Keeps(x, Follows(step))
      /\ step \in {"endModeTimer", "gameTimer", "currentId"} /\ step \in Key
      /\ phase = "value"
  BY LeftTakes, LeftIs DEF RInv
<1>2. before # None
  <2>1. SUFFICES ASSUME before = None PROVE FALSE
    OBVIOUS
  <2>2. step # "none" /\ ~ Idle
    BY <1>1 DEF Idle
  <2> QED
    BY <1>1, <2>1, <2>2 DEF Hopeless, LeftTaken
<1>3. step' # "rest" /\ ~ Idle /\ UNCHANGED <<heap, history>>
  BY <1>1, FollowsAre DEF Keeps, Idle
<1> QED
  BY <1>1, <1>2, <1>3, HopelessOnward

\* A reading that stops is over.
LEMMA StopsHopeless ==
  ASSUME RInv, Stops, step # "rest"
  PROVE  Hopeless'
BY HopelessOnward DEF RInv, Stops, Idle

-----------------------------------------------------------------------------
(* The inductive invariant holds *)

\* The invariant holds of a game that was just launched.
LEMMA InitRInv ==
  ASSUME Init
  PROVE  RInv
<1>1. /\ open = TRUE /\ game = "runs" /\ ticked = FALSE
      /\ table = [mode |-> 1, chrono |-> 2, main |-> 3, dimension |-> 4]
      /\ DOMAIN table = Object
  BY ObjectsAre DEF Init, HeapInit
<1>2. /\ Len(cell) = 4 /\ DOMAIN cell = 1..4
      /\ cell[1] = Table("mode", [gameChrono |-> Reference("chrono"),
                                  world |-> Reference("main"),
                                  fl_lock |-> Bool(TRUE), duration |-> Number(0),
                                  fl_gameOver |-> Bool(FALSE),
                                  endModeTimer |-> Number(0)])
      /\ cell[2] = Table("chrono", [frameTimer |-> Number(0),
                                    fl_stop |-> Bool(FALSE),
                                    haltedTimer |-> Number(0),
                                    gameTimer |-> Number(0)])
      /\ cell[3] = NewWorld("main", "xml_adventure")
      /\ cell[4] = NewWorld("dimension", "xml_deepnight")
  BY DEF Init, HeapInit
<1>3. TableOf("mode", 1)
  <2>1. DOMAIN cell[1] = {"keys", "first", "value", "left"}
        /\ cell[1].keys = KeysOf("mode") /\ cell[1].first = 1
        /\ cell[1].left = <<>>
        /\ DOMAIN cell[1].value = Properties("mode")
    BY <1>2, PropertiesAre DEF Table
  <2>2. cell[1].keys # <<>>
    BY <2>1, KeysOfAre, ObjectsAre
  <2>3. cell[1].value = [gameChrono |-> Reference("chrono"),
                         world |-> Reference("main"),
                         fl_lock |-> Bool(TRUE), duration |-> Number(0),
                         fl_gameOver |-> Bool(FALSE),
                         endModeTimer |-> Number(0)]
    BY <1>2, SMTT(30) DEF Table
  <2>4. ModeTyped(cell[1].value)
    <3>1. PICK v : v = cell[1].value
      OBVIOUS
    <3>2. /\ v.gameChrono = Reference("chrono") /\ v.world = Reference("main")
          /\ v.fl_lock = Bool(TRUE) /\ v.duration = Number(0)
          /\ v.fl_gameOver = Bool(FALSE) /\ v.endModeTimer = Number(0)
      BY <2>3, <3>1
    <3> QED
      BY <3>1, <3>2 DEF ModeTyped, Number, Bool
  <2> QED
    BY <1>2, <2>1, <2>2, <2>4, ObjectsAre DEF TableOf
<1>4. TableOf("chrono", 2)
  <2>1. DOMAIN cell[2] = {"keys", "first", "value", "left"}
        /\ cell[2].keys = KeysOf("chrono") /\ cell[2].first = 1
        /\ cell[2].left = <<>>
        /\ DOMAIN cell[2].value = Properties("chrono")
    BY <1>2, PropertiesAre DEF Table
  <2>2. cell[2].keys # <<>>
    BY <2>1, KeysOfAre, ObjectsAre
  <2>3. cell[2].value = [frameTimer |-> Number(0), fl_stop |-> Bool(FALSE),
                         haltedTimer |-> Number(0), gameTimer |-> Number(0)]
    BY <1>2, SMTT(30) DEF Table
  <2>4. ChronoTyped(cell[2].value)
    <3>1. PICK v : v = cell[2].value
      OBVIOUS
    <3>2. /\ v.frameTimer = Number(0) /\ v.fl_stop = Bool(FALSE)
          /\ v.haltedTimer = Number(0) /\ v.gameTimer = Number(0)
      BY <2>3, <3>1
    <3> QED
      BY <3>1, <3>2 DEF ChronoTyped, Number, Bool
  <2> QED
    BY <1>2, <2>1, <2>2, <2>4, ObjectsAre DEF TableOf
<1>5. ASSUME NEW w \in World, NEW t \in {3, 4}, cell[t] = NewWorld(w, Title(w))
      PROVE  TableOf(w, t)
  <2>1. DOMAIN cell[t] = {"keys", "first", "value", "left"}
        /\ cell[t].keys = KeysOf(w) /\ cell[t].first = 1
        /\ cell[t].left = <<>>
        /\ DOMAIN cell[t].value = Properties(w)
    BY <1>5, PropertiesAre DEF NewWorld, Table
  <2>2. cell[t].keys # <<>>
    BY <2>1, KeysOfAre, ObjectsAre
  <2>3. WorldTyped(w, cell[t].value, game)
    BY <1>5 DEF NewWorld, Table, WorldTyped, Number, String, Id
  <2> QED
    BY <1>2, <2>1, <2>2, <2>3, ObjectsAre DEF TableOf
<1>6. TableOf("main", 3) /\ TableOf("dimension", 4)
  BY <1>2, <1>5 DEF World, Title
<1>7. HeapTyped
  <2>1. \A o \in Object : TableOf(o, table[o])
    <3>1. /\ table["mode"] = 1 /\ table["chrono"] = 2
          /\ table["main"] = 3 /\ table["dimension"] = 4
      BY <1>1
    <3> QED
      BY <1>3, <1>4, <1>6, <3>1, Zenon DEF Object
  <2>2. open \in BOOLEAN /\ ticked \in BOOLEAN /\ game \in {"runs", "left", "recycled"}
    BY <1>1
  <2> QED
    BY <1>1, <1>2, <2>1, <2>2 DEF HeapTyped
<1>8. /\ player \in {"pepper", "ruffle"} /\ step = "rest" /\ phase = "find"
      /\ at = [mode |-> IF player = "pepper" THEN table["mode"] ELSE "mode",
               chrono |-> None, world |-> None]
      /\ got = Nothing /\ before = None
      /\ DOMAIN hint = Key
  BY DEF Init
<1>9. ReaderTyped
  BY <1>8, KeysAre DEF ReaderTyped, Nothing
<1>10. HeapClocks
  <2>1. started = None /\ ended = None
    BY DEF Init, HeapInit
  <2>2. /\ Values("mode") = cell[1].value /\ Values("chrono") = cell[2].value
    BY <1>1 DEF Values
  <2>3. /\ Locked = TRUE /\ Stopped = FALSE /\ Now("mode", "duration") = 0
        /\ Now("chrono", "gameTimer") = 0 /\ Remaining = 0
    BY <1>2, <2>2 DEF Table, Number, Bool, Locked, Stopped, Remaining, Now
  <2> QED
    BY <1>1, <2>1, <2>3 DEF HeapClocks
<1>11. NoneIsGone /\ Seen /\ Hopeless
  BY <1>1, <1>8 DEF NoneIsGone, Seen, Hopeless, Idle
<1> QED
  BY <1>7, <1>9, <1>10, <1>11 DEF RInv, TInv

\* A step of nothing keeps the invariant.
LEMMA StutterRInv ==
  ASSUME RInv, UNCHANGED vars
  PROVE  RInv'
<1>1. /\ UNCHANGED heap /\ UNCHANGED history
      /\ player' = player /\ hint' = hint /\ step' = step /\ phase' = phase
      /\ at' = at /\ base' = base /\ length' = length /\ slot' = slot /\ got' = got
  BY DEF vars, reader
<1>2. /\ open' = open /\ game' = game /\ table' = table /\ cell' = cell
      /\ started' = started
      /\ ended' = ended
      /\ Remaining' = Remaining
      /\ Clock' = Clock
      /\ Time' = Time
      /\ Home' = Home /\ Values("chrono")' = Values("chrono")
      /\ \A o, key : Now(o, key)' = Now(o, key)
      /\ HeapTyped' = HeapTyped /\ HeapClocks' = HeapClocks
  BY <1>1, SameHeap
<1>3. /\ before' = before /\ shown' = shown /\ locks' = locks
      /\ remainings' = remainings
      /\ HistorySeen' = HistorySeen
  BY <1>1, SameHistory
<1>4. TInv'
  <2>1. /\ \A u, o : TableOf(o, u)' = TableOf(o, u)
        /\ \A u : Blank(u)' = Blank(u) /\ Length(u)' = Length(u)
        /\ \A u, i : KeyAt(u, i)' = KeyAt(u, i)
    BY <1>2 DEF TableOf, Blank, Length, KeyAt, LastKey
  <2>2. PICK kind, o, b : kind = Owner(step) /\ o = Subject(kind) /\ b = Base(kind)
    OBVIOUS
  <2>3. Owner(step)' = kind /\ Subject(kind)' = o /\ Base(kind)' = b
    BY <1>1, <1>2, <2>2 DEF Owner, Subject, Base
  <2>4. Searching' = Searching
    BY <1>1, <1>2, <2>1, <2>2, <2>3 DEF Searching
  <2> QED
    BY <1>1, <1>2, <2>4 DEF RInv, TInv, ReaderTyped, NoneIsGone
<1>5. Hopeless'
  BY <1>1, <1>2, <1>3 DEF RInv, Hopeless, Idle, Corrupt, Doomed, AtHome, Blank,
       Base, Owner, Length
<1>6. Seen'
  <2>1. /\ TimeRead' = TimeRead /\ ClockRead' = ClockRead /\ ReadTime' = ReadTime
        /\ DurationRead' = DurationRead /\ LockRead' = LockRead
        /\ LevelRead' = LevelRead /\ WorldRead' = WorldRead
    BY <1>1 DEF TimeRead, ClockRead, ReadTime, State, DurationRead, LockRead,
         LevelRead, WorldRead
  <2>2. \A kind, t : ReadFrom(kind, t)' = ReadFrom(kind, t)
    BY <1>1, <1>2 DEF ReadFrom, Base, Owner
  <2>3. Sources' = Sources /\ Gone' = Gone
    BY <1>1, <1>2, <2>2 DEF Sources, Gone, Owner, Base, Blank
  <2>4. \A v : SourceSeen(v)' = SourceSeen(v)
    BY <1>1, <1>2, <1>3, <2>1, <2>3 DEF SourceSeen, ModeSeen, ChronoSeen, Halted,
         Shown, Timely, Ending, Ends, Owner
  <2>5. SourcesSeen' = SourcesSeen
    BY <1>2, <2>3, <2>4 DEF SourcesSeen
  <2>6. ClocksRead' = ClocksRead /\ LevelsRead' = LevelsRead
    BY <1>1, <1>2, <1>3, <2>1 DEF ClocksRead, LevelsRead, Shown
  <2>7. StateRead' = StateRead
    BY <1>1, <1>2, <1>3, <2>1, <2>3 DEF StateRead, Timely, Ending, Ends
  <2>8. CopySeen' = CopySeen
    <3>1. \A x : LeftSeen(x)' = LeftSeen(x)
      BY <1>1, <1>2, <1>3, <2>3 DEF LeftSeen, Ending, Ends, Shown
    <3> QED
      BY <1>1, <1>2, <3>1 DEF CopySeen, Length, Blank
  <2> QED
    BY <1>3, <2>5, <2>6, <2>7, <2>8 DEF RInv, Seen
<1> QED
  BY <1>2, <1>4, <1>5, <1>6 DEF RInv, TInv

\* Every step keeps the invariant.
LEMMA NextRInv ==
  ASSUME RInv, ~ torn', [Next]_vars
  PROVE  RInv'
<1>1. TInv /\ HeapClocks /\ Seen /\ Hopeless
  BY DEF RInv
<1>2. ASSUME UNCHANGED <<heap, history>>, TInv', Seen', Hopeless' PROVE RInv'
  BY <1>1, <1>2, SameHeap DEF RInv
<1>3. ASSUME NEW t, Takes(t) PROVE RInv'
  BY <1>1, <1>2, <1>3, TakesTyped, TakesSeen, TakesHopeless DEF Takes
<1>12. ASSUME NEW x, TakesLeft(x) PROVE RInv'
  BY <1>1, <1>2, <1>12, LeftTakesTyped, TakesSeen, LeftTakesHopeless DEF TakesLeft
<1>4. ASSUME Stops, step # "rest" PROVE RInv'
  BY <1>1, <1>2, <1>4, StopsTyped, StopsSeen, StopsHopeless DEF Stops
<1>5. CASE Begin
  <2>1. RInv => TInv' /\ Seen' /\ Hopeless'
    BY <1>1, <1>5, BeginTyped, BeginSeen
  <2>2. HeapClocks'
    BY <1>1, <1>5, SameHeap DEF Begin
  <2> QED
    BY <2>1, <2>2 DEF RInv
<1>6. CASE Find
  <2>1. ASSUME Finds PROVE RInv'
    BY <1>1, <1>2, <2>1, FindsTyped, FindsSeen, FindsHopeless DEF Finds
  <2> QED
    BY <1>1, <1>3, <1>6, <2>1, FindTakes
<1>7. CASE Value
  BY <1>1, <1>3, <1>7, <1>12, ValueTakes
<1>8. CASE Follow
  <2>1. ASSUME NEW kind, NEW o, NEW next, Reaches(kind, o, next) PROVE RInv'
    BY <1>1, <1>2, <2>1, FollowsIs, ReachesSeen, ReachesHopeless DEF Reaches
  <2>2. step # "rest"
    BY <1>8, KeysAre DEF Follow
  <2> QED
    BY <1>1, <1>4, <1>8, <2>1, <2>2, FollowTakes
<1>9. CASE Lost
  <2>1. step # "rest"
    BY <1>9, KeysAre DEF Lost
  <2> QED
    BY <1>1, <1>3, <1>4, <1>9, <2>1, LostTakes
<1>10. CASE GameMoves
  BY <1>10, GameMovesInv
<1>11. CASE UNCHANGED vars
  BY <1>11, StutterRInv
<1> QED
  BY <1>5, <1>6, <1>7, <1>8, <1>9, <1>10, <1>11 DEF Next

-----------------------------------------------------------------------------
(* The theorems *)

\* A state is that of a reading begun where the memory was of one game.
LEMMA StateIsSeen ==
  ASSUME RInv, step = "state"
  PROVE  /\ before # None /\ HeapTyped /\ HeapClocks
         /\ HistorySeen /\ ClocksRead /\ LevelsRead /\ StateRead
         /\ Truth.frame = Clock /\ Truth.chrono = Time
         /\ Truth.duration = Now("mode", "duration")
         /\ Truth.over = Now("mode", "fl_gameOver")
         /\ TimeRead /\ ClockRead /\ DurationRead /\ LockRead /\ LevelRead
<1>1. before # None
  BY KeysAre DEF RInv, Hopeless, Idle
<1>2. HeapTyped /\ HeapClocks /\ Seen
  BY DEF RInv, TInv
<1>3. TimeRead /\ ClockRead /\ DurationRead /\ LockRead /\ LevelRead
  BY DEF TimeRead, ClockRead, DurationRead, LockRead, LevelRead
<1>4. /\ Truth.frame = Clock /\ Truth.duration = Now("mode", "duration")
      /\ Truth.over = Now("mode", "fl_gameOver")
  BY DEF Truth
<1> QED
  BY <1>1, <1>2, <1>3, <1>4, TimeIs DEF Seen

\* What the invariant says of a state that is returned.
LEMMA StatesAreTrue ==
  ASSUME RInv
  PROVE  ATrueStateOrNone
<1> SUFFICES ASSUME step = "state"
             PROVE  /\ before # None /\ TrueCore
                    /\ open /\ game # "recycled" => TrueEnd
  BY DEF ATrueStateOrNone
<1>1. /\ State.level = <<got["setName"], got["currentId"]>>
      /\ State.lock = got["fl_lock"] /\ State.frame = got["frameTimer"]
      /\ State.duration = got["duration"] /\ State.over = got["fl_gameOver"]
      /\ State.remaining = got["endModeTimer"]
  BY DEF State
<1>2. State.level \in shown
  BY <1>1, StateIsSeen DEF LevelsRead
<1>3. State.lock \in locks
  BY <1>1, StateIsSeen DEF StateRead
<1>4. Between(before.frame, State.frame, Truth.frame)
  BY <1>1, StateIsSeen DEF ClocksRead
<1>5. Between(before.duration, State.duration, Truth.duration)
  BY <1>1, StateIsSeen DEF StateRead
<1>6. ASSUME open, game # "recycled"
      PROVE  State.over \in {before.over, Truth.over}
  <2>1. PICK x : x = got["fl_gameOver"]
    OBVIOUS
  <2>2. PICK over : over = before.over
    OBVIOUS
  <2>3. PICK truth : truth = Now("mode", "fl_gameOver")
    OBVIOUS
  <2>4. x \in BOOLEAN /\ (x => truth) /\ (over => x)
    BY <1>6, <2>1, <2>2, <2>3, StateIsSeen DEF StateRead
  <2>5. over \in BOOLEAN /\ truth \in BOOLEAN
    BY <2>2, <2>3, StateIsSeen, ValuesAre DEF HistorySeen
  <2>6. x = over \/ x = truth
    BY <2>4, <2>5
  <2> QED
    BY <1>1, <2>1, <2>2, <2>3, <2>6, StateIsSeen
<1>7. ASSUME open, game # "recycled" PROVE State.remaining \in remainings
  BY <1>1, <1>7, StateIsSeen DEF StateRead
<1> QED
  BY <1>2, <1>3, <1>4, <1>5, <1>6, <1>7, StateIsSeen DEF TrueCore, TrueEnd

\* And of its clocks.
LEMMA ClocksLag ==
  ASSUME RInv
  PROVE  TornClocksLag
<1> SUFFICES ASSUME step = "state"
             PROVE  /\ Between(before.chrono - Elapsed, State.chrono, Truth.chrono)
                    /\ ~ State.lock /\ ~ got["fl_stop"] /\ got["gameTimer"] = 0 =>
                         /\ Lags(State.frame - State.duration, started)
                         /\ State.remaining > 0 =>
                              Lags(State.frame - (FULL - State.remaining), ended)
  BY DEF TornClocksLag
<1>1. /\ State.lock = got["fl_lock"] /\ State.frame = got["frameTimer"]
      /\ State.duration = got["duration"]
      /\ State.remaining = got["endModeTimer"]
      /\ State.chrono = ReadTime
  BY DEF State, ReadTime
<1>2. Elapsed = Clock - before.frame
  BY StateIsSeen DEF Elapsed
<1>3. Between(before.chrono - Elapsed, State.chrono, Truth.chrono)
  BY <1>1, <1>2, StateIsSeen DEF ClocksRead
<1>4. /\ got["frameTimer"] \in Nat /\ Clock \in Nat /\ before.frame \in Nat
      /\ Between(before.frame, got["frameTimer"], Clock)
  BY StateIsSeen, ClocksAgree DEF ClocksRead, HistorySeen
<1>5. ASSUME ~ State.lock, ~ got["fl_stop"], got["gameTimer"] = 0
      PROVE  Lags(State.frame - State.duration, started)
  <2>1. started # None /\ started \in Nat
    BY <1>1, <1>5, StateIsSeen, ClocksAgree DEF StateRead
  <2>2. ReadTime = got["frameTimer"]
    BY <1>4, <1>5 DEF ReadTime, State
  <2>3. /\ got["duration"] \in Nat
        /\ Between(got["frameTimer"] - 1, started + got["duration"], Clock)
    BY <2>1, <2>2, StateIsSeen DEF StateRead, Timely
  <2> QED
    BY <1>1, <1>2, <1>4, <2>1, <2>3 DEF Lags, Between
<1>6. ASSUME State.remaining > 0
      PROVE  Lags(State.frame - (FULL - State.remaining), ended)
  <2>1. /\ got["endModeTimer"] \in Nat /\ ended # None
        /\ Between(got["frameTimer"] - 1, Ends(got["endModeTimer"]), Clock)
    BY <1>1, <1>6, StateIsSeen DEF StateRead, Ending
  <2>2. ended \in Nat
    BY <2>1, StateIsSeen, ClocksAgree
  <2> QED
    BY <1>1, <1>2, <1>4, <2>1, <2>2, HeapAssumption DEF Lags, Between, Ends
<1> QED
  BY <1>3, <1>5, <1>6

\* A reading that was torn stays so.
LEMMA TornStays ==
  ASSUME torn, [Next]_vars
  PROVE  torn'
<1>1. CASE GameMoves
  BY <1>1 DEF GameMoves, HeapMoves, Rebuilds
<1>2. CASE Begin
  BY <1>2 DEF Begin
<1>3. CASE UNCHANGED history
  BY <1>3 DEF history
<1> QED
  BY <1>1, <1>2, <1>3 DEF Next, Find, Value, Follow, Lost, vars

\* The invariant of the memory and of its reader, until a table of Pepper
\* Flash is built again between a key that was found and its value.
THEOREM ReadingInvariant == Spec => [](torn \/ RInv)
<1>1. Init => RInv
  BY InitRInv
<1>2. (torn \/ RInv) /\ [Next]_vars => (torn \/ RInv)'
  BY NextRInv, TornStays
<1> QED
  BY <1>1, <1>2, PTL DEF Spec

\* Game::read gives no state only when the player has closed, when the memory
\* of a game that was left is used again, or when a table of Pepper Flash was
\* built again under the key that was found: no other table that is built
\* again, here or elsewhere, no entry that moves, and no slot that was
\* remembered, stops it (get_cached of avm1.rs, property of ruffle.rs).
THEOREM OnlyWhatIsGoneIsNotRead == Spec => []NoneOnlyWhenItIsGone
<1>1. torn \/ RInv => NoneOnlyWhenItIsGone
  BY DEF RInv, TInv, NoneIsGone, NoneOnlyWhenItIsGone
<1> QED
  BY <1>1, ReadingInvariant, PTL

\* Each part of a state that Game::read returns was true during the reading,
\* what is left of the cinematic and the end of the game too unless they are
\* gone, and its level is one of the world it is said to be of.
THEOREM EveryStateReadWasTrue == Spec => []ATrueStateOrNone
<1>1. torn \/ RInv => ATrueStateOrNone
  BY StatesAreTrue DEF ATrueStateOrNone
<1> QED
  BY <1>1, ReadingInvariant, PTL

\* The dates that the policy works out from a state are early by no more than
\* the frames that passed while it was read, and late by no more than the one
\* that was half written (Game::chrono).
THEOREM EveryClockReadLags == Spec => []TornClocksLag
<1>1. torn \/ RInv => TornClocksLag
  BY ClocksLag DEF TornClocksLag
<1> QED
  BY <1>1, ReadingInvariant, PTL

=============================================================================
