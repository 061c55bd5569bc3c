----------------------------- MODULE ReadsProps -----------------------------
(***************************************************************************)
(* What one reading promises (docs/specs/memory-reader.md): a state the    *)
(* game was in while it was read, or none.                                 *)
(***************************************************************************)
EXTENDS Reads

\* What Game::read returns.
State ==
  [frame |-> got["frameTimer"],
   chrono |-> IF got["fl_stop"] /\ got["haltedTimer"] # None
              THEN got["haltedTimer"]
              ELSE got["frameTimer"] - got["gameTimer"],
   level |-> <<got["setName"], got["currentId"]>>,
   lock |-> got["fl_lock"], duration |-> got["duration"],
   over |-> got["fl_gameOver"], remaining |-> got["endModeTimer"]]

\* Clocks advance one by one: each value between two was true in turn.
Between(a, value, b) == a <= value /\ value <= b

\* What is required of a state.
TrueCore ==
  /\ State.level \in shown /\ State.lock \in locks
  /\ Between(before.frame, State.frame, Truth.frame)
  /\ Between(before.duration, State.duration, Truth.duration)

\* And what may be missing: it is read after all the rest.
TrueEnd == State.over \in {before.over, Truth.over} /\ State.remaining \in remainings

\* Each part of a state that is returned was true at some moment of its
\* reading, the level with its own world (hammerfest.rs:460), whatever slots
\* were remembered, and whichever tables were rebuilt, left or used again
\* meanwhile.  The end of the game is missing when the player closes, or a game
\* that was left is used again, before it is read (NoFieldIsADefault); and a
\* table rebuilt under a key spoils the state (AnOpenGameIsReadTruly).
ATrueStateOrNone ==
  step = "state" /\ ~ torn =>
    /\ before # None /\ TrueCore
    /\ open /\ game # "recycled" => TrueEnd

\* No move of the tables, in place or elsewhere, and no slot that changes,
\* makes a reading fail: no state means that the player closed, that the
\* memory of a game that was left is used again, or that a table of Pepper
\* Flash was rebuilt under a key that was found.
NoneOnlyWhenItIsGone == step = "none" => ~ open \/ game = "recycled" \/ torn

\* The frames that began during the reading.
Elapsed == Truth.frame - before.frame

\* A frame is half written when its clock is read: one more.
Lags(date, truth) == Between(truth - Elapsed, date, truth + 1)

\* The two counters that a date is the difference of are read one after the
\* other.  What the policy works out from them errs by no more than the frames
\* of the reading: the origin of the run and the date of its end are early by
\* no more than these, and late by no more than the one frame that is being
\* written; the time shown by the Chrono is never ahead.
TornClocksLag ==
  step = "state" /\ ~ torn =>
    /\ Between(before.chrono - Elapsed, State.chrono, Truth.chrono)
    /\ ~ State.lock /\ ~ got["fl_stop"] /\ got["gameTimer"] = 0 =>
         /\ Lags(State.frame - State.duration, started)
         /\ State.remaining > 0 =>
              Lags(State.frame - (FULL - State.remaining), ended)

-----------------------------------------------------------------------------
(* What the documents say, and the code does not do *)

\* docs/specs/memory-reader.md:105-106: "When a field the `State` needs cannot
\* be read, the whole reading fails.  No field is filled with a default value."
\* Of a player that closes after the duration is read, the end of the game is
\* what no frame wrote (hammerfest.rs:507, 519).
NoFieldIsADefault == step = "state" /\ ~ torn => TrueEnd

\* docs/specs/memory-reader.md:37-39: "or it produces nothing.  It never
\* produces a `State` that is partly true."  Pepper Flash reads a key and then
\* its value (avm1.rs:323): of a table rebuilt in between, the value of another
\* key is taken, in a game that runs.
AnOpenGameIsReadTruly ==
  step = "state" /\ open /\ game # "recycled" => TrueCore /\ TrueEnd

=============================================================================
