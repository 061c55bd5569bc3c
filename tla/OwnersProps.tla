---------------------------- MODULE OwnersProps -----------------------------
(***************************************************************************)
(* What a player may claim of a build (docs/specs/memory-reader.md, the    *)
(* right layout; src/reader/heap.rs, FlashPlayer).                         *)
(***************************************************************************)
EXTENDS Owners

\* What is learned is the build of the process it is learned in, and never an
\* address of another: it holds after the module has moved.
LearnsTheBuild ==
  [][known' # known /\ known' # None =>
       known' = IF player = "pepper" THEN Offset[build'] ELSE Vtable']_vars

\* "Only a proven layout tells a key that is absent from a key it cannot see"
\* (pepper_flash.rs:446): a search that says the manager is not born, and so
\* looks for no mode, was given no region that held its key when it began; or
\* another build was proven, and nothing is found until the program starts
\* again (memory-reader.md, the right layout).
NotBornIsSo ==
  [][/\ stage \in {"headers", "entries"} /\ stage' = "rest"
     /\ process' = process /\ not_born'
     => ~ there \/ (player = "pepper" /\ known \notin {None, Offset[build]})]_vars

\* The player can tell its strings from other bytes: its build is proven, or
\* may be the seed, or few copies of a key come before its string.
Legible ==
  player = "pepper" =>
    known = Offset[build] \/ (known = None /\ (seed = build \/ ~ crowded))

\* Whatever the seed, whichever builds and addresses came before, and whenever
\* the vtables were filled in, an owner that stays is found, again and again:
\* a wrong seed costs passes, and hides nothing.
FoundWhateverTheBuild ==
  <>[](home # None /\ owners # {} /\ Legible) /\ <>[][UNCHANGED memory]_vars
  => []<>found

=============================================================================
