----------------------------- MODULE LoopProofs -----------------------------
(***************************************************************************)
(* The two choices of the main loop.  When it scans: the pacing keeps its  *)
(* promises for every wait, window, growth and size of the heap.  Which    *)
(* player it reads: the plugin is never set aside, and the order of the    *)
(* players is kept, for any number of processes, programs and tabs.        *)
(***************************************************************************)
EXTENDS PacingProps, PlayersProps, FiniteSetTheorems, TLAPS

-----------------------------------------------------------------------------
(* The pacing *)

\* The inductive invariant has two halves.  The counters: the debt of the
\* last failure is what relates the turns refused so far to the wait that is
\* left, and the wait of the next failure is the one the spec says it buys.
\* The flags: the pacing holds what the loop holds, so that only a game that
\* was held forgives a debt.
LadderOK == LadderIsKept /\ (game => bought = 0)
WaitsOK == CountersOK /\ SilenceIsBounded /\ DebtIsCovered /\ LadderOK
GamesOK == FlagsOK /\ HoldsWhatTheLoopHolds
PacingIInv == WaitsOK /\ GamesOK

LEMMA InitPacingIInv == PacingInit => PacingIInv
<1> SUFFICES ASSUME PacingInit PROVE PacingIInv
  OBVIOUS
<1>1. WaitsOK
  BY PacingAssumption DEF PacingAssumption, PacingInit, WaitsOK, CountersOK,
       SilenceIsBounded, DebtIsCovered, LadderOK, LadderIsKept, Buys
<1>2. GamesOK
  BY DEF PacingInit, GamesOK, FlagsOK, HoldsWhatTheLoopHolds
<1> QED
  BY <1>1, <1>2 DEF PacingIInv

\* Every turn keeps the counters within their bounds, and never forgives a
\* wait that is owed, unless a game was held.
LEMMA NextWaits == PacingIInv /\ [PacingNext]_pacing_vars => WaitsOK'
<1> SUFFICES ASSUME WaitsOK, GamesOK, [PacingNext]_pacing_vars PROVE WaitsOK'
  BY DEF PacingIInv
<1> USE PacingAssumption DEF PacingAssumption, WaitsOK, CountersOK,
      SilenceIsBounded, DebtIsCovered, LadderOK, LadderIsKept, Buys
<1>1. CASE ReadHeld
  <2>1. game /\ holds_a_game
    BY <1>1 DEF GamesOK, HoldsWhatTheLoopHolds, ReadHeld
  <2>2. \/ wait' = wait /\ next_wait' = next_wait
        \/ wait' = 0 /\ next_wait' = MIN_WAIT
    BY <1>1, <2>1 DEF ReadHeld, Drop
  <2>3. /\ refused' = 0 /\ bought' = 0 /\ spacing' = 0
        /\ heap' = heap /\ loading' = loading
    BY <1>1 DEF ReadHeld, NoDebt
  <2> QED
    BY <2>1, <2>2, <2>3
<1>2. CASE FastPath
  BY <1>2 DEF FastPath, Found, Keep, Drop, NoDebt
<1>3. ASSUME NEW size \in Heaps, Refuse(size) PROVE WaitsOK'
  <2>1. ~ holds_a_game
    BY <1>3 DEF GamesOK, HoldsWhatTheLoopHolds, Refuse
  <2> QED
    BY <1>3, <2>1 DEF Refuse, MustWait, Drop, NextLoading
<1>4. ASSUME NEW size \in Heaps, ScanFinds(size) PROVE WaitsOK'
  BY <1>4 DEF ScanFinds, Scan, Found, Keep, Drop, NoDebt,
       NextLoading
<1>5. ASSUME NEW size \in Heaps, ScanFails(size) PROVE WaitsOK'
  <2>1. ~ holds_a_game
    BY <1>5 DEF GamesOK, HoldsWhatTheLoopHolds, ScanFails, Scan
  <2> QED
    BY <1>5, <2>1 DEF ScanFails, Scan, Drop, NextLoading, LongerWait, Least
<1>6. CASE NewProcess
  BY <1>6 DEF NewProcess, NoDebt
<1>7. CASE UNCHANGED pacing_vars
  BY <1>7 DEF pacing_vars, pacing, history
<1> QED
  BY <1>1, <1>2, <1>3, <1>4, <1>5, <1>6, <1>7 DEF PacingNext, Turn

\* Every turn tells the pacing what it found and what it lost.
LEMMA NextGames == PacingIInv /\ [PacingNext]_pacing_vars => GamesOK'
<1> SUFFICES ASSUME GamesOK, [PacingNext]_pacing_vars PROVE GamesOK'
  BY DEF PacingIInv
<1> USE DEF GamesOK, FlagsOK, HoldsWhatTheLoopHolds
<1>1. CASE ReadHeld
  BY <1>1 DEF ReadHeld, Drop
<1>2. CASE FastPath
  BY <1>2 DEF FastPath, Found, Keep, Drop
<1>3. ASSUME NEW size \in Heaps, Refuse(size) PROVE GamesOK'
  BY <1>3 DEF Refuse, Drop
<1>4. ASSUME NEW size \in Heaps, ScanFinds(size) PROVE GamesOK'
  BY <1>4 DEF ScanFinds, Found, Keep, Drop
<1>5. ASSUME NEW size \in Heaps, ScanFails(size) PROVE GamesOK'
  BY <1>5 DEF ScanFails, Drop
<1>6. CASE NewProcess
  BY <1>6 DEF NewProcess
<1>7. CASE UNCHANGED pacing_vars
  BY <1>7 DEF pacing_vars, pacing
<1> QED
  BY <1>1, <1>2, <1>3, <1>4, <1>5, <1>6, <1>7 DEF PacingNext, Turn

LEMMA PacingIInvHolds == PacingSpec => []PacingIInv
<1>1. PacingIInv /\ [PacingNext]_pacing_vars => PacingIInv'
  BY NextWaits, NextGames DEF PacingIInv
<1> QED
  BY InitPacingIInv, <1>1, PTL DEF PacingSpec

\* The fields of the pacing keep their bounds, it holds what the loop holds,
\* and the loop is never silent for longer than the ceiling on the wait.
THEOREM PacingIsSafe ==
  PacingSpec => [](PacingTypeOK /\ HoldsWhatTheLoopHolds /\ SilenceIsBounded)
<1>1. PacingIInv => PacingTypeOK /\ HoldsWhatTheLoopHolds /\ SilenceIsBounded
  BY DEF PacingIInv, WaitsOK, GamesOK, PacingTypeOK
<1> QED
  BY PacingIInvHolds, <1>1, PTL

\* Every counter of the pacing keeps its type (Pacing, every method).
THEOREM PacingTypeCorrect == PacingSpec => []PacingTypeOK
BY PacingIsSafe, PTL

\* The pacing and the loop agree on whether a game is held, at every turn.
THEOREM AgreesWithTheLoop == PacingSpec => []HoldsWhatTheLoopHolds
BY PacingIsSafe, PTL

\* A scan that follows a failed one comes after the wait that failure
\* bought, unless the heap has grown or a game was lost in between.
THEOREM FailuresAreSpaced == PacingSpec => ScansAreSpaced
<1>1. ASSUME PacingIInv, NEW size \in Heaps, Scan(size), ~ Grown(size)
      PROVE refused >= spacing
  BY <1>1, PacingAssumption DEF PacingAssumption, PacingIInv, WaitsOK, CountersOK,
       DebtIsCovered, Scan, MustWait
<1>2. PacingIInv /\ [PacingNext]_pacing_vars =>
        [\A size \in Heaps : Scan(size) /\ ~ Grown(size) => refused >= spacing]_pacing_vars
  BY <1>1
<1> QED
  BY <1>2, PacingIInvHolds, PTL DEF PacingSpec, ScansAreSpaced

\* A game lost scans at once, by whichever turn it was lost.
THEOREM LossesScanAtOnce == PacingSpec => LossScansAtOnce
<1>1. ASSUME PacingIInv, [PacingNext]_pacing_vars, game, ~ game' PROVE wait' = 0
  <2>1. holds_a_game
    BY <1>1 DEF PacingIInv, GamesOK, HoldsWhatTheLoopHolds
  <2>2. CASE ReadHeld
    BY <1>1, <2>1, <2>2 DEF ReadHeld, Drop
  <2>3. CASE NewProcess
    BY <2>3 DEF NewProcess
  <2>4. ReadHeld \/ NewProcess
    BY <1>1 DEF PacingNext, Turn, FastPath, Refuse, ScanFinds, ScanFails, Scan,
         pacing_vars
  <2> QED
    BY <2>2, <2>3, <2>4
<1>2. PacingIInv /\ [PacingNext]_pacing_vars => [game /\ ~ game' => wait' = 0]_pacing_vars
  BY <1>1
<1> QED
  BY <1>2, PacingIInvHolds, PTL DEF PacingSpec, LossScansAtOnce

-----------------------------------------------------------------------------
(* The players: the plugin *)

\* A process that is set aside is a helper, or its end was not noticed yet.
SetAside ==
  \A p \in rejected :
    process[p] = "helper" \/ (process[p] = "none" /\ p \in gone)

IInv ==
  /\ process \in [Pid -> {"none", "helper", "plugin"}]
  /\ programs \subseteq Executable
  /\ rejected \subseteq Pid
  /\ SetAside

\* Nothing is set aside at first.
LEMMA InitIInv == Init => IInv
BY DEF Init, IInv, SetAside

\* A probe sets aside helpers only, and forgets those that ended.
LEMMA ProbesKeepIInv ==
  ASSUME IInv, NEW met, Probes(met), UNCHANGED world
  PROVE  IInv'
<1>1. rejected' = (rejected \cup met) \cap Alive /\ met \subseteq Newcomers
  BY DEF Probes, Retains
<1>2. Newcomers \subseteq {p \in Pid : process[p] = "helper"}
  BY DEF Newcomers, Candidates, Alive, IInv
<1>3. \A p \in rejected' : process[p] = "helper"
  BY <1>1, <1>2 DEF IInv, SetAside, Alive
<1> QED
  BY <1>1, <1>2, <1>3 DEF IInv, SetAside, world

\* Whatever comes or goes, no process that is set aside becomes a plugin.
LEMMA WorldKeepsIInv ==
  ASSUME IInv, World
  PROVE  IInv'
<1>1. rejected' = rejected
  BY DEF World
<1>2. CASE UNCHANGED <<process, programs, gone>>
  BY <1>1, <1>2 DEF IInv, SetAside
<1>3. ASSUME NEW p \in Pid, Starts(p) PROVE IInv'
  <2>1. p \notin rejected
    BY <1>3 DEF Starts, IInv, SetAside
  <2> QED
    BY <1>1, <1>3, <2>1 DEF Starts, IInv, SetAside
<1>4. ASSUME NEW p \in Pid, Ends(p) PROVE IInv'
  BY <1>1, <1>4 DEF Ends, IInv, SetAside
<1>5. ASSUME NEW e \in Executable, Opens(e) \/ Quits(e) PROVE IInv'
  BY <1>1, <1>5 DEF Opens, Quits, IInv, SetAside
<1>6. ASSUME NEW t \in Tab, Shows(t) \/ Shuts(t) PROVE IInv'
  BY <1>2, <1>6 DEF Shows, Shuts
<1> QED
  BY <1>3, <1>4, <1>5, <1>6 DEF World, Comes

\* Neither the players nor the loop set the plugin aside.
LEMMA NextIInv == IInv /\ [Next]_vars => IInv'
<1> SUFFICES ASSUME IInv, [Next]_vars PROVE IInv'
  OBVIOUS
<1>1. CASE World
  BY <1>1, WorldKeepsIInv
<1>2. CASE ReadsThePlugin
  BY <1>2, ProbesKeepIInv DEF ReadsThePlugin
<1>3. CASE NoPlugin /\ UNCHANGED world
  BY <1>3, ProbesKeepIInv DEF NoPlugin
<1>4. CASE ReadsAProgram \/ WaitsForTabs \/ LooksAtTheTabs
  BY <1>3, <1>4 DEF ReadsAProgram, WaitsForTabs, LooksAtTheTabs
<1>5. CASE UNCHANGED <<world, rejected, gone>>
  BY <1>5 DEF IInv, SetAside, world
<1>6. CASE Closed \/ Waits \/ GivesWay \/ FindsTheManager \/ LosesTheManager
  BY <1>5, <1>6 DEF Closed, Waits, GivesWay, FindsTheManager, LosesTheManager
<1>7. CASE UNCHANGED vars
  BY <1>5, <1>7 DEF vars
<1> QED
  BY <1>1, <1>2, <1>4, <1>6, <1>7 DEF Next, Loop

\* The invariant of the two theorems on what is read.
LEMMA IInvHolds == Spec => []IInv
BY InitIInv, NextIInv, PTL DEF Spec

\* attach_plugin: "the PPAPI process is always one of" the newcomers
\* (plugin.rs:115).  A number in the list of rejected processes never is the
\* one of the plugin, however processes start, end and start again, as long
\* as Starts allows it.
THEOREM NeverSetAside == Spec => []ThePluginIsANewcomer
<1>1. IInv => ThePluginIsANewcomer
  BY DEF IInv, SetAside, ThePluginIsANewcomer
<1> QED
  BY <1>1, IInvHolds, PTL

-----------------------------------------------------------------------------
(* The order of the players *)

\* EternalTwin comes first.
LEMMA RankOfAPlugin ==
  ASSUME NEW x \in Pid
  PROVE  Rank(x) = 0
BY DEF Rank

\* Programs come between EternalTwin and the tabs, each at its place.
LEMMA RankOfAProgram ==
  ASSUME NEW x \in Executable
  PROVE  /\ Rank(x) \in DOMAIN Executables
         /\ Executables[Rank(x)] = x
         /\ Rank(x) \in 1..Len(Executables)
<1>1. \E i \in DOMAIN Executables : Executables[i] = x
  BY DEF Executable, ToSet
<1>2. Rank(x) = CHOOSE i \in DOMAIN Executables : Executables[i] = x
  BY PlayersAssumption DEF PlayersAssumption, Rank
<1>3. Rank(x) \in DOMAIN Executables /\ Executables[Rank(x)] = x
  BY <1>1, <1>2
<1> QED
  BY <1>3, PlayersAssumption DEF PlayersAssumption

\* Tabs come last.
LEMMA RankOfATab ==
  ASSUME NEW x \in Tab
  PROVE  Rank(x) = Len(Executables) + 1
BY PlayersAssumption DEF PlayersAssumption, Rank

\* Every player has a place.
LEMMA RankType ==
  ASSUME NEW x \in Player
  PROVE  Rank(x) \in 0..(Len(Executables) + 1)
<1>1. Len(Executables) \in Nat
  BY PlayersAssumption DEF PlayersAssumption
<1> QED
  BY <1>1, RankOfAPlugin, RankOfAProgram, RankOfATab DEF Player

\* The first element of a list of tabs is a tab with Ruffle.
LEMMA HeadIsATab ==
  ASSUME NEW list \in SetToSeqs(RuffleTabs), list # <<>>
  PROVE  Head(list) \in RuffleTabs
<1>1. IsFiniteSet(RuffleTabs)
  BY PlayersAssumption, FS_Subset DEF PlayersAssumption, RuffleTabs
<1>2. PICK n \in Nat : n = Cardinality(RuffleTabs)
  BY <1>1, FS_CardinalityType
<1>3. list \in [1..n -> RuffleTabs]
  BY <1>2 DEF SetToSeqs
<1>4. n # 0
  BY <1>3
<1> QED
  BY <1>3, <1>4

\* Nothing that runs comes before the player that is attached.
LEMMA StepKeepsTheOrder ==
  ASSUME IInv, [Next]_vars, attached = None, attached' # None,
         NEW x \in Running
  PROVE  Rank(attached') <= Rank(x)
<1> USE PlayersAssumption DEF PlayersAssumption
<1>1. x \in Player /\ Rank(x) \in 0..(Len(Executables) + 1)
  BY RankType DEF IInv, Running, RuffleTabs, Player
<1>2. CASE ReadsThePlugin
  <2>1. attached' \in Pid
    BY <1>2 DEF ReadsThePlugin, Attaches, Candidates, Alive
  <2> QED
    BY <1>1, <2>1, RankOfAPlugin
<1>3. ASSUME NoPlugin PROVE x \notin Pid
  BY <1>3 DEF NoPlugin, Candidates, Alive, IInv, SetAside, Running,
       RuffleTabs
<1>4. CASE ReadsAProgram
  <2>1. PICK e \in Executable : FirstProgram(e) /\ attached' = e
    BY <1>4 DEF ReadsAProgram, Attaches
  <2>2. CASE x \in programs
    <3>1. x \in Executable
      BY <2>2 DEF IInv
    <3>2. ~ (Rank(x) < Rank(e))
      BY <2>1, <2>2, <3>1, RankOfAProgram DEF FirstProgram
    <3> QED
      BY <2>1, <3>1, <3>2, RankOfAProgram
  <2>3. CASE x \in Tab
    BY <2>1, <2>3, RankOfAProgram, RankOfATab
  <2>4. x \in programs \/ x \in Tab
    BY <1>3, <1>4 DEF ReadsAProgram, Running, RuffleTabs
  <2> QED
    BY <2>2, <2>3, <2>4
<1>5. CASE LooksAtTheTabs
  <2>1. PICK list \in SetToSeqs(RuffleTabs) : NextTab(list)
    BY <1>5 DEF LooksAtTheTabs
  <2>2. list # <<>> /\ attached' = Head(list)
    BY <2>1 DEF NextTab, Attaches
  <2>3. attached' \in Tab
    BY <2>2, HeadIsATab DEF RuffleTabs
  <2>4. x \in Tab
    BY <1>3, <1>5 DEF LooksAtTheTabs, Running, RuffleTabs
  <2> QED
    BY <1>1, <2>3, <2>4, RankOfATab
<1>6. CASE World \/ WaitsForTabs \/ UNCHANGED vars
  BY <1>6 DEF World, WaitsForTabs, run, vars
<1>7. CASE Closed \/ Waits \/ GivesWay \/ FindsTheManager \/ LosesTheManager
  BY <1>7 DEF Closed, Waits, GivesWay, FindsTheManager, LosesTheManager,
       Waiting, Player
<1> QED
  BY <1>2, <1>4, <1>5, <1>6, <1>7 DEF Next, Loop

\* When several players run and none is read, the one that is read comes
\* first in the order of README.md:28: EternalTwin, the programs in their
\* order, the tabs.
THEOREM OrderIsKept == Spec => TheOrderIsKept
<1>1. IInv /\ [Next]_vars =>
        (attached = None /\ attached' # None =>
           \A x \in Running : Rank(attached') <= Rank(x))
  BY StepKeepsTheOrder
<1> QED
  BY <1>1, IInvHolds, PTL DEF Spec, TheOrderIsKept

-----------------------------------------------------------------------------
(* The types *)

ListOK == tabs \in Seq(Tab)
ChoiceOK == TypeOK /\ ListOK

\* A look at the tabs gives a list of them.
LEMMA ListsOfTabs ==
  ASSUME NEW list \in SetToSeqs(RuffleTabs)
  PROVE  list \in Seq(Tab)
<1>1. IsFiniteSet(RuffleTabs)
  BY PlayersAssumption, FS_Subset DEF PlayersAssumption, RuffleTabs
<1>2. PICK n \in Nat : n = Cardinality(RuffleTabs)
  BY <1>1, FS_CardinalityType
<1>3. list \in [1..n -> RuffleTabs]
  BY <1>2 DEF SetToSeqs
<1> QED
  BY <1>3 DEF RuffleTabs

\* The elements of a list are its first one and those of the rest.
LEMMA HeadAndTail ==
  ASSUME NEW list \in Seq(Tab), list # <<>>
  PROVE  /\ Head(list) \in Tab
         /\ Tail(list) \in Seq(Tab)
         /\ ToSet(list) = {Head(list)} \cup ToSet(Tail(list))
<1>1. Len(list) \in Nat \ {0} /\ DOMAIN list = 1..Len(list)
  OBVIOUS
<1>2. /\ Tail(list) \in Seq(Tab) /\ Len(Tail(list)) = Len(list) - 1
      /\ \A i \in 1..(Len(list) - 1) : Tail(list)[i] = list[i + 1]
      /\ DOMAIN Tail(list) = 1..(Len(list) - 1)
  BY <1>1
<1>3. ASSUME NEW i \in 1..Len(list)
      PROVE  list[i] \in {Head(list)} \cup ToSet(Tail(list))
  <2>1. CASE i = 1
    BY <2>1
  <2>2. CASE i # 1
    <3>1. i - 1 \in 1..(Len(list) - 1) /\ (i - 1) + 1 = i
      BY <1>1, <2>2
    <3>2. list[i] = Tail(list)[i - 1]
      BY <1>2, <3>1
    <3> QED
      BY <1>2, <3>1, <3>2 DEF ToSet
  <2> QED
    BY <2>1, <2>2
<1>4. ASSUME NEW i \in 1..(Len(list) - 1)
      PROVE  Tail(list)[i] \in ToSet(list)
  <2>1. i + 1 \in 1..Len(list)
    BY <1>1
  <2> QED
    BY <1>1, <1>2, <2>1 DEF ToSet
<1>5. Head(list) = list[1] /\ 1 \in DOMAIN list
  BY <1>1
<1>6. ToSet(list) \subseteq {Head(list)} \cup ToSet(Tail(list))
  BY <1>1, <1>3 DEF ToSet
<1>7. ToSet(Tail(list)) \subseteq ToSet(list)
  BY <1>2, <1>4 DEF ToSet
<1>8. Head(list) \in ToSet(list)
  BY <1>5 DEF ToSet
<1> QED
  BY <1>2, <1>5, <1>6, <1>7, <1>8

\* A list of tabs holds tabs.
LEMMA ElementsOfAList ==
  ASSUME NEW list \in Seq(Tab)
  PROVE  ToSet(list) \subseteq Tab
BY DEF ToSet

\* The next tab of a list leaves the rest of it, and knows no other tab.
LEMMA NextTabType ==
  ASSUME ChoiceOK, NEW list \in Seq(Tab), NextTab(list)
  PROVE  /\ tabs' \in Seq(Tab) /\ ToSet(tabs') \subseteq Tab
         /\ tabs' # <<>> => attached' \in Tab
         /\ attached' \in Player \cup {None}
         /\ open' \in BOOLEAN /\ manager' \in BOOLEAN
         /\ before_other_tabs' \in 1..TABS_AGAIN
         /\ ToSet(list) \subseteq {attached'} \cup ToSet(tabs')
<1>1. CASE list = <<>>
  <2>1. /\ attached' = None /\ tabs' = <<>> /\ open' = FALSE
        /\ before_other_tabs' = before_other_tabs /\ manager' = manager
    BY <1>1 DEF NextTab
  <2>2. ToSet(<<>>) = {}
    BY DEF ToSet
  <2> QED
    BY <1>1, <2>1, <2>2 DEF ChoiceOK, TypeOK
<1>2. CASE list # <<>>
  <2>1. /\ attached' = Head(list) /\ tabs' = Tail(list)
        /\ open' \in BOOLEAN /\ manager' = FALSE
        /\ before_other_tabs' = TABS_AGAIN
    BY <1>2 DEF NextTab, Attaches
  <2>2. TABS_AGAIN \in 1..TABS_AGAIN
    BY PlayersAssumption DEF PlayersAssumption
  <2> QED
    BY <1>2, <2>1, <2>2, HeadAndTail, ElementsOfAList DEF Player
<1> QED
  BY <1>1, <1>2

\* The types at first: nothing is read, and no tab is listed.
LEMMA InitChoiceOK == Init => ChoiceOK
<1> SUFFICES ASSUME Init PROVE ChoiceOK
  OBVIOUS
<1>1. tabs = <<>> /\ ToSet(tabs) = {} /\ tabs \in Seq(Tab)
  BY DEF Init, ToSet
<1>2. /\ before_other_tabs \in 1..TABS_AGAIN
      /\ before_the_tabs \in 0..TABS_AGAIN
  BY PlayersAssumption DEF PlayersAssumption, Init
<1>3. /\ process \in [Pid -> {"none", "helper", "plugin"}]
      /\ tab \in [Tab -> {"closed", "blank", "ruffle", "hammerfest"}]
  BY DEF Init
<1>4. /\ programs = {} /\ rejected = {} /\ gone = {} /\ replaced = {}
      /\ attached = None /\ open = FALSE /\ manager = FALSE
  BY DEF Init
<1> QED
  BY <1>1, <1>2, <1>3, <1>4 DEF ChoiceOK, TypeOK, ListOK

\* Where no tab is listed, nothing is said of the tabs.
LEMMA NoListTypes ==
  ASSUME ChoiceOK, UNCHANGED <<world, before_the_tabs>>,
         rejected' \subseteq Pid, gone' \subseteq Pid,
         tabs' = <<>>, replaced' = {},
         attached' \in Player \cup {None},
         open' \in BOOLEAN, manager' \in BOOLEAN,
         before_other_tabs' \in 1..TABS_AGAIN
  PROVE  ChoiceOK'
<1>1. ToSet(tabs') = {} /\ tabs' \in Seq(Tab)
  BY DEF ToSet
<1>2. UNCHANGED <<process, programs, tab, before_the_tabs>>
  BY DEF world
<1> QED
  BY <1>1, <1>2 DEF ChoiceOK, TypeOK, ListOK

\* Players that come and go change what the loop knows in two places:
\* whether its process is open, and whether the memory of a tab was replaced.
LEMMA WorldKeepsTypes ==
  ASSUME ChoiceOK, World
  PROVE  ChoiceOK'
<1> USE DEF ChoiceOK, TypeOK, ListOK
<1>1. /\ UNCHANGED <<rejected, before_the_tabs, tabs, attached,
                     before_other_tabs, manager>>
      /\ Listed' = Listed /\ ToSet(tabs)' = ToSet(tabs)
  BY DEF World, Listed
<1>2. ASSUME NEW p \in Pid, Starts(p), UNCHANGED replaced PROVE ChoiceOK'
  BY <1>1, <1>2 DEF Starts
<1>3. ASSUME NEW p \in Pid, Ends(p), UNCHANGED replaced PROVE ChoiceOK'
  BY <1>1, <1>3 DEF Ends, Closes
<1>4. ASSUME NEW e \in Executable, Opens(e) \/ Quits(e), UNCHANGED replaced
      PROVE  ChoiceOK'
  BY <1>1, <1>4 DEF Opens, Quits, Closes
<1>5. ASSUME NEW t \in Tab, Shuts(t), UNCHANGED replaced PROVE ChoiceOK'
  BY <1>1, <1>5 DEF Shuts, Closes
<1>6. ASSUME NEW t \in Tab, Shows(t) PROVE ChoiceOK'
  <2>1. replaced' \subseteq Listed'
    BY <1>1, <1>6 DEF Shows
  <2>2. tab' \in [Tab -> {"closed", "blank", "ruffle", "hammerfest"}]
    BY <1>6 DEF Shows
  <2> QED
    BY <1>1, <1>6, <2>1, <2>2 DEF Shows
<1> QED
  BY <1>2, <1>3, <1>4, <1>5, <1>6 DEF World, Comes

\* A probe keeps numbers of processes only.
LEMMA ProbeTypes ==
  ASSUME ChoiceOK, NEW met, Probes(met)
  PROVE  rejected' \subseteq Pid /\ gone' = {}
BY DEF Probes, Retains, Alive

\* Each turn of main, and each turn of run, keeps the types.
LEMMA LoopKeepsTypes ==
  ASSUME ChoiceOK, Loop
  PROVE  ChoiceOK'
<1> USE PlayersAssumption DEF PlayersAssumption, ChoiceOK, TypeOK, ListOK
<1>1. CASE ReadsThePlugin
  <2>1. PICK p \in Candidates : Attaches(p)
    BY <1>1 DEF ReadsThePlugin
  <2>2. rejected' \subseteq Pid /\ gone' = {}
    BY <1>1, ProbeTypes DEF ReadsThePlugin
  <2>3. tabs' = <<>> /\ replaced' = {} /\ UNCHANGED <<world, before_the_tabs>>
    BY <1>1 DEF ReadsThePlugin, Player
  <2>4. p \in Player
    BY DEF Candidates, Alive, Player
  <2>5. /\ attached' = p /\ open' \in BOOLEAN /\ manager' = FALSE
        /\ before_other_tabs' \in 1..TABS_AGAIN
    BY <2>1 DEF Attaches
  <2> QED
    BY <2>2, <2>3, <2>4, <2>5, NoListTypes
<1>2. CASE ReadsAProgram
  <2>1. PICK e \in Executable : Attaches(e)
    BY <1>2 DEF ReadsAProgram
  <2>2. rejected' \subseteq Pid /\ gone' = {}
    BY <1>2, ProbeTypes DEF ReadsAProgram, NoPlugin
  <2>3. tabs' = <<>> /\ replaced' = {} /\ UNCHANGED <<world, before_the_tabs>>
    BY <1>2 DEF ReadsAProgram, NoPlugin, Player
  <2>4. /\ attached' = e /\ open' \in BOOLEAN /\ manager' = FALSE
        /\ before_other_tabs' \in 1..TABS_AGAIN
    BY <2>1 DEF Attaches
  <2> QED
    BY <2>2, <2>3, <2>4, NoListTypes DEF Player
<1>3. CASE WaitsForTabs
  <2>1. rejected' \subseteq Pid /\ gone' = {}
    BY <1>3, ProbeTypes DEF WaitsForTabs, NoPlugin
  <2>2. Listed' = Listed /\ before_the_tabs' \in 0..TABS_AGAIN
    BY <1>3 DEF WaitsForTabs, Listed, run
  <2> QED
    BY <1>3, <2>1, <2>2 DEF WaitsForTabs, run, world
<1>4. CASE LooksAtTheTabs
  <2>1. PICK list \in SetToSeqs(RuffleTabs) : NextTab(list)
    BY <1>4 DEF LooksAtTheTabs
  <2>2. rejected' \subseteq Pid /\ gone' = {}
    BY <1>4, ProbeTypes DEF LooksAtTheTabs, NoPlugin
  <2>3. list \in Seq(Tab)
    BY ListsOfTabs
  <2> QED
    BY <1>4, <2>1, <2>2, <2>3, NextTabType DEF LooksAtTheTabs, world
<1>5. CASE Closed
  BY <1>5, NoListTypes DEF Closed
<1>6. CASE Waits
  <2>1. Listed' = Listed /\ before_other_tabs' \in 1..TABS_AGAIN
    BY <1>6 DEF Waits, Listed
  <2> QED
    BY <1>6, <2>1 DEF Waits, world
<1>7. CASE GivesWay /\ OtherTab
  <2>1. NextTab(tabs) /\ Knows(tabs)
    BY <1>7 DEF GivesWay
  <2>2. replaced' \subseteq Listed'
    BY <2>1, NextTabType DEF Knows, Listed
  <2> QED
    BY <1>7, <2>1, <2>2, NextTabType DEF GivesWay, world
<1>8. CASE GivesWay /\ ~ OtherTab
  BY <1>8 DEF GivesWay, Listed, world
<1>9. CASE FindsTheManager \/ LosesTheManager
  BY <1>9 DEF FindsTheManager, LosesTheManager, Listed, world
<1> QED
  BY <1>1, <1>2, <1>3, <1>4, <1>5, <1>6, <1>7, <1>8, <1>9 DEF Loop

\* The types, for any number of players: the count of ticks before the other
\* tabs never passes below one, and a list of tabs never outlives the run on
\* a tab.
THEOREM TypeCorrect == Spec => []TypeOK
<1>1. ChoiceOK /\ UNCHANGED vars => ChoiceOK'
  BY DEF vars, world, run, ChoiceOK, TypeOK, ListOK, Listed
<1>2. ChoiceOK /\ [Next]_vars => ChoiceOK'
  BY <1>1, WorldKeepsTypes, LoopKeepsTypes DEF Next
<1>3. ChoiceOK => TypeOK
  BY DEF ChoiceOK
<1> QED
  BY <1>2, <1>3, InitChoiceOK, PTL DEF Spec

=============================================================================
