------------------------------ MODULE Players -------------------------------
(***************************************************************************)
(* Which player is read (main and run of src/lib.rs, src/plugin.rs): the   *)
(* Pepper Flash plugin of EternalTwin first, then a program whose          *)
(* executable is the player, then the Firefox tabs that run Ruffle.        *)
(*                                                                         *)
(* Players come and go between any two steps of the loop.  A probe of the  *)
(* processes has no await in it and is one step; a look at the tabs gives  *)
(* ticks back, and is one step all the same: what opens or closes in the   *)
(* middle does so before or after it.                                      *)
(***************************************************************************)
EXTENDS Naturals, Sequences, SequencesExt

CONSTANTS
  None,
  Pid,          \* process numbers of EternalTwin
  Executables,  \* the programs that are players, in the order they are tried
  Tab,          \* the processes of Firefox tabs
  TABS_AGAIN    \* ticks between two looks at the tabs

Executable == ToSet(Executables)
Player == Pid \cup Executable \cup Tab

ASSUME PlayersAssumption ==
  /\ TABS_AGAIN \in Nat \ {0}
  /\ Executables \in Seq(Executable)
  /\ IsFiniteSet(Tab)
  /\ None \notin Player
  /\ Pid \cap Executable = {} /\ (Pid \cup Executable) \cap Tab = {}

VARIABLES
  \* The players:
  process,   \* what each number of EternalTwin is: a helper, or the plugin
  programs,  \* the programs that run
  tab,       \* what each tab process shows
  \* The loop:
  rejected,  \* processes probed and set aside
  before_the_tabs,   \* ticks before the next look at the tabs
  tabs,      \* the tabs of the last look that are left to try
  attached,  \* the player that is read, or None
  open,      \* is its process still open?
  before_other_tabs, \* ticks before a tab without a game gives way
  manager,   \* is a game held, or a GameManager known, in that process?
  replaced,  \* tabs whose linear memory is no longer the one that was listed
  \* What happened:
  gone       \* numbers that ended since the processes were last listed

world == <<process, programs, tab>>
run == <<attached, open, before_other_tabs, manager, replaced>>
vars == <<world, rejected, before_the_tabs, tabs, run, gone>>

Init ==
  /\ process \in [Pid -> {"none", "helper"}]
  /\ programs = {}
  /\ tab \in [Tab -> {"closed", "blank"}]
  /\ rejected = {}
  /\ before_the_tabs = 0
  /\ tabs = <<>>
  /\ attached = None /\ open = FALSE
  /\ before_other_tabs = TABS_AGAIN
  /\ manager = FALSE
  /\ replaced = {}
  /\ gone = {}

-----------------------------------------------------------------------------
(* The players: external *)

\* A process that closes is noticed by the run that reads it.
Closes(x) == open' = (open /\ attached # x)

\* EternalTwin starts its processes.  Assumed: the one with the plugin has it
\* at once, and a number is not used again before its end was noticed.
Starts(p) ==
  /\ process[p] = "none"
  /\ p \notin gone
  /\ \E kind \in {"helper", "plugin"} : process' = [process EXCEPT ![p] = kind]
  /\ UNCHANGED <<programs, tab, open, gone>>

Ends(p) ==
  /\ process[p] # "none"
  /\ process' = [process EXCEPT ![p] = "none"]
  /\ gone' = gone \cup {p}
  /\ Closes(p)
  /\ UNCHANGED <<programs, tab>>

Opens(e) ==
  /\ e \notin programs
  /\ programs' = programs \cup {e}
  /\ UNCHANGED <<process, tab, open, gone>>

Quits(e) ==
  /\ e \in programs
  /\ programs' = programs \ {e}
  /\ Closes(e)
  /\ UNCHANGED <<process, tab, gone>>

Listed == {attached} \cup ToSet(tabs)

\* A tab opens, shows a page, a page with Ruffle, or Hammerfest; a page that
\* is left takes the linear memory of its Ruffle along.  A number is not used
\* again while the loop knows it.
Shows(t) ==
  /\ tab[t] = "closed" => t \notin Listed
  /\ \E page \in {"blank", "ruffle", "hammerfest"} \ {tab[t]} :
       /\ page = "hammerfest" => tab[t] = "ruffle"
       /\ tab' = [tab EXCEPT ![t] = page]
       /\ replaced' = IF page # "hammerfest" /\ t \in Listed
                      THEN replaced \cup {t} ELSE replaced
  /\ UNCHANGED <<process, programs, open, gone>>

Shuts(t) ==
  /\ tab[t] # "closed"
  /\ tab' = [tab EXCEPT ![t] = "closed"]
  /\ Closes(t)
  /\ UNCHANGED <<process, programs, gone>>

Comes ==
  /\ \/ \E p \in Pid : Starts(p) \/ Ends(p)
     \/ \E e \in Executable : Opens(e) \/ Quits(e)
     \/ \E t \in Tab : Shuts(t)
  /\ UNCHANGED replaced

World ==
  /\ Comes \/ \E t \in Tab : Shows(t)
  /\ UNCHANGED <<rejected, before_the_tabs, tabs, attached, before_other_tabs,
                 manager>>

-----------------------------------------------------------------------------
(* The choice of a player *)

Alive == {p \in Pid : process[p] # "none"}
Candidates == {p \in Alive \ rejected : process[p] = "plugin"}
Newcomers == Alive \ (rejected \cup Candidates)

\* Mutant: a process that is set aside stays so.
RetainsAll(list) == list

\* Pids that disappear are removed.
Retains(list) == list \cap Alive

\* attach_plugin: the processes met before the plugin are set aside, all of
\* them when none carries it.
Probes(met) ==
  /\ met \subseteq Newcomers
  /\ Candidates = {} => met = Newcomers
  /\ rejected' = Retains(rejected \cup met)
  /\ gone' = {}

\* A run starts on a player with nothing that was learned elsewhere.
Attaches(x) ==
  /\ attached' = x
  /\ open' = (x \in Alive \cup programs \cup {t \in Tab : tab[t] # "closed"})
  /\ before_other_tabs' = TABS_AGAIN
  /\ manager' = FALSE

ReadsThePlugin ==
  /\ attached = None
  /\ \E met \in SUBSET Newcomers : Probes(met)
  /\ \E p \in Candidates : Attaches(p)
  /\ replaced' = {}
  /\ UNCHANGED <<world, before_the_tabs, tabs>>

\* Mutant: the programs are tried in any order.
AnyProgram(e) == e \in programs

\* The first program, in their order, that runs.
FirstProgram(e) ==
  /\ e \in programs
  /\ \A i, j \in DOMAIN Executables :
       i < j /\ Executables[j] = e => Executables[i] \notin programs

NoPlugin == attached = None /\ Candidates = {} /\ Probes(Newcomers)

ReadsAProgram ==
  /\ NoPlugin
  /\ \E e \in Executable : FirstProgram(e) /\ Attaches(e)
  /\ replaced' = {}
  /\ UNCHANGED <<world, before_the_tabs, tabs>>

\* Nothing to read: the policy is told so, and the loop waits.
WaitsForTabs ==
  /\ NoPlugin /\ programs = {}
  /\ before_the_tabs > 0
  /\ before_the_tabs' = before_the_tabs - 1
  /\ UNCHANGED <<world, tabs, run>>

RuffleTabs == {t \in Tab : tab[t] \in {"ruffle", "hammerfest"}}

\* The next tab of the list, or none: then the loop starts again.
NextTab(list) ==
  IF list = <<>>
  THEN /\ attached' = None /\ tabs' = <<>> /\ open' = FALSE
       /\ UNCHANGED <<before_other_tabs, manager>>
  ELSE Attaches(Head(list)) /\ tabs' = Tail(list)

\* What was replaced matters for the tabs that are known.
Knows(list) == replaced' = replaced \cap ToSet(list)

LooksAtTheTabs ==
  /\ NoPlugin /\ programs = {}
  /\ before_the_tabs = 0
  /\ before_the_tabs' = TABS_AGAIN
  /\ \E list \in SetToSeqs(RuffleTabs) : NextTab(list)
  /\ replaced' = {}
  /\ UNCHANGED world

-----------------------------------------------------------------------------
(* The run on a player *)

\* Its process closed.  The tabs that were left are not tried.
Closed ==
  /\ attached # None /\ ~ open
  /\ attached' = None
  /\ tabs' = <<>>
  /\ manager' = FALSE
  /\ replaced' = {}
  /\ UNCHANGED <<world, rejected, before_the_tabs, open, before_other_tabs,
                 gone>>

Waiting == attached \in Tab /\ open /\ ~ manager

\* Mutant: no look at the other tabs when the count is done.
WaitsOn ==
  /\ Waiting
  /\ before_other_tabs > 0
  /\ before_other_tabs' = before_other_tabs - 1
  /\ UNCHANGED <<world, rejected, before_the_tabs, tabs, attached, open,
                 manager, replaced, gone>>

\* A turn on a tab that shows no game yet.
Waits ==
  /\ Waiting
  /\ before_other_tabs > 1
  /\ before_other_tabs' = before_other_tabs - 1
  /\ UNCHANGED <<world, rejected, before_the_tabs, tabs, attached, open,
                 manager, replaced, gone>>

\* Mutant: a tab is kept while it is open.
NoOtherTab == FALSE

\* Another process, or another memory of this one, runs Ruffle.
OtherTab == RuffleTabs \ ({attached} \ replaced) # {}

\* The tabs are looked at again: another one may be the game.
GivesWay ==
  /\ Waiting
  /\ before_other_tabs = 1
  /\ IF OtherTab
     THEN NextTab(tabs) /\ Knows(tabs)
     ELSE /\ before_other_tabs' = TABS_AGAIN
          /\ UNCHANGED <<tabs, attached, open, manager, replaced>>
  /\ UNCHANGED <<world, rejected, before_the_tabs, gone>>

\* The search finds the GameManager of the memory that is read.
FindsTheManager ==
  /\ Waiting
  /\ tab[attached] = "hammerfest" /\ attached \notin replaced
  /\ manager' = TRUE
  /\ UNCHANGED <<world, rejected, before_the_tabs, tabs, attached, open,
                 before_other_tabs, replaced, gone>>

\* The GameManager of a page that was left is no longer one (module Search).
LosesTheManager ==
  /\ manager /\ open /\ attached \in Tab
  /\ tab[attached] # "hammerfest" \/ attached \in replaced
  /\ manager' = FALSE
  /\ UNCHANGED <<world, rejected, before_the_tabs, tabs, attached, open,
                 before_other_tabs, replaced, gone>>

Loop ==
  \/ ReadsThePlugin \/ ReadsAProgram \/ WaitsForTabs \/ LooksAtTheTabs
  \/ Closed \/ Waits \/ GivesWay \/ FindsTheManager
  \/ LosesTheManager

Next == World \/ Loop

Spec == Init /\ [][Next]_vars

\* The loop turns, and a search that can find its game again and again does.
FairSpec == Spec /\ WF_vars(Loop) /\ SF_vars(FindsTheManager)

=============================================================================
