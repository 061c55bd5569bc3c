---------------------------- MODULE PlayersProps ----------------------------
(***************************************************************************)
(* What the choice of a player promises (README.md:28, the comment of      *)
(* attach_plugin, docs/specs/ruffle-support.md).                           *)
(***************************************************************************)
EXTENDS Players

\* The loop and the players have their types; a list of tabs is left only
\* while one of them is read.
TypeOK ==
  /\ process \in [Pid -> {"none", "helper", "plugin"}]
  /\ programs \subseteq Executable
  /\ tab \in [Tab -> {"closed", "blank", "ruffle", "hammerfest"}]
  /\ rejected \subseteq Pid /\ gone \subseteq Pid
  /\ before_the_tabs \in 0..TABS_AGAIN /\ before_other_tabs \in 1..TABS_AGAIN
  /\ ToSet(tabs) \subseteq Tab /\ (tabs # <<>> => attached \in Tab)
  /\ attached \in Player \cup {None}
  /\ open \in BOOLEAN /\ manager \in BOOLEAN
  /\ replaced \subseteq Listed

\* The process with the plugin is always a newcomer: whatever was set aside
\* before, its number is not in the list.  It holds as long as a process has
\* the plugin from its start, and a number that ends is seen to end.
ThePluginIsANewcomer == \A p \in rejected : process[p] # "plugin"

\* When several players run and none is read yet, the order of README.md:28
\* is kept: EternalTwin, then the programs, then the tabs.
Rank(x) ==
  IF x \in Pid THEN 0
  ELSE IF x \in Executable THEN CHOOSE i \in DOMAIN Executables : Executables[i] = x
  ELSE Len(Executables) + 1

Running == {p \in Pid : process[p] = "plugin"} \cup programs \cup RuffleTabs

TheOrderIsKept ==
  [][attached = None /\ attached' # None =>
       \A x \in Running : Rank(attached') <= Rank(x)]_vars

\* Once players neither come nor go, the only one that plays Hammerfest is
\* read, and no other tab with Ruffle hides it.  A plugin or a program is
\* read when no tab process is open: a tab that is read keeps the loop.
Playing ==
  {p \in Pid : process[p] = "plugin"} \cup programs
  \cup {t \in Tab : tab[t] = "hammerfest"}

AllTabsClosed == \A t \in Tab : tab[t] = "closed"

TheGameIsRead ==
  \A x \in Player :
    /\ <>[][UNCHANGED world]_vars
    /\ <>[](Playing = {x} /\ (x \in Tab \/ AllTabsClosed))
    => <>[](attached = x)

=============================================================================
