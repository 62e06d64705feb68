------------------------------ MODULE MCDevices ------------------------------
(***************************************************************************)
(* The memory device, the command line and the tidying of paths, checked   *)
(* side by side: a behaviour is one of one of them, while the others stay  *)
(* as they begin.                                                          *)
(***************************************************************************)
EXTENDS Mtd, Sequences

CONSTANTS
  Chars, RxSize, CmdMax,                                       \* Cli
  Letters, NAME_MAX, Cwds                                      \* Paths

VARIABLES
  which,                                                       \* the part that runs
  rx, front, back, flags, cmdSize, cursorPos, lastEsc,         \* Cli
  reader, got, old, process, taken, seen, pending, lost,
  path, cwd, prev                                              \* Paths

cliVars == <<rx, front, back, flags, cmdSize, cursorPos, lastEsc,
             reader, got, old, process, taken, seen, pending, lost>>
pathVars == <<path, cwd, prev>>

C == INSTANCE Cli
A == INSTANCE Paths

\* The working directories that Paths begins in.
SomeCwds == {<<>>, <<"/", "a">>, <<"/", "a", "/", "a">>}

ASSUME DevicesAssumption == C!CliAssumption /\ A!PathsAssumption
-----------------------------------------------------------------------------
Erased == [p \in Pages |-> [i \in InPage |-> Zero]]

InitPaths == IF which = "paths" THEN A!Init ELSE path = <<>> /\ cwd = <<>> /\ prev = "/"

DevicesInit == /\ which \in {"mtd", "cli", "paths"}
               /\ Init /\ (which # "mtd" => flash = Erased)
               /\ C!Init /\ InitPaths

StepMtd == which = "mtd" /\ Next /\ UNCHANGED <<which, cliVars, pathVars>>
StepCli == which = "cli" /\ C!Next /\ UNCHANGED <<which, vars, pathVars>>
StepPaths == which = "paths" /\ A!Next /\ UNCHANGED <<which, vars, cliVars>>

DevicesNext == StepMtd \/ StepCli \/ StepPaths

DevicesSpec == DevicesInit /\ [][DevicesNext]_<<which, vars, cliVars, pathVars>>
-----------------------------------------------------------------------------
(* The properties of Cli and of Paths; see there.  Those of Mtd are its own. *)

\* The ring between the two tasks keeps every character it takes, in order.
InOrder == which = "cli" => C!TypeOK /\ C!InOrder
\* Until a character is lost the cursor lies in the line.
CursorKept == which = "cli" => C!CursorKept

\* cwd.c, vfs.c, vfs_util.c: chdir, ls and r, and rm -r go where their path leads,
\* whatever dots and slashes it has; but chdir for a path that cwd.c misreads (Misread
\* of Paths), and ls and r where a name begins with a dot.
PathsMeant == which = "paths" => A!CwdMeant /\ A!ListMeant /\ A!SlashesOnly
=============================================================================
