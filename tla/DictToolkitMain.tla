--------------------------- MODULE DictToolkitMain ---------------------------
(***************************************************************************)
(* dicttoolkit's entry point (dict_toolkit_main.cpp) with the command      *)
(* table (utils/command_utils.cpp) and the executors it dispatches to.     *)
(* main checks argc, maps argv[1] to a CommandType and runs that           *)
(* command's executor on argv + 1.  makedict parses its arguments with an  *)
(* ArgumentsParser built from its own specs; the parse is the             *)
(* ArgumentsParser module, instantiated with those specs, one loop         *)
(* iteration per step.  The other executors print a message and return.   *)
(*                                                                         *)
(* argv is <<program, cmd>> \o args; cmd is NoCommand when argc = 1.       *)
(***************************************************************************)
EXTENDS Integers, Sequences, SequencesExt, ArgumentSpecs

CONSTANTS
    CommandNames,    \* strings argv[1] may hold
    MIN_ARG_COUNT,   \* from dict_toolkit_defines.h
    OptionNames, Values, MaxArgs, NoResult,
    NoCommand,       \* argv has no argv[1]
    NoExit           \* exit code before main returns

VARIABLES
    cmd,          \* argv[1]
    pc,           \* "main", the executor running, or "done"
    exitCode,     \* main's return value
    optionSpecs, argumentSpecs, args, i, options, arguments, specIt, result

parserVars == <<optionSpecs, argumentSpecs, args, i, options, arguments, specIt, result>>
vars == <<cmd, pc, exitCode, parserVars>>

\* The parse of MakedictExecutor::run, on the parser getArgumentsParser builds.
Parser == INSTANCE ArgumentsParser
              WITH Parsers <- {NewParser(MakedictOptionSpecs, MakedictArgumentSpecs)}

argc == 1 + (IF cmd = NoCommand THEN 0 ELSE 1) + Len(args)

\* CommandUtils::getCommandType
GetCommandType(name) ==
    CASE name = "info" -> "Info"
      [] name = "diff" -> "Diff"
      [] name = "makedict" -> "Makedict"
      [] name = "header" -> "Header"
      [] name = "help" -> "Help"
      [] OTHER -> "Unknown"

\* Mutant: the table hands makedict to the info executor.
GetCommandExecutorMakedictAsInfo(type) ==
    CASE type = "Info" -> "info"
      [] type = "Diff" -> "diff"
      [] type = "Makedict" -> "info"
      [] type = "Header" -> "header"
      [] type = "Help" -> "help"
      [] OTHER -> "notFound"

\* CommandUtils::getCommandExecutor, the executor named by the pc it runs at.
GetCommandExecutor(type) ==
    CASE type = "Info" -> "info"
      [] type = "Diff" -> "diff"
      [] type = "Makedict" -> "makedict"
      [] type = "Header" -> "header"
      [] type = "Help" -> "help"
      [] OTHER -> "notFound"

\* The exit codes of the executors that parse nothing: info, diff and help
\* return 0, the table's fallback lambda returns 1.
FixedExitCode == [info |-> 0, diff |-> 0, help |-> 0, notFound |-> 1]

-----------------------------------------------------------------------------
Init ==
    /\ cmd \in CommandNames \cup {NoCommand}
    /\ Parser!Init
    /\ cmd = NoCommand => args = <<>>
    /\ pc = "main"
    /\ exitCode = NoExit

\* main: a short argv or an unknown command returns 1, anything else runs
\* the executor.
Main ==
    /\ pc = "main"
    /\ IF argc < MIN_ARG_COUNT \/ GetCommandType(cmd) = "Unknown"
       THEN pc' = "done" /\ exitCode' = 1
       ELSE pc' = GetCommandExecutor(GetCommandType(cmd)) /\ UNCHANGED exitCode
    /\ UNCHANGED <<cmd, parserVars>>

\* InfoExecutor::run, DiffExecutor::run, HelpExecutor::run, the fallback.
RunFixed ==
    /\ pc \in DOMAIN FixedExitCode
    /\ pc' = "done" /\ exitCode' = FixedExitCode[pc]
    /\ UNCHANGED <<cmd, parserVars>>

\* HeaderExecutor::run is declared but not defined in this tree: any exit
\* code.
RunHeader ==
    /\ pc = "header"
    /\ pc' = "done" /\ exitCode' \in {0, 1}
    /\ UNCHANGED <<cmd, parserVars>>

\* MakedictExecutor::run: one iteration of parseArguments.
MakedictParse ==
    /\ pc = "makedict"
    /\ Parser!Next
    /\ UNCHANGED <<cmd, pc, exitCode>>

\* Mutant: a failed parse returns -1.
MakedictReturnNegative ==
    /\ pc = "makedict" /\ result # NoResult
    /\ pc' = "done" /\ exitCode' = IF result.isValid THEN 0 ELSE -1
    /\ UNCHANGED <<cmd, parserVars>>

\* MakedictExecutor::run after the parse: usage and 1, or 0.
MakedictReturn ==
    /\ pc = "makedict" /\ result # NoResult
    /\ pc' = "done" /\ exitCode' = IF result.isValid THEN 0 ELSE 1
    /\ UNCHANGED <<cmd, parserVars>>

Next == Main \/ RunFixed \/ RunHeader \/ MakedictParse \/ MakedictReturn

\* A single thread runs main to its return: every enabled step is taken.
Spec == Init /\ [][Next]_vars /\ WF_vars(Next)

-----------------------------------------------------------------------------
(* Properties.                                                             *)

TypeOK ==
    /\ cmd \in CommandNames \cup {NoCommand}
    /\ pc \in {"main", "makedict", "header", "done"} \cup DOMAIN FixedExitCode
    /\ exitCode \in {NoExit, 0, 1}
    /\ Parser!TypeOK

\* makedict's argv is acceptable: known options with their values, and
\* exactly the two positional arguments src_dict and dest_dict.
MakedictArgvOk == Parser!Abstract!Answer.isValid

\* The exit-code contract of main (spec section 6): 1 on a short argv, an
\* unknown command or an unusable makedict argv; 0 for every other command
\* but header, whose executor is not in this tree.
ExitCodeContract ==
    pc = "done" /\ cmd # "header" =>
        (exitCode = 1 <=> \/ cmd = NoCommand
                          \/ GetCommandType(cmd) = "Unknown"
                          \/ cmd = "makedict" /\ ~MakedictArgvOk)

=============================================================================
