---------------------------- MODULE ArgumentSpecs ----------------------------
(***************************************************************************)
(* The values an ArgumentsParser is built from (utils/arguments_parser.h)  *)
(* and the parsers the command executors build.  An OptionSpec is          *)
(* [needsValue, defaultValue], an ArgumentSpec [name, minCount, maxCount], *)
(* a parser [options, arguments]: an option name -> OptionSpec function    *)
(* and a sequence of ArgumentSpecs.  Value names and descriptions only     *)
(* feed printUsage and are left out.                                       *)
(***************************************************************************)
EXTENDS TLC

CONSTANT UNLIMITED_COUNT   \* ArgumentSpec::UNLIMITED_COUNT (S_INT_MAX)

\* OptionSpec::keyValueOption
KeyValueOption(defaultValue) == [needsValue |-> TRUE, defaultValue |-> defaultValue]

\* OptionSpec::switchOption: no value, no default.
SwitchOption == [needsValue |-> FALSE, defaultValue |-> ""]

\* ArgumentSpec::singleArgument
SingleArgument(name) == [name |-> name, minCount |-> 1, maxCount |-> 1]

\* ArgumentSpec::variableLengthArguments
VariableLengthArguments(name, minCount, maxCount) ==
    [name |-> name, minCount |-> minCount, maxCount |-> maxCount]

\* ArgumentsParser::ArgumentsParser(optionSpecs, argumentSpecs)
NewParser(optionSpecs, argumentSpecs) ==
    [options |-> optionSpecs, arguments |-> argumentSpecs]

-----------------------------------------------------------------------------
\* MakedictExecutor::getArgumentsParser
MakedictOptionSpecs ==
    ("o" :> KeyValueOption("2")) @@ ("t" :> KeyValueOption("off"))
MakedictArgumentSpecs == << SingleArgument("src_dict"), SingleArgument("dest_dict") >>

\* Mutant: the optional words are declared before the dictionary.
InfoArgumentSpecsWordFirst ==
    << VariableLengthArguments("word", 0, UNLIMITED_COUNT), SingleArgument("dict") >>

\* InfoExecutor::getArgumentsParser
InfoOptionSpecs == "p" :> SwitchOption
InfoArgumentSpecs ==
    << SingleArgument("dict"), VariableLengthArguments("word", 0, UNLIMITED_COUNT) >>

\* DiffExecutor::getArgumentsParser
DiffOptionSpecs == "p" :> SwitchOption
DiffArgumentSpecs == << SingleArgument("dict1"), SingleArgument("dict2") >>

\* The parsers the executors build.
ExecutorParsers ==
    { NewParser(MakedictOptionSpecs, MakedictArgumentSpecs),
      NewParser(InfoOptionSpecs, InfoArgumentSpecs),
      NewParser(DiffOptionSpecs, DiffArgumentSpecs) }
=============================================================================
