--------------------------- MODULE ArgumentsParser ---------------------------
(***************************************************************************)
(* dicttoolkit's command-line parser (utils/arguments_parser.cpp).         *)
(* parseArguments runs as a state machine: one action per iteration of    *)
(* its loop over argv (an option, with its value if it takes one, or a    *)
(* positional argument), and one for the minimum-count check after the    *)
(* loop.  validateSpecs is an operator.  The parser (its specs) is chosen *)
(* in Init from the parsers the configuration gives and never changes.    *)
(* The accessors of ArgumentsAndOptions are operators on the result, each *)
(* ASSERT as the condition under which it fails.                          *)
(*                                                                         *)
(* An argv element is a record: "-a" is [dash |-> TRUE, text |-> "a"], a  *)
(* plain string s is [dash |-> FALSE, text |-> s].  The lone "-" is        *)
(* [dash |-> TRUE, text |-> ""], which the code takes as an argument.      *)
(***************************************************************************)
EXTENDS Integers, Sequences, SequencesExt, ArgumentSpecs

CONSTANTS
    OptionNames,        \* names that appear after '-' in argv, known or not
    Values,             \* plain argv strings and option defaults
    Parsers,            \* the ArgumentsParsers (NewParser) parseArguments may run on
    MaxArgs,            \* bound on argc - 1
    NoResult            \* result before parseArguments returns

Opt(n) == [dash |-> TRUE, text |-> n]
Str(s) == [dash |-> FALSE, text |-> s]
Tokens == {Opt(n) : n \in OptionNames \cup {""}} \cup {Str(v) : v \in Values}

VARIABLES
    optionSpecs,     \* mOptionSpecs: name -> [needsValue, defaultValue]
    argumentSpecs,   \* mArgumentSpecs: sequence of [name, minCount, maxCount]
    args,            \* argv[1] .. argv[argc - 1]
    i,               \* the loop index
    options,         \* the options map being built
    arguments,       \* the arguments map being built
    specIt,          \* argumentSpecIt, an index into argumentSpecs
    result           \* the returned ArgumentsAndOptions, or NoResult

vars == <<optionSpecs, argumentSpecs, args, i, options, arguments, specIt, result>>

\* ArgumentsAndOptions(): the invalid result, with empty maps.
Invalid == [isValid |-> FALSE, options |-> <<>>, arguments |-> <<>>]

\* ArgumentsAndOptions(options, arguments): a valid result.
Valid(opts, argMap) == [isValid |-> TRUE, options |-> opts, arguments |-> argMap]

\* ArgumentsAndOptions::hasOption
HasOption(res, optionName) == optionName \in DOMAIN res.options

\* ArgumentsAndOptions::getOptionValue: ASSERT(it != mOptions.end()) fails.
GetOptionValueAsserts(res, optionName) == optionName \notin DOMAIN res.options

\* ArgumentsAndOptions::hasArgument: an entry, and not an empty one.
HasArgument(res, name) ==
    name \in DOMAIN res.arguments /\ res.arguments[name] # <<>>

\* ArgumentsAndOptions::getSingleArgument: ASSERT(it != end && !empty) fails.
GetSingleArgumentAsserts(res, name) ==
    ~(name \in DOMAIN res.arguments /\ res.arguments[name] # <<>>)

-----------------------------------------------------------------------------
\* validateSpecs: no spec with minCount = maxCount = 0, only the last one of
\* variable length, no name twice.
ValidateSpecs(specs) ==
    \A k \in 1..Len(specs) :
        /\ ~(specs[k].minCount = 0 /\ specs[k].maxCount = 0)
        /\ specs[k].minCount # specs[k].maxCount => k = Len(specs)
        /\ \A j \in 1..k - 1 : specs[j].name # specs[k].name

\* arg.length() > 1 && arg[0] == '-'
IsOption(a) == a.dash /\ a.text # ""

\* Mutant: the emptiness test on the default is inverted.
DefaultOptionsOfEmpty(specs) ==
    [n \in {m \in DOMAIN specs : specs[m].needsValue /\ specs[m].defaultValue = ""}
        |-> Str(specs[n].defaultValue)]

\* The options every parse starts with: the defaults of value options.
DefaultOptions(specs) ==
    [n \in {m \in DOMAIN specs : specs[m].needsValue /\ specs[m].defaultValue # ""}
        |-> Str(specs[n].defaultValue)]

\* options[optionName] = value, inserting or overwriting.
SetOption(opts, n, v) == (n :> v) @@ opts

\* arguments[name].push_back(a)
PushArgument(argMap, name, a) ==
    IF name \in DOMAIN argMap
    THEN [argMap EXCEPT ![name] = Append(@, a)]
    ELSE argMap @@ (name :> <<a>>)

\* Mutant: the iterator moves on only once the spec holds more than maxCount.
SpecFilledPastMax(count, spec) == count > spec.maxCount

\* The condition that moves argumentSpecIt to the next spec.
SpecFilled(count, spec) == count >= spec.maxCount

-----------------------------------------------------------------------------
Init ==
    /\ \E p \in Parsers : optionSpecs = p.options /\ argumentSpecs = p.arguments
    /\ args \in SeqOf(Tokens, MaxArgs)
    /\ i = 1
    /\ options = DefaultOptions(optionSpecs)
    /\ arguments = <<>>
    /\ specIt = 1
    /\ result = NoResult

\* Mutant: a switch option also steps over the element after it.
ParseOptionAlwaysSkipsValue ==
    /\ result = NoResult /\ i <= Len(args) /\ IsOption(args[i])
    /\ LET n == args[i].text IN
       IF n \notin DOMAIN optionSpecs
       THEN result' = Invalid /\ UNCHANGED <<i, options>>
       ELSE IF ~optionSpecs[n].needsValue
       THEN options' = SetOption(options, n, Str("")) /\ i' = i + 2
            /\ UNCHANGED result
       ELSE IF i + 1 > Len(args)
       THEN result' = Invalid /\ UNCHANGED <<i, options>>
       ELSE options' = SetOption(options, n, args[i + 1]) /\ i' = i + 2
            /\ UNCHANGED result
    /\ UNCHANGED <<optionSpecs, argumentSpecs, args, arguments, specIt>>

\* An option: unknown, or missing its value, ends the parse; otherwise it is
\* set, to the next element when it takes a value (whatever that element
\* is), else to "".
ParseOption ==
    /\ result = NoResult /\ i <= Len(args) /\ IsOption(args[i])
    /\ LET n == args[i].text IN
       IF n \notin DOMAIN optionSpecs
       THEN result' = Invalid /\ UNCHANGED <<i, options>>
       ELSE IF ~optionSpecs[n].needsValue
       THEN options' = SetOption(options, n, Str("")) /\ i' = i + 1
            /\ UNCHANGED result
       ELSE IF i + 1 > Len(args)
       THEN result' = Invalid /\ UNCHANGED <<i, options>>
       ELSE options' = SetOption(options, n, args[i + 1]) /\ i' = i + 2
            /\ UNCHANGED result
    /\ UNCHANGED <<optionSpecs, argumentSpecs, args, arguments, specIt>>

\* A positional argument: too many ends the parse; otherwise it goes to the
\* current spec, which is left once it holds maxCount of them.
ParseArgument ==
    /\ result = NoResult /\ i <= Len(args) /\ ~IsOption(args[i])
    /\ IF specIt > Len(argumentSpecs)
       THEN result' = Invalid /\ UNCHANGED <<i, arguments, specIt>>
       ELSE LET spec == argumentSpecs[specIt]
                argMap == PushArgument(arguments, spec.name, args[i])
            IN /\ arguments' = argMap
               /\ specIt' = IF SpecFilled(Len(argMap[spec.name]), spec)
                            THEN specIt + 1 ELSE specIt
               /\ i' = i + 1
               /\ UNCHANGED result
    /\ UNCHANGED <<optionSpecs, argumentSpecs, args, options>>

\* After the loop: only the spec the iterator stopped at is checked against
\* its minCount.
CheckMinCount ==
    /\ result = NoResult /\ i > Len(args)
    /\ LET spec == argumentSpecs[specIt]
           actual == IF spec.name \in DOMAIN arguments
                     THEN Len(arguments[spec.name]) ELSE 0
       IN result' = IF specIt <= Len(argumentSpecs) /\ spec.minCount > actual
                    THEN Invalid
                    ELSE Valid(options, arguments)
    /\ UNCHANGED <<optionSpecs, argumentSpecs, args, i, options, arguments, specIt>>

Next == ParseOption \/ ParseArgument \/ CheckMinCount

\* parseArguments is a loop of one thread: it takes every step it can.
Spec == Init /\ [][Next]_vars /\ WF_vars(Next)
-----------------------------------------------------------------------------
(* Properties.                                                             *)

TypeOK ==
    /\ i \in 1..Len(args) + 1
    /\ specIt \in 1..Len(argumentSpecs) + 1
    /\ DOMAIN options \subseteq DOMAIN optionSpecs
    /\ \A n \in DOMAIN options :
           options[n] \in Tokens \cup {Str(""), Str(optionSpecs[n].defaultValue)}
    /\ \A nm \in DOMAIN arguments : arguments[nm] \in Seq(Tokens)
    /\ result = NoResult \/ result.isValid \in BOOLEAN

\* Refinement: parseArguments, one loop iteration per step, implements the
\* one-step parse of ArgumentsParse, liveness included.  For a supported
\* spec list (every spec but the last of a fixed count) the result is that
\* of the whole-argv reference: the defaults overridden by the last
\* occurrence of each option, and each spec's run of positional elements.
\* It is about the interplay of the option loop, argumentSpecIt's advance
\* at maxCount and the single minCount check after the loop, and it says
\* that the loop ends.
Abstract == INSTANCE ArgumentsParse
ParseRefinesAbstract == Abstract!Spec

\* Every parser an executor builds passes validateSpecs and has a spec list
\* of the shape ParseRefinesAbstract makes its promise for.  No executor
\* calls validateSpecs, and only the header executor's unit test checks its
\* own parser, so a spec list edited out of shape would parse silently wrong.
ExecutorSpecsValid ==
    \A p \in ExecutorParsers :
        ValidateSpecs(p.arguments) /\ Abstract!Supported(p.arguments)

\* A valid result of a parser whose specs pass validateSpecs holds, for
\* every argument spec, between minCount and maxCount arguments.
ValidResultRespectsCounts ==
    result # NoResult /\ result.isValid /\ ValidateSpecs(argumentSpecs) =>
        \A k \in 1..Len(argumentSpecs) :
            LET nm == argumentSpecs[k].name
                c == IF nm \in DOMAIN result.arguments
                     THEN Len(result.arguments[nm]) ELSE 0
            IN argumentSpecs[k].minCount <= c /\ c <= argumentSpecs[k].maxCount

\* A valid result of a parser whose specs pass validateSpecs can be read
\* without an ASSERT firing wherever the specs promise a value: getOptionValue
\* of every value option with a non-empty default (given on the command line
\* or not) and getSingleArgument of every argument spec with minCount >= 1.
\* It rests on the defaults set before the loop surviving the loop, and on
\* the minCount check after it.
ValidResultServesRequired ==
    result # NoResult /\ result.isValid /\ ValidateSpecs(argumentSpecs) =>
        /\ \A n \in DOMAIN optionSpecs :
              optionSpecs[n].needsValue /\ optionSpecs[n].defaultValue # "" =>
                  ~GetOptionValueAsserts(result, n)
        /\ \A k \in 1..Len(argumentSpecs) :
              argumentSpecs[k].minCount >= 1 =>
                  ~GetSingleArgumentAsserts(result, argumentSpecs[k].name)

=============================================================================
