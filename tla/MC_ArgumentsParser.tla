-------------------------- MODULE MC_ArgumentsParser --------------------------
(***************************************************************************)
(* Model values for ArgumentsParser.  Option names: a and b, which the     *)
(* unit test's specs define, p, the info and diff switch, and z, which no  *)
(* spec defines.  Parsers: the executors' own (makedict, info, diff), and  *)
(* every pairing of two option maps with six argument spec lists: the      *)
(* unit test's option specs (a switch, b a value option with a default)    *)
(* and one whose value option a has no default; no arguments, two single  *)
(* arguments, the unit test's single plus 0..2, one argument repeated      *)
(* without limit, and two lists validateSpecs rejects (a variable-length   *)
(* spec first, a repeated name), as in the unit test.                      *)
(***************************************************************************)
EXTENDS ArgumentsParser

MCOptionNames == {"a", "b", "p", "z"}
MCValues == {"v", "d"}
MCUnlimited == 100

MCOptionSpecMaps ==
    { ("a" :> SwitchOption) @@ ("b" :> KeyValueOption("d")),
      ("a" :> KeyValueOption("")) @@ ("b" :> KeyValueOption("d")) }

\* Spec lists from the code and its unit test.
MCArgumentSpecLists ==
    { <<>>,
      <<SingleArgument("x"), SingleArgument("y")>>,
      <<SingleArgument("x"), VariableLengthArguments("y", 0, 2)>>,
      <<VariableLengthArguments("x", 1, MCUnlimited)>>,
      <<VariableLengthArguments("x", 0, 1), SingleArgument("y")>>,
      <<SingleArgument("x"), VariableLengthArguments("x", 0, 1)>> }

MCParsers ==
    ExecutorParsers \cup
        {NewParser(o, a) : o \in MCOptionSpecMaps, a \in MCArgumentSpecLists}

\* The same, and variable-length specs whose counts cannot be met.
MCParsersWithBadCounts ==
    MCParsers \cup { NewParser(o, a) : o \in MCOptionSpecMaps,
                     a \in { <<VariableLengthArguments("x", 2, 1)>>,
                             <<VariableLengthArguments("x", 1, 0)>> } }
=============================================================================
