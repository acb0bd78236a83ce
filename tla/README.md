# TLA+ models of dicttoolkit

This directory holds TLA+ models of the dictionary toolkit under
`src/app/src/main/native/dicttoolkit/`. The toolkit is a command-line program
for building keyboard dictionaries. It is single-threaded and synchronous.
What is hard in it is not concurrency. It is the order and shape of inputs: a
sequence of `addWord` calls that splits a trie node in a way nobody tested, a
lookup that ends inside a label, a byte string with a bad continuation byte,
an argument vector that meets a spec list nobody validated. TLC explores all of
these exhaustively within small bounds.

## 1. Inventory

| Component | Source | State | Operations |
|---|---|---|---|
| IntermediateDict trie | `src/offdevice_intermediate_dict/offdevice_intermediate_dict.{h,cpp}` | `mRootPtNodeArray`, the header (immutable) | `addWord` → `addWordInner` (recursive), `getWordProperty` |
| PtNode / PtNodeArray | `..._pt_node.h`, `..._pt_node_array.h` | label code points (const), `mWortProperty` (const, may be null), children list (mutable) | four constructors; the mutable children list |
| Header | `..._header.h` | immutable attribute map | constructor only |
| Utf8Utils | `src/utils/utf8_utils.{h,cpp}` | none (pure); the decoder loop keeps `remainingByteCount…`, `currentCodePointSequenceSize`, `codePoint`, output | `getCodePoints` (decode), `getUtf8String` (encode) |
| ArgumentsParser | `src/utils/arguments_parser.{h,cpp}`, `arguments_and_options.h` | option specs and argument specs (const); during a parse: options map, arguments map, spec iterator | `validateSpecs`, `parseArguments`, `printUsage` |
| Command dispatch | `dict_toolkit_main.cpp`, `src/utils/command_utils.cpp` | none | `main`, `getCommandType`, `getCommandExecutor` |
| Executors | `src/command_executors/*` | none | `run` of makedict, info, diff, header, help |

How they interact. `main` checks `argc`, maps `argv[1]` to a `CommandType` and
calls that executor with the rest of `argv`. Only `makedict` parses its
arguments, with `ArgumentsParser`. The others print a message and return 0.
No executor builds an `OffdeviceIntermediateDict` yet. The trie is driven by
its unit test and will be driven by a future reader, which calls `addWord`
once per word. A future serializer then walks the trie. The codec converts
between the strings on the command line or in files and the code point
sequences that the trie is keyed on.

Hard behaviours, by component:

* **Trie.** The nodes are immutable except for their children list. An
  "update" builds a new node and swaps it into the parent list. A split creates
  a new parent for the common prefix and relabels the old node with its
  suffix. Three facts are invisible to the single unit test:
  * Splitting a node that has no `WordProperty` runs the label-replacing
    constructor, which copies through a null pointer.
  * `getWordProperty` bounds a label by the whole query's length instead of
    the length that remains, so it can read past the end of the query.
  * Siblings are kept in *descending* order of first code point, while the
    spec says ascending.
* **Codec.** The decoder drops bit 20 of four-byte sequences (mask `0x03`
  instead of `0x07`), so U+100000..U+10FFFF are rejected as "redundant". It
  does not check that continuation bytes are `10xxxxxx`. It drops a truncated
  final sequence silently. Nothing bounds a decoded value by 0x10FFFF except
  that same narrow mask.
* **ArgumentsParser.** `parseArguments` checks the minimum count of only the
  spec its iterator stopped at. That is enough only when `validateSpecs` holds,
  and no executor calls `validateSpecs`. A value option consumes the next
  element whatever it is. A spec with `maxCount == 0` behaves as `maxCount == 1`.
  Line 36 of `arguments_parser.cpp` has a stray `v` and does not compile as
  written; the model follows the evident intent, which is only a log call.

Correctness, by component:

* **Trie.** The siblings of every array have distinct first code points, in
  one fixed order. Every node without a payload branches. `getWordProperty`
  returns exactly the payload of the accepted `addWord` call for that word,
  and none for any other query. A rejected call changes nothing. `addWord`
  never faults on valid input.
* **Codec.** Decoding inverts encoding for every scalar value. The decoder
  accepts only well-formed UTF-8. The encoder produces the standard encoding.
* **Parser.** A valid result fills every argument spec between its minimum
  and maximum and sets only known options. Every value option with a default
  has a value.
* **Dispatch.** The exit code is 1 exactly on a short `argv`, an unknown
  command, or a failed makedict parse.

## 2. Plan

Modules, in the order they are built. The most important behaviour comes first.

1. `OffdeviceIntermediateDict` (done). The trie. `addWord` is one action that
   includes the whole recursion. `getWordProperty` is an operator.
   `MC_OffdeviceIntermediateDict` instantiates it.
2. `WordDictionary` (done). The abstract specification: a map from words to
   payloads. `OffdeviceIntermediateDict` refines it under the mapping
   `dict <- Contents` (the payloads of terminal nodes, keyed by path) and
   `result <- lastResult`.
3. `Utf8Utils` (done). `getCodePoints` runs as a state machine, one action per byte
   of the loop, over bounded byte strings drawn from boundary bytes.
   `getUtf8String` is an operator, checked against a reference encoding
   written with arithmetic instead of masks. Runs: the encoder against the
   reference; decoded values in range; round trip (expected violation,
   plane 16); only well-formed input accepted (expected violation).
4. `ArgumentsParser` (done). `parseArguments` runs one argv element per step.
   `validateSpecs` is an operator. Spec lists are drawn from the executors'
   own lists, the unit test's list, and invalid ones. Property: for specs
   that `validateSpecs` accepts, the parse agrees with a reference parse.
5. `DictToolkitMain` (done). Composes `ArgumentsParser` through `INSTANCE`: `main`,
   `getCommandType`, `getCommandExecutor` and the executors' exit codes.
6. (done) Which `addWord` calls free a `WordProperty` that `getWordProperty`
   returned earlier (the header's warning), through the `freed` history
   variable.
7. (done) `ArgumentSpecs`: the spec constructors and the executors' parsers as
   values. The `ArgumentsAndOptions` accessors are operators whose `ASSERT`
   is a condition.
8. (done) The header, as the `header` variable of the trie, mapped to
   `WordDictionary`'s header. `ArgumentsParse`: the one-step parse that
   `parseArguments` promises. The loop refines it, and termination is
   part of that refinement.

## 3. What is modelled and checked

### OffdeviceIntermediateDict

State:

| Variable | Code |
|---|---|
| `root` | `mRootPtNodeArray`, a sequence of PtNode records `[codePoints, wordProperty, children]` |
| `lastResult` | `addWord`'s return value |
| `crashed` | the process died in `addWord` |
| `calls` | bounded by `MaxCalls` |
| `added` | a history variable: the payload of each accepted word |
| `header` | `mHeader`: the attribute map the dictionary was constructed with, chosen in `Init` from `AttributeMaps` (one map in the model) and never changed; `GetHeader` is `getHeader` |
| `freed` | a history variable: the words whose `WordProperty` object the last call deleted by erasing a terminal node from its list (`Erased`, lines 64 and 79) |

Because a replaced node is erased from its list in the same call that
replaces it, `shared_ptr` sharing is never observable. The trie can therefore
be modelled as a value.

Operators:

* `AddWordInner` translates `addWordInner` branch for branch:
  * `StopPosition` is the sibling loop's `continue`/`break`.
  * `ScanFrom` is the common-prefix loop, with the code's 0-based `i`.
  * The remaining branches are: descend, exact match (duplicate or
    payload-replacing), split (crash on a non-terminal node, or a new parent
    that is terminal when the word ends at `i`, followed by a recursive insert
    of the rest), and insert.
* `LookupFrom` translates the `getWordProperty` loop. It records an
  out-of-range read instead of performing one. The value read there is
  undefined, but every outcome ends in `nullptr`: a mismatch returns it, and a
  match makes `i` exceed the size, which exits the loop. So the result is
  fixed and only the read is flagged.

Run `trie_core` (pass): 87,227 distinct states, about a minute and a half. The bounds are
code points {1,2,3}, `MAX_WORD_LENGTH = 3`, words of length 0..3 plus one of
length 4, two unigram values (symmetric), and three `addWord` calls. These
bounds reach every branch:

* insertion before, between and after siblings;
* a split whose new parent is terminal, and one that recurses;
* exact matches on terminal and non-terminal nodes;
* descent two levels deep;
* both rejections;
* the crash.

It checks six properties:

* `TypeOK`.
* `SiblingsDescending`.
* `NonTerminalsBranch`: every node without a payload has at least two children.
* `LookupAgreesWithHistory`: for all 41 queries (every word of up to three code points, and one of four), `getWordProperty` returns the
  accepted payload or none.
* `AbstractSpec`: refinement of `WordDictionary`, which covers rejected
  duplicates, the length bounds, and no lost or changed words. The mapping
  also sends `header` to `getHeader`, which keeps the constructor's map.
* `WordPropertyPointersStable`, an action property. A call frees the
  `WordProperty` of a stored word q only when the new word splits q's node:
  it shares with q a prefix that ends strictly inside q's label. The header
  (line 38) only says that any modification may invalidate a pointer.
  Splits of ancestors keep the pointer valid, because the copy takes the
  children list of `shared_ptr`s with it. A duplicate is rejected before
  anything is freed. A dropped duplicate check (the mutant) replaces the node
  and frees the payload a caller holds.

Each property has a mutant in `PROJECT.json`: a one-definition change of the
kind a real bug would make, which TLC catches.

Violation runs, each one property, each recorded as a finding:

* `trie_spec_order`: `SiblingsAscending` (spec section 3). The trace adds 1
  and then 2, and the root becomes `<<2, 1>>`.
* `trie_split_nonterminal`: `AddWordNeverCrashes`. Adding 112 and 113 makes a
  non-terminal node 11, and adding 1 or 12 then copies its null payload.
* `trie_lookup_bounds`: `LookupInBounds`. With 1 and 123 stored, the query 12
  reads `codePoints[2]`.

Fairness: none. The toolkit is a single sequential build pass, and nothing in
it must eventually happen beyond termination of bounded recursions. The
properties are safety properties. `CHECK_DEADLOCK FALSE` is set because a
build pass really stops: after its last word, or when the process aborts in
`addWord`.

### Utf8Utils

State: `input` is the byte string (unsigned values), `pos` the loop's
position, `remaining`, `seqSize` and `codePoint` the locals of
`getCodePoints`, `codePoints` the vector it builds, and `result` what it
returns. `source` is a history variable: the code points whose encoding
`input` is, or `NoSource` for a raw byte string. The constant tables are
TLA+ sequences read through `At(table, size)`, because the C arrays are
indexed from 0. The masks and shifts use the `Bitwise` community module.

Actions: `LeadByte` (lines 40-47, with the common tail `EndIteration`,
lines 52-60), `TrailingByte` (48-51) and `Return` (62). An invalid first byte
and a redundant encoding both return the empty vector, as the code does.
`getUtf8String` is the operator `GetUtf8String`; it is not a state machine
because its loop has no early exit except the one that empties the string.

Bounds: raw strings of up to four bytes over twelve boundary bytes (ASCII,
the continuation range limits, the overlong lead C1, the first valid leads
C2/E0/F0, the surrogate lead ED, F4, F7 and the invalid F8), and encodings of
one or two code points over twelve boundary values (-1, 0, the ends of every
range, and 0x110000). Every branch of the decoder and the encoder is reached.

Run `utf8_core` (pass, about 100,000 states, seconds): `TypeOK`;
`EncoderMatchesReference`, the encoder against an encoding written with
arithmetic on the RFC 3629 ranges; `DecodedInRange`, no decoded value leaves
0..0x10FFFF. Its mutant widens the four-byte mask to the correct `0x07`:
then F4 90 80 80 decodes above 0x10FFFF. So the range bound holds today only
because of the narrow mask.

Violation runs:

* `utf8_roundtrip`: `DecodeInvertsEncode`. U+10FFFF encodes to F4 8F BF BF,
  which decodes to 0xFFFF and is rejected as redundant (mask `0x03`,
  `utf8_utils.cpp:27`).
* `utf8_wellformed`: `AcceptsOnlyWellFormed`. `41 C1` decodes to `<<0x41>>`:
  the unfinished sequence is dropped. Continuation bytes are not checked.

### ArgumentSpecs and ArgumentsParser

`ArgumentSpecs` is a constant module. It holds the values a parser is built
from:

* `KeyValueOption`, `SwitchOption`, `SingleArgument` and
  `VariableLengthArguments` (arguments_parser.h);
* `NewParser`, a parser as `[options, arguments]`;
* the parsers that makedict, info and diff build in their
  `getArgumentsParser`.

`ArgumentsParser` adds the `ArgumentsAndOptions` accessors as operators.
`getOptionValue` and `getSingleArgument` are
each modelled as the condition under which their `ASSERT` fails.
`getVariableLengthArguments` is not: its `ASSERT` is the caller's
precondition, no caller in this tree calls it, and the unit test guards it
with `hasArgument`.

State: `optionSpecs` and `argumentSpecs`, the parser's const members, chosen
in `Init` and never changed; `args`, argv without argv[0]; the loop index
`i`; the `options` and `arguments` maps; `specIt`, the index of
`argumentSpecIt`; `result`. An argv element is a record: `-a` is
`[dash |-> TRUE, text |-> "a"]`, and the lone `-` is an argument, as in the
code. `argc <= 0` is not reachable from any caller (an executor always gets
argv[0]) and is not modelled.

Actions: `ParseOption` (lines 112-133), `ParseArgument` (134-146) and
`CheckMinCount` (149-161). `Init` sets the defaults (99-107).

Bounds: argv of up to four elements over the options a, b, p and an unknown
z, the lone `-`, and two plain strings. The parsers are the three executors'
own, and every pairing of two option spec maps with six argument spec lists.
The two option spec maps are the unit test's, and one whose value option has
no default. The six argument spec lists are:

* none;
* two single arguments;
* the unit test's single argument followed by 0..2 arguments;
* one unlimited argument;
* the unit test's two lists that `validateSpecs` rejects.

`ArgumentsParse` is the abstract specification of the parse. It has the
same variables (the specs, `args` and `result`) and a single action, `Parse`,
that sets `result` at once. For a supported spec list the result is a
reference parse written over the whole argv:

* Supported means every spec but the last has a fixed count of at least
  one, the last spec has `1 <= maxCount` and `minCount <= maxCount`, and no
  name repeats.
* The reference first separates options from positional elements.
* It then cuts the positional elements into consecutive runs. Every spec but
  the last takes exactly `maxCount`.

For any other spec list, `Parse` only promises to return. `Returns`
(`<>(result # NoResult)`) states the abstract liveness. It equals
`WF_vars(Parse)`, since `Parse` is enabled exactly while `result =
NoResult`. It is written this way because TLC cannot compute `ENABLED` of
an action that leaves its result open. The reference does not use the
code's `IsOption` or `DefaultOptions`, so a bug in those is caught too.

`ArgumentsParser`'s `Spec` has `WF_vars(Next)`. `parseArguments` is one
thread running one loop, so every step it can take is taken.

Run `parser_core` (pass, 134,501 states, seconds) checks four properties:

* `TypeOK`.
* `ParseRefinesAbstract` (`Abstract!Spec`, where
  `Abstract == INSTANCE ArgumentsParse`). The loop's option and argument
  steps stutter, and `CheckMinCount` is the abstract `Parse`. A mutant that
  moves arguments to the wrong spec breaks the safety part. A loop that
  never reaches the `minCount` check breaks `Returns`.
* `ExecutorSpecsValid`. The makedict, info and diff parsers pass
  `validateSpecs` and have a supported shape. No executor calls
  `validateSpecs`, and no unit test checks these three parsers.
* `ValidResultServesRequired`. A valid result serves `getOptionValue` for
  every value option with a non-empty default, and `getSingleArgument` for
  every spec with `minCount >= 1`, without an `ASSERT` firing. This depends on
  two things. The defaults set before the loop must survive it. The
  `minCount` check after the loop must hold.

Violation run `parser_counts`: `ValidResultRespectsCounts`, with two more
spec lists. `validateSpecs` accepts `(x, 1, 0)` and `(x, 2, 1)`. For each,
the argv `d` gives a valid result with a count outside the spec.

### DictToolkitMain

State: `cmd`, argv[1] (or `NoCommand`); `pc`, which of main or an executor is
running; `exitCode`; and the parser's variables, driven through
`Parser == INSTANCE ArgumentsParser WITH Parsers <- {NewParser(MakedictOptionSpecs, MakedictArgumentSpecs)}`,
makedict's own parser.
Actions:

* `Main` (the argc check, `getCommandType`, `getCommandExecutor`).
* `RunFixed`: info, diff and help return 0. The table's fallback returns 1.
* `RunHeader`: `header_executor.cpp` is not in this tree, so its exit code
  is left open, as either 0 or 1 (the only values main's other paths return).
* `MakedictParse`: one `parseArguments` iteration.
* `MakedictReturn`.

`MIN_ARG_COUNT` (defined outside this tree) is 2. `MaxArgs = 4` is the
smallest bound that lets a makedict argv carry an option with its value as
well as both positionals, so the accepted case of the exit-code contract is
reached along with the short, unknown and incomplete ones.

Run `main_exit` (pass, 63,897 states, `MaxArgs = 4`) checks two properties:

* `TypeOK`.
* `ExitCodeContract`: the exit code is 1 exactly on a short argv, an unknown
  command, or a makedict argv without two positionals and complete, known
  options.
`Spec` keeps weak fairness of `Next` (one thread takes every step it can),
but main's termination is not checked here: its only loop is
`parseArguments`, whose return `parser_core` already checks through
`ParseRefinesAbstract`. `CHECK_DEADLOCK FALSE` is set because the program
stops once main has returned.

## 4. Not modelled

* The header's contents: the attribute map is opaque to the trie. The
  model keeps it as one value, with no structure.
* `printUsage`, `usage`, `printCommandUnknownMessage` and every message text: output formatting that no property is
  about.
* `CodePointArrayView` and `WordProperty`: these live outside this tree.
  `Skip`/`Limit` and the payload record are modelled from the spec.
* The binary dictionary formats: not implemented in this tree.
* The decoder's acceptance of surrogates (ED A0 80): the code treats them as
  ordinary code points, and no document says otherwise.
* `HeaderExecutor::run`: its source is not in this tree.
* What remains unmapped in the tree is declarations (headers, constant
  tables already folded into the operators), the usage and message
  printers, and one-line field accessors. None of it changes state that a
  property could be about, so modelling it would only transliterate it.
