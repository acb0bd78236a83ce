--------------------------- MODULE ArgumentsParse ---------------------------
(***************************************************************************)
(* What ArgumentsParser::parseArguments promises, in one step and without  *)
(* its loop: for a spec list it supports, the result is a function of the  *)
(* whole argv.  The options are read first: every "-name" must be a known  *)
(* option, followed by its value if it takes one, and the last occurrence *)
(* overrides the default.  The other elements, in order, are cut into     *)
(* consecutive runs, one per argument spec, every spec but the last        *)
(* taking exactly its count.  For a spec list outside that shape nothing  *)
(* is promised but that the parse returns.                                 *)
(***************************************************************************)
EXTENDS Integers, Sequences, SequencesExt

CONSTANT NoResult

VARIABLES optionSpecs, argumentSpecs, args, result

vars == <<optionSpecs, argumentSpecs, args, result>>

\* The spec lists the promise is about: every spec but the last takes a
\* fixed number (at least one) of arguments, the last one between minCount
\* and maxCount >= 1, and no name repeats.
Supported(specs) ==
    /\ \A k \in 1..Len(specs) - 1 :
          specs[k].minCount = specs[k].maxCount /\ specs[k].maxCount >= 1
    /\ specs # <<>> =>
          LET last == specs[Len(specs)]
          IN 1 <= last.maxCount /\ last.minCount <= last.maxCount
    /\ \A j, k \in 1..Len(specs) : j < k => specs[j].name # specs[k].name

\* An argv element that names an option: a dash and at least one character.
Named(a) == a.dash /\ a.text # ""

\* The value options with a non-empty default start with it.
Defaults(specs) ==
    [n \in {m \in DOMAIN specs : specs[m].needsValue /\ specs[m].defaultValue # ""}
        |-> [dash |-> FALSE, text |-> specs[n].defaultValue]]

\* The options of s and its positional elements; ok is FALSE on an unknown
\* option or a value option without its value.
RECURSIVE RefScan(_, _, _)
RefScan(s, opts, pos) ==
    IF s = <<>> THEN [ok |-> TRUE, options |-> opts, positionals |-> pos]
    ELSE IF ~Named(Head(s)) THEN RefScan(Tail(s), opts, Append(pos, Head(s)))
    ELSE LET n == Head(s).text IN
         IF n \notin DOMAIN optionSpecs THEN [ok |-> FALSE]
         ELSE IF ~optionSpecs[n].needsValue
              THEN RefScan(Tail(s), (n :> [dash |-> FALSE, text |-> ""]) @@ opts, pos)
         ELSE IF Len(s) < 2 THEN [ok |-> FALSE]
         ELSE RefScan(Tail(Tail(s)), (n :> s[2]) @@ opts, pos)

\* How many positional elements the specs before spec k take.
TakenBefore(specs, k) ==
    FoldLeft(LAMBDA acc, sp : acc + sp.maxCount, 0, SubSeq(specs, 1, k - 1))

RefAccepts(specs, pos) ==
    IF specs = <<>> THEN pos = <<>>
    ELSE LET last == specs[Len(specs)]
             rest == Len(pos) - TakenBefore(specs, Len(specs))
         IN last.minCount <= rest /\ rest <= last.maxCount

\* Each spec's run of positional elements; a spec with an empty run has no
\* entry.
RefArguments(specs, pos) ==
    LET run(k) == SubSeq(pos, TakenBefore(specs, k) + 1,
                         IF k = Len(specs) THEN Len(pos) ELSE TakenBefore(specs, k + 1))
        filled == {k \in 1..Len(specs) : run(k) # <<>>}
    IN [nm \in {specs[k].name : k \in filled} |->
            run(CHOOSE k \in filled : specs[k].name = nm)]

\* The promised result for the current specs and argv.
Answer ==
    LET ref == RefScan(args, Defaults(optionSpecs), <<>>) IN
    IF ref.ok /\ RefAccepts(argumentSpecs, ref.positionals)
    THEN [isValid |-> TRUE, options |-> ref.options,
          arguments |-> RefArguments(argumentSpecs, ref.positionals)]
    ELSE [isValid |-> FALSE, options |-> <<>>, arguments |-> <<>>]

Init == result = NoResult

Parse ==
    /\ result = NoResult
    /\ IF Supported(argumentSpecs) THEN result' = Answer ELSE result' # NoResult
    /\ UNCHANGED <<optionSpecs, argumentSpecs, args>>

\* A call returns.  Parse is enabled exactly while result = NoResult and
\* nothing else changes result, so this is WF_vars(Parse), stated in a form
\* that does not ask TLC to enumerate the results Parse may produce.
Returns == <>(result # NoResult)

Spec == Init /\ [][Parse]_vars /\ Returns
=============================================================================
