---------------------- MODULE OffdeviceIntermediateDict ----------------------
(***************************************************************************)
(* The on-memory patricia trie of dicttoolkit (OffdeviceIntermediateDict,  *)
(* its PtNode and PtNodeArray).  A PtNodeArray is a sequence of PtNodes; a *)
(* PtNode is a record of its code points (the label), its WordProperty or  *)
(* NoWordProperty, and its children PtNodeArray.  Nodes are immutable in   *)
(* the code except for their children array, and every "update" builds a  *)
(* new node that replaces the old one in its parent list, so the trie is   *)
(* modelled as a value.  addWord is one action, its recursion included;    *)
(* getWordProperty is an operator, since it changes no state.  Each call *)
(* also records which stored words lost their WordProperty object: the    *)
(* terminal nodes it erased from a list (freed), whose pointers, returned *)
(* by an earlier getWordProperty, now dangle.  The header is the attribute *)
(* map the dictionary was constructed with, which nothing changes.         *)
(***************************************************************************)
EXTENDS Integers, Sequences, SequencesExt, FiniteSets

CONSTANTS
    CodePoint,        \* the code points words are made of (integers)
    Unigram,          \* the unigram metadata a WordProperty carries
    Words,            \* the code point sequences callers pass to addWord
    MAX_WORD_LENGTH,  \* dict_toolkit_defines.h
    MaxCalls,         \* bound on the number of addWord calls of a run
    AttributeMaps,    \* the header AttributeMaps a dictionary may be built with
    NoWordProperty,   \* a null WordProperty pointer
    NoResult          \* lastResult before the first addWord call

ASSUME CodePoint \subseteq Int /\ MAX_WORD_LENGTH \in Nat /\ MaxCalls \in Nat
ASSUME Words \subseteq Seq(CodePoint)

VARIABLES
    header,      \* mHeader: OffdeviceIntermediateDictHeader's mAttributeMap
    root,        \* mRootPtNodeArray
    lastResult,  \* what the last addWord returned (NoResult before the first)
    crashed,     \* the process died on a null dereference inside addWord
    calls,       \* number of addWord calls so far
    added,       \* history: the WordProperty of every word addWord accepted
    freed        \* the words whose WordProperty object the last call deleted

vars == <<header, root, lastResult, crashed, calls, added, freed>>

WordProperty == [codePoints : Words, unigram : Unigram]

-----------------------------------------------------------------------------
(* The four PtNode constructors of offdevice_intermediate_dict_pt_node.h.  *)

NonTerminalPtNode(cps) ==
    [codePoints |-> cps, wordProperty |-> NoWordProperty, children |-> <<>>]

TerminalPtNode(cps, wp) ==
    [codePoints |-> cps, wordProperty |-> wp, children |-> <<>>]

\* "Replacing PtNodeCodePoints" copies *ptNode.mWortProperty: it reads a
\* null pointer when ptNode is non-terminal (a crash, FALSE here).
ReplacingCodePointsOk(ptNode) == ptNode.wordProperty # NoWordProperty

\* Mutant: the constructor forgets to copy mChildrenPtNodeArray.
ReplacingCodePointsLosesChildren(cps, ptNode) ==
    [ptNode EXCEPT !.codePoints = cps, !.children = <<>>]

ReplacingCodePoints(cps, ptNode) == [ptNode EXCEPT !.codePoints = cps]

ReplacingWordProperty(wp, ptNode) == [ptNode EXCEPT !.wordProperty = wp]

\* CodePointArrayView::skip and ::limit.
Skip(cps, n) == SubSeq(cps, n + 1, Len(cps))
\* Mutant: limit(i - 1), one code point short.
LimitOneShort(cps, n) == SubSeq(cps, 1, n - 1)
Limit(cps, n) == SubSeq(cps, 1, n)

-----------------------------------------------------------------------------
(***************************************************************************)
(* addWordInner.  ScanFrom is the common-prefix loop (for i from 1): i is  *)
(* a 0-based index as in the code, descend means the node's code points   *)
(* ran out first, and the code recursed into its children.                 *)
(***************************************************************************)
RECURSIVE ScanFrom(_, _, _)
ScanFrom(cps, label, i) ==
    IF i >= Len(cps) THEN [i |-> i, descend |-> FALSE]
    ELSE IF i >= Len(label) THEN [i |-> i, descend |-> TRUE]
    ELSE IF cps[i + 1] # label[i + 1] THEN [i |-> i, descend |-> FALSE]
    ELSE ScanFrom(cps, label, i + 1)

\* Mutant: the sibling loop also skips the node with an equal first code
\* point ("<=" for "<").
StopPositionSkipsEqual(cps, arr) ==
    LET stops == {k \in 1..Len(arr) : ~(cps[1] <= arr[k].codePoints[1])}
    IN IF stops = {} THEN Len(arr) + 1
       ELSE CHOOSE k \in stops : \A m \in stops : k <= m

\* The position the sibling loop stops at: the first node whose first code
\* point is not greater than the word's (siblings greater are skipped by
\* "continue"), or the end of the list.
StopPosition(cps, arr) ==
    LET stops == {k \in 1..Len(arr) : ~(cps[1] < arr[k].codePoints[1])}
    IN IF stops = {} THEN Len(arr) + 1
       ELSE CHOOSE k \in stops : \A m \in stops : k <= m

\* Mutant: the split always builds a non-terminal parent.
SplitParentNeverTerminal(cps, wp, i) == NonTerminalPtNode(Limit(cps, i))

\* The new parent node of a split at i: terminal when the word ends there.
SplitParent(cps, wp, i) ==
    IF Len(cps) = i THEN TerminalPtNode(cps, wp)
    ELSE NonTerminalPtNode(Limit(cps, i))

\* Mutant: the duplicate check is dropped.
IsDuplicateNever(ptNode) == FALSE

\* An exact match on a node that already has a WordProperty.
IsDuplicate(ptNode) == ptNode.wordProperty # NoWordProperty

\* What addWordInner returns, whether it crashed, the new contents of its
\* array, and the paths (relative to the array) of the nodes with a
\* WordProperty it erased.
Outcome(result, arr, erased) ==
    [result |-> result, crashed |-> FALSE, arr |-> arr, freed |-> erased]
Crash(arr) == [result |-> FALSE, crashed |-> TRUE, arr |-> arr, freed |-> {}]

\* ptNodeList->erase(ptNodeIt) deletes the node and its WordProperty.
Erased(ptNode) ==
    IF ptNode.wordProperty = NoWordProperty THEN {} ELSE {ptNode.codePoints}

RECURSIVE AddWordInner(_, _, _)
AddWordInner(cps, wp, arr) ==
    LET k == StopPosition(cps, arr)
        ptNode == arr[k]
        scan == ScanFrom(cps, ptNode.codePoints, 1)
        i == scan.i
        parent == SplitParent(cps, wp, i)
        moved == ReplacingCodePoints(Skip(ptNode.codePoints, i), ptNode)
    IN
    IF k > Len(arr) \/ cps[1] > ptNode.codePoints[1]
    THEN Outcome(TRUE, InsertAt(arr, k, TerminalPtNode(cps, wp)), {})
    ELSE IF scan.descend
    THEN LET r == AddWordInner(Skip(cps, i), wp, ptNode.children)
         IN [r EXCEPT !.arr = ReplaceAt(arr, k, [ptNode EXCEPT !.children = r.arr]),
                      !.freed = {ptNode.codePoints \o p : p \in r.freed}]
    ELSE IF Len(cps) = i /\ Len(cps) = Len(ptNode.codePoints)
    THEN IF IsDuplicate(ptNode)
         THEN Outcome(FALSE, arr, {})
         ELSE Outcome(TRUE, ReplaceAt(arr, k, ReplacingWordProperty(wp, ptNode)),
                      Erased(ptNode))
    ELSE IF ~ReplacingCodePointsOk(ptNode)
    THEN Crash(arr)
    ELSE IF Len(cps) # i
    THEN LET r == AddWordInner(Skip(cps, i), wp, <<moved>>)
         IN [r EXCEPT !.arr = ReplaceAt(arr, k, [parent EXCEPT !.children = r.arr]),
                      !.freed = Erased(ptNode)]
    ELSE Outcome(TRUE, ReplaceAt(arr, k, [parent EXCEPT !.children = <<moved>>]),
                 Erased(ptNode))

ValidLength(cps) == cps # <<>> /\ Len(cps) <= MAX_WORD_LENGTH

-----------------------------------------------------------------------------
(***************************************************************************)
(* getWordProperty.  The code checks the label against the length of the  *)
(* whole query, not of what is left of it, and then reads                  *)
(* codePoints[i + j] for every j of the label: past the end of the query  *)
(* when the label is longer than the rest.  The value read is undefined;  *)
(* whatever it is, the lookup ends with nullptr (a mismatch returns it,   *)
(* a match makes i exceed the query size and the outer loop exit), so the *)
(* result is NoWordProperty and outOfBounds records the read.              *)
(***************************************************************************)
\* Mutant: the label loop stops one code point early.
LabelMatchesButLast(q, i, label) ==
    \A j \in 2..Len(label) - 1 : i + j <= Len(q) => q[i + j] = label[j]

\* The label compares equal with the query at every position j > 1 that
\* lies inside the query.
LabelMatchesInRange(q, i, label) ==
    \A j \in 2..Len(label) : i + j <= Len(q) => q[i + j] = label[j]

\* The lookup's result: the node's WordProperty, where the node's label
\* starts in the query, and whether the lookup read out of range.
NotFound(oob) == [wordProperty |-> NoWordProperty, start |-> 0, outOfBounds |-> oob]

RECURSIVE LookupFrom(_, _, _)
LookupFrom(q, i, arr) ==
    LET k == StopPosition(Skip(q, i), arr)
        ptNode == arr[k]
        label == ptNode.codePoints
        next == i + Len(label)
    IN
    IF i >= Len(q) \/ k > Len(arr) THEN NotFound(FALSE)
    ELSE IF q[i + 1] > label[1] \/ Len(q) < Len(label) THEN NotFound(FALSE)
    ELSE IF ~LabelMatchesInRange(q, i, label) THEN NotFound(FALSE)
    ELSE IF next > Len(q) THEN NotFound(TRUE)
    ELSE IF next = Len(q)
    THEN [wordProperty |-> ptNode.wordProperty, start |-> i, outOfBounds |-> FALSE]
    ELSE LookupFrom(q, next, ptNode.children)

GetWordProperty(q) == LookupFrom(q, 0, root)

\* OffdeviceIntermediateDict::getHeader: the attribute map it was built with.
GetHeader == header

-----------------------------------------------------------------------------
\* OffdeviceIntermediateDict(header): the header's attribute map is copied
\* (OffdeviceIntermediateDictHeader(attributesMap)), the root array is empty.
Init ==
    /\ header \in AttributeMaps
    /\ root = <<>>
    /\ lastResult = NoResult
    /\ crashed = FALSE
    /\ calls = 0
    /\ added = <<>>
    /\ freed = {}

\* OffdeviceIntermediateDict::addWord, with the whole of addWordInner.
AddWord(wp) ==
    LET cps == wp.codePoints
        r == AddWordInner(cps, wp, root)
    IN
    /\ ~crashed
    /\ calls < MaxCalls
    /\ UNCHANGED header
    /\ calls' = calls + 1
    /\ IF ~ValidLength(cps)
       THEN /\ lastResult' = FALSE
            /\ freed' = {}
            /\ UNCHANGED <<root, crashed, added>>
       ELSE /\ crashed' = r.crashed
            /\ freed' = r.freed
            /\ IF r.crashed
               THEN UNCHANGED <<root, lastResult, added>>
               ELSE /\ root' = r.arr
                    /\ lastResult' = r.result
                    /\ added' = IF r.result THEN added @@ (cps :> wp) ELSE added

Next == \E wp \in WordProperty : AddWord(wp)

Spec == Init /\ [][Next]_vars

-----------------------------------------------------------------------------
(* Views of the trie used by the properties.                               *)

RECURSIVE PtNodeArrays(_)
\* every PtNodeArray of the trie rooted at arr
PtNodeArrays(arr) ==
    {arr} \cup UNION {PtNodeArrays(arr[k].children) : k \in 1..Len(arr)}

PtNodes == UNION {ToSet(a) : a \in PtNodeArrays(root)}

RECURSIVE StoredIn(_, _)
\* the pairs <<path, WordProperty>> of the terminal nodes under arr
StoredIn(prefix, arr) ==
    UNION {LET n == arr[k] IN
             LET path == prefix \o n.codePoints IN
               (IF n.wordProperty # NoWordProperty
                THEN {<<path, n.wordProperty>>} ELSE {})
               \cup StoredIn(path, n.children)
           : k \in 1..Len(arr)}

\* The trie read as a map from the path of each terminal node to its payload.
Contents ==
    LET pairs == StoredIn(<<>>, root)
    IN [w \in {p[1] : p \in pairs} |->
          (CHOOSE p \in pairs : p[1] = w)[2]]

-----------------------------------------------------------------------------
(* Properties.                                                             *)

\* Every node has a non-empty label of code points and a WordProperty or
\* none; the bookkeeping variables keep their ranges.
TypeOK ==
    /\ header \in AttributeMaps
    /\ lastResult \in BOOLEAN \cup {NoResult}
    /\ crashed \in BOOLEAN
    /\ calls \in 0..MaxCalls
    /\ DOMAIN added \subseteq Words
    /\ freed \subseteq Words
    /\ \A w \in DOMAIN added : added[w] \in WordProperty
    /\ \A n \in PtNodes :
          /\ n.codePoints \in Seq(CodePoint) \ {<<>>}
          /\ n.wordProperty \in WordProperty \cup {NoWordProperty}

\* The sibling scan of addWordInner skips nodes whose first code point is
\* greater and inserts before the first smaller one: every PtNodeArray is
\* strictly descending by first code point, so no two siblings share one.
SiblingsDescending ==
    \A a \in PtNodeArrays(root) :
        \A k \in 1..Len(a) - 1 : a[k].codePoints[1] > a[k + 1].codePoints[1]

\* The spec (section 3) says every PtNodeArray is sorted ascending.
SiblingsAscending ==
    \A a \in PtNodeArrays(root) :
        \A k \in 1..Len(a) - 1 : a[k].codePoints[1] < a[k + 1].codePoints[1]

\* Patricia compression kept by the split of addWordInner: a node without
\* a WordProperty exists only as the common prefix of two or more words.
NonTerminalsBranch ==
    \A n \in PtNodes : n.wordProperty = NoWordProperty => Len(n.children) >= 2

\* getWordProperty finds, for every query, exactly the WordProperty of the
\* accepted addWord call for that word, and nothing for any other query,
\* whatever splits and replacements the later calls made.
LookupAgreesWithHistory ==
    \A q \in Words :
        GetWordProperty(q).wordProperty =
            IF q \in DOMAIN added THEN added[q] ELSE NoWordProperty

\* The new word x branches off, or ends, inside the label of the node of
\* the stored word q, so addWordInner splits that node.
SplitsNodeOf(x, q) ==
    LET common == Len(LongestCommonPrefix({x, q}))
    IN GetWordProperty(q).start < common /\ common < Len(q)

\* A pointer getWordProperty returned for a stored word dangles after an
\* addWord call only if that call added a word splitting the word's node.
\* Rejected and crashing calls, inserts, descents, and splits of other
\* nodes (whose children lists are copied as shared pointers) delete no
\* WordProperty.  The header only says any modification may invalidate it.
WordPropertyPointersStable ==
    [][\A q \in DOMAIN added :
          q \in freed' => \E x \in DOMAIN added' \ DOMAIN added : SplitsNodeOf(x, q)]_vars

\* getWordProperty never reads a code point past the end of its query.
LookupInBounds == \A q \in Words : ~GetWordProperty(q).outOfBounds

\* addWord on a word of valid length never dies.
AddWordNeverCrashes == ~crashed

\* Refinement: the trie, read as a map from terminal paths to payloads,
\* together with addWord's result, implements WordDictionary.
Abstract == INSTANCE WordDictionary
                WITH dict <- Contents, result <- lastResult, header <- GetHeader
AbstractSpec == Abstract!Spec
=============================================================================
