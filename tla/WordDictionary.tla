--------------------------- MODULE WordDictionary ---------------------------
(***************************************************************************)
(* What OffdeviceIntermediateDict promises its callers, without the trie: *)
(* a finite map from code point sequences to WordProperty.  addWord       *)
(* stores a word of valid length that is not yet stored and returns TRUE; *)
(* any other call returns FALSE and leaves the map as it was.  The header *)
(* given at construction is returned unchanged by every later getHeader.  *)
(***************************************************************************)
EXTENDS Integers, Sequences, TLC

CONSTANTS Words, Unigram, MAX_WORD_LENGTH, AttributeMaps, NoResult

VARIABLES
    dict,    \* word -> WordProperty of every stored word
    result,  \* what the last addWord returned (NoResult before the first)
    header   \* the header's attribute map

WordProperty == [codePoints : Words, unigram : Unigram]

Init ==
    /\ dict = <<>>
    /\ result = NoResult
    /\ header \in AttributeMaps

Add(wp) ==
    LET w == wp.codePoints IN
    IF w # <<>> /\ Len(w) <= MAX_WORD_LENGTH /\ w \notin DOMAIN dict
    THEN /\ dict' = dict @@ (w :> wp)
         /\ result' = TRUE
    ELSE /\ result' = FALSE
         /\ UNCHANGED dict

Next == \E wp \in WordProperty : Add(wp) /\ UNCHANGED header

Spec == Init /\ [][Next]_<<dict, result, header>>
=============================================================================
