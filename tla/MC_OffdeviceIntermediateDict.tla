-------------------- MODULE MC_OffdeviceIntermediateDict --------------------
(***************************************************************************)
(* Model of the trie for TLC: three code points, words of up to three of  *)
(* them (MAX_WORD_LENGTH = 3) plus the empty word and one word that is    *)
(* too long, two unigram values so that a rejected duplicate is told      *)
(* apart from an overwrite, and three addWord calls per behaviour.        *)
(***************************************************************************)
EXTENDS OffdeviceIntermediateDict, TLC

CONSTANTS u1, u2

MCCodePoint == {1, 2, 3}
MCMaxWordLength == 3
MCWords == SeqOf(MCCodePoint, MCMaxWordLength) \cup {<<1, 1, 1, 1>>}
MCUnigram == {u1, u2}
\* One header attribute map: <<1>> -> <<2>>, as a reader of a header would build.
MCAttributeMaps == { <<1>> :> <<2>> }
MCSymmetry == Permutations(MCUnigram)
=============================================================================
