---------------------------- MODULE MC_Utf8Utils ----------------------------
(***************************************************************************)
(* Model of the codec for TLC.  Raw inputs are all strings of up to four  *)
(* bytes over twelve boundary bytes: ASCII, the last ASCII byte, the first *)
(* and last continuation bytes, overlong and minimal two-byte leads, the  *)
(* three- and four-byte leads that start the lowest, the surrogate and    *)
(* the highest ranges, the highest four-byte lead and an invalid lead.     *)
(* Encoded inputs are one or two code points from the boundaries of each  *)
(* sequence size, plus one value on each side out of range.               *)
(***************************************************************************)
EXTENDS Utf8Utils

MCBytes == {\h41, \h7F, \h80, \hBF, \hC1, \hC2, \hE0, \hED, \hF0, \hF4, \hF7, \hF8}
MCCodePoints == {-1, 0, \h7F, \h80, \h7FF, \h800, \hFFFF, \h10000, \hFFFFF,
                 \h100000, \h10FFFF, \h110000}
MCSources == {<<c>> : c \in MCCodePoints} \cup {<<c, d>> : c, d \in MCCodePoints}
=============================================================================
