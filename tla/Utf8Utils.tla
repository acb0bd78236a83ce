------------------------------ MODULE Utf8Utils ------------------------------
(***************************************************************************)
(* dicttoolkit's UTF-8 codec (utils/utf8_utils.cpp).  getUtf8String, the  *)
(* encoder, is an operator.  getCodePoints, the decoder, is a state        *)
(* machine with one action per iteration of its loop over the bytes of   *)
(* the input: a lead byte or a trailing byte, and the return at the end.  *)
(* The input is either a byte string drawn from a set of boundary bytes,   *)
(* or the encoding of a sequence of code points (then source remembers    *)
(* them).  Bytes are their unsigned values: every use of a char in the    *)
(* loop converts it to uint8_t first.                                     *)
(***************************************************************************)
EXTENDS Integers, Sequences, SequencesExt, Bitwise

CONSTANTS
    Bytes,         \* the byte values raw inputs are made of (0..255)
    MaxBytes,      \* bound on the length of a raw input
    Sources,       \* code point sequences whose encodings are decoded
    NoSource,      \* source of a raw input
    NoResult       \* result before getCodePoints returns

ASSUME Bytes \subseteq 0..255 /\ MaxBytes \in Nat /\ Sources \subseteq Seq(Int)

VARIABLES
    source,         \* the code points that were encoded, or NoSource
    input,          \* utf8Str
    pos,            \* index of the byte the loop reads next
    remaining,      \* remainingByteCountForCurrentCodePoint
    seqSize,        \* currentCodePointSequenceSize
    codePoint,      \* codePoint
    codePoints,     \* the vector being built
    result          \* what getCodePoints returned, or NoResult

vars == <<source, input, pos, remaining, seqSize, codePoint, codePoints, result>>

-----------------------------------------------------------------------------
(* The constant tables, indexed by sequence size 0..4.                     *)

MAX_SEQUENCE_SIZE_FOR_A_CODE_POINT == 4
FIRST_BYTE_MARKER_MASKS == <<0, \h80, \hE0, \hF0, \hF8>>
FIRST_BYTE_MARKERS == <<0, \h00, \hC0, \hE0, \hF0>>
\* Mutant: the four-byte mask keeps the three payload bits of 11110xxx.
FirstByteBitsMasksThreeBits == <<0, \h7F, \h1F, \h0F, \h07>>
FIRST_BYTE_CODE_POINT_BITS_MASKS == <<0, \h7F, \h1F, \h0F, \h03>>
MAX_ENCODED_CODE_POINT_VALUES == <<-1, \h7F, \h7FF, \hFFFF, \h10FFFF>>
TRAILING_BYTE_CODE_POINT_BITS_MASK == \h3F
TRAILING_BYTE_MARKER == \h80
CODE_POINT_BIT_COUNT_IN_TRAILING_BYTE == 6

\* table[size] for a table whose C index starts at 0
At(table, size) == table[size + 1]

-----------------------------------------------------------------------------
(* Encoder.                                                                *)

\* Mutant: the range test uses < instead of <=.
SequenceSizeOffByOne(cp) ==
    IF cp < 0 THEN -1
    ELSE LET fits == {i \in 1..4 : cp < At(MAX_ENCODED_CODE_POINT_VALUES, i)}
         IN IF fits = {} THEN -1 ELSE CHOOSE i \in fits : \A j \in fits : i <= j

GetSequenceSizeToEncodeCodePoint(cp) ==
    IF cp < 0 THEN -1
    ELSE LET fits == {i \in 1..MAX_SEQUENCE_SIZE_FOR_A_CODE_POINT :
                        cp <= At(MAX_ENCODED_CODE_POINT_VALUES, i)}
         IN IF fits = {} THEN -1 ELSE CHOOSE i \in fits : \A j \in fits : i <= j

\* The bytes getUtf8String appends for one code point of sequenceSize n.
EncodeCodePoint(cp, n) ==
    LET trailing == n - 1 IN
    <<shiftR(cp, trailing * CODE_POINT_BIT_COUNT_IN_TRAILING_BYTE)
        | At(FIRST_BYTE_MARKERS, n)>>
    \o [i \in 1..trailing |->
          (shiftR(cp, (trailing - i) * CODE_POINT_BIT_COUNT_IN_TRAILING_BYTE)
             & TRAILING_BYTE_CODE_POINT_BITS_MASK) | TRAILING_BYTE_MARKER]

\* getUtf8String: the whole string is empty as soon as one code point
\* cannot be encoded.
RECURSIVE EncodeFrom(_, _)
EncodeFrom(cps, acc) ==
    IF cps = <<>> THEN acc
    ELSE LET n == GetSequenceSizeToEncodeCodePoint(Head(cps)) IN
         IF n <= 0 THEN <<>>
         ELSE EncodeFrom(Tail(cps), acc \o EncodeCodePoint(Head(cps), n))

GetUtf8String(cps) == EncodeFrom(cps, <<>>)

-----------------------------------------------------------------------------
(* Decoder helpers.                                                        *)

GetSequenceSizeByCheckingFirstByte(b) ==
    LET sizes == {i \in 1..MAX_SEQUENCE_SIZE_FOR_A_CODE_POINT :
                    (b & At(FIRST_BYTE_MARKER_MASKS, i)) = At(FIRST_BYTE_MARKERS, i)}
    IN IF sizes = {} THEN -1 ELSE CHOOSE i \in sizes : \A j \in sizes : i <= j

MaskFirstByte(b, n) == b & At(FIRST_BYTE_CODE_POINT_BITS_MASKS, n)

MaskTrailingByte(b) == b & TRAILING_BYTE_CODE_POINT_BITS_MASK

-----------------------------------------------------------------------------
Init ==
    /\ \/ /\ source \in Sources
          /\ input = GetUtf8String(source)
       \/ /\ source = NoSource
          /\ input \in SeqOf(Bytes, MaxBytes)
    /\ pos = 1
    /\ remaining = 0
    /\ seqSize = 0
    /\ codePoint = 0
    /\ codePoints = <<>>
    /\ result = NoResult

\* The tail of every iteration: decrement, and when the sequence is
\* complete, reject a redundant encoding or append the code point.
EndIteration(cp, n, rem) ==
    /\ pos' = pos + 1
    /\ codePoint' = cp
    /\ seqSize' = n
    /\ remaining' = rem
    /\ IF rem = 0 /\ cp <= At(MAX_ENCODED_CODE_POINT_VALUES, n - 1)
       THEN result' = <<>> /\ UNCHANGED codePoints
       ELSE IF rem = 0
       THEN codePoints' = Append(codePoints, cp) /\ UNCHANGED result
       ELSE UNCHANGED <<codePoints, result>>

\* Mutant: the first byte does not count itself.
LeadByteNoDecrement ==
    /\ result = NoResult /\ pos <= Len(input) /\ remaining = 0
    /\ LET n == GetSequenceSizeByCheckingFirstByte(input[pos]) IN
       IF n <= 0
       THEN result' = <<>> /\ UNCHANGED <<pos, remaining, seqSize, codePoint, codePoints>>
       ELSE EndIteration(MaskFirstByte(input[pos], n), n, n)
    /\ UNCHANGED <<source, input>>

\* An iteration that starts a new code point; an invalid first byte
\* returns the empty vector.
LeadByte ==
    /\ result = NoResult /\ pos <= Len(input) /\ remaining = 0
    /\ LET n == GetSequenceSizeByCheckingFirstByte(input[pos]) IN
       IF n <= 0
       THEN result' = <<>> /\ UNCHANGED <<pos, remaining, seqSize, codePoint, codePoints>>
       ELSE EndIteration(MaskFirstByte(input[pos], n), n, n - 1)
    /\ UNCHANGED <<source, input>>

\* An iteration inside a code point: any byte is taken as a trailing byte.
TrailingByte ==
    /\ result = NoResult /\ pos <= Len(input) /\ remaining > 0
    /\ EndIteration(codePoint * 2^CODE_POINT_BIT_COUNT_IN_TRAILING_BYTE
                        + MaskTrailingByte(input[pos]),
                    seqSize, remaining - 1)
    /\ UNCHANGED <<source, input>>

\* The loop ran out of bytes: return what was built, even in the middle of
\* a code point.
Return ==
    /\ result = NoResult /\ pos > Len(input)
    /\ result' = codePoints
    /\ UNCHANGED <<source, input, pos, remaining, seqSize, codePoint, codePoints>>

Next == LeadByte \/ TrailingByte \/ Return

Spec == Init /\ [][Next]_vars

-----------------------------------------------------------------------------
(* Properties.                                                             *)

TypeOK ==
    /\ input \in Seq(0..255)
    /\ pos \in 1..Len(input) + 1
    /\ remaining \in 0..MAX_SEQUENCE_SIZE_FOR_A_CODE_POINT - 1
    /\ seqSize \in 0..MAX_SEQUENCE_SIZE_FOR_A_CODE_POINT
    /\ codePoints \in Seq(Int)
    /\ result = NoResult \/ result \in Seq(Int)

\* The UTF-8 encoding the encoder is compared with, written with
\* arithmetic on the ranges of RFC 3629 instead of masks and shifts.
ReferenceEncoding(cp) ==
    CASE cp < 0 \/ cp > \h10FFFF -> <<>>
      [] cp < \h80 -> <<cp>>
      [] cp < \h800 -> <<\hC0 + cp \div 64, \h80 + (cp % 64)>>
      [] cp < \h10000 -> <<\hE0 + cp \div 4096, \h80 + ((cp \div 64) % 64),
                           \h80 + (cp % 64)>>
      [] OTHER -> <<\hF0 + cp \div 262144, \h80 + ((cp \div 4096) % 64),
                    \h80 + ((cp \div 64) % 64), \h80 + (cp % 64)>>

\* getUtf8String produced the standard encoding of the source code points,
\* or the empty string when one of them cannot be encoded.
EncoderMatchesReference ==
    source # NoSource =>
        input = IF \E i \in 1..Len(source) : ReferenceEncoding(source[i]) = <<>>
                THEN <<>>
                ELSE FoldLeft(LAMBDA acc, cp : acc \o ReferenceEncoding(cp), <<>>, source)

\* getCodePoints never yields a value outside the code point range
\* 0..0x10FFFF, whatever bytes it is given.
DecodedInRange ==
    \A i \in 1..Len(codePoints) : 0 <= codePoints[i] /\ codePoints[i] <= \h10FFFF

\* Decoding the encoding of code points (0..0x10FFFF) gives them back.
DecodeInvertsEncode ==
    /\ result # NoResult
    /\ source # NoSource
    /\ \A i \in 1..Len(source) : 0 <= source[i] /\ source[i] <= \h10FFFF
    => result = source

\* getCodePoints accepts only well-formed UTF-8: a non-empty result is
\* exactly what the input encodes.
AcceptsOnlyWellFormed ==
    result \notin {NoResult, <<>>} => GetUtf8String(result) = input
=============================================================================
