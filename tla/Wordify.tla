------------------------------ MODULE Wordify ------------------------------
(***************************************************************************)
(* The encoding of discovery properties as environment variables           *)
(* (wordify and unwordify of                                               *)
(* internal/confmapprovider/discovery/properties/property.go).  A text is  *)
(* a sequence of code points.                                              *)
(***************************************************************************)
EXTENDS Naturals, Sequences, SequencesExt

Underscore == 95
LetterX == 120

IsDigit(c) == c \in 48..57
IsHexDigit(c) == IsDigit(c) \/ c \in 97..102 \/ c \in 65..70

\* hex.Encode of a number below 16.
HexDigit(d) == IF d < 10 THEN 48 + d ELSE 87 + d
HexValue(c) == CASE IsDigit(c) -> c - 48 [] c \in 97..102 -> c - 87 [] OTHER -> c - 55

\* The digits of a code point without leading zeros, but an even number.
Hex(c) ==
    LET digit(i) == (c \div 16^(8 - i)) % 16
        first == CHOOSE i \in 1..8 : digit(i) # 0 /\ \A j \in 1..(i - 1) : digit(j) = 0
        start == IF first % 2 = 0 THEN first - 1 ELSE first
    IN [i \in 1..(9 - start) |-> HexDigit(digit(start - 1 + i))]

\* Mutant: the underscore is left as it is.
EscapedWord(c) == ~ (c = Underscore \/ IsDigit(c) \/ c \in 65..90 \/ c \in 97..122)

\* The condition as Go groups it: "_" lies between "Z" and "a".
Escaped(c) ==
    \/ c # Underscore /\ c < 48
    \/ c > 57 /\ c < 65
    \/ c > 90 /\ c < 97
    \/ c > 122

WordifyRune(c) ==
    IF Escaped(c) THEN <<Underscore, LetterX>> \o Hex(c) \o <<Underscore>> ELSE <<c>>

WordifyText(text) == FlattenSeq([i \in 1..Len(text) |-> WordifyRune(text[i])])

\* The length of the match of _x[0-9a-fA-F]+_ at p, or 0.
MatchAt(text, p) ==
    LET ends == {e \in (p + 3)..Len(text) :
                    text[e] = Underscore /\ \A j \in (p + 2)..(e - 1) : IsHexDigit(text[j])}
    IN IF text[p] = Underscore /\ p < Len(text) /\ text[p + 1] = LetterX /\ ends # {}
       THEN (CHOOSE e \in ends : TRUE) - p + 1
       ELSE 0

Number(digits) == FoldLeft(LAMBDA n, c : 16 * n + HexValue(c), 0, digits)

\* An odd number of digits is an error of hex.DecodeString.
BadHex == <<0>>

RECURSIVE UnwordifyFrom(_, _)
UnwordifyFrom(text, p) ==
    IF p > Len(text) THEN <<>>
    ELSE LET m == MatchAt(text, p)
         IN CASE m = 0 -> <<text[p]>> \o UnwordifyFrom(text, p + 1)
              [] m > 0 /\ m % 2 = 0 -> BadHex
              [] OTHER -> <<Number(SubSeq(text, p + 2, p + m - 2))>>
                              \o UnwordifyFrom(text, p + m)

UnwordifyText(text) == UnwordifyFrom(text, 1)
=============================================================================
