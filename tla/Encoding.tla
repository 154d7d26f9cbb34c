------------------------------ MODULE Encoding ------------------------------
(***************************************************************************)
(* The conversions that a path goes through on its way into a link of a    *)
(* page and back out of a request: namespaces Encoding and FileSystem of   *)
(* Utilities.cpp.  A text is the sequence of its bytes.                    *)
(*                                                                         *)
(* The loops change their string in place.  A loop is a function of the    *)
(* record of its variables.                                                *)
(***************************************************************************)
EXTENDS Integers, SequencesExt

Byte == 0 .. 255

\* The characters that the code names.
Space == 32
Percent == 37
Plus == 43
Dot == 46
Slash == 47
Colon == 58
Backslash == 92

Digits == 48 .. 57
Capitals == 65 .. 90
SmallLetters == 97 .. 122

-----------------------------------------------------------------------------
(* URLs *)

\* char is signed: a byte from 128 on is less than any digit.
HexCharToNumber(c) ==
    IF c \in 58 .. 90 THEN c - 65 + 10
    ELSE IF c \in 91 .. 127 THEN c - 97 + 10
    ELSE c - 48

HexDigitToHexChar(digit) == IF digit < 10 THEN digit + 48 ELSE digit + 65 - 10

\* Besides these, the marks - _ . ! * ' ( ).
Unreserved == Digits \cup Capitals \cup SmallLetters \cup {45, 95, 46, 33, 42, 39, 40, 41}

\* Mutant: the plus sign is left as it is.
NeedsUrlEncodingButPlus(c) == c \notin Unreserved \cup {Plus}

NeedsUrlEncoding(c) == c \notin Unreserved

\* What is written was read before.
DecodeState ==
    {s \in [url : Seq(Byte), i : Nat, decodedLength : Nat] : s.decodedLength < s.i}

\* One byte is written for n that were read.
Put(s, byte, n) ==
    [url |-> [s.url EXCEPT ![s.decodedLength + 1] = byte],
     i |-> s.i + n, decodedLength |-> s.decodedLength + 1]

\* The loop of DecodeUrlInline, which ends at a percent sign with fewer than two
\* characters after it.
DecodeLoop[s \in DecodeState] ==
    IF s.i > Len(s.url) THEN s
    ELSE IF s.url[s.i] = Plus THEN DecodeLoop[Put(s, Space, 1)]
    ELSE IF s.url[s.i] # Percent THEN DecodeLoop[Put(s, s.url[s.i], 1)]
    ELSE IF Len(s.url) - s.i < 2 THEN s
    ELSE DecodeLoop[Put(s, (HexCharToNumber(s.url[s.i + 1]) * 16
                              + HexCharToNumber(s.url[s.i + 2])) % 256, 3)]

DecodeUrl(url) ==
    LET end == DecodeLoop[[url |-> url, i |-> 1, decodedLength |-> 0]]
    IN  SubSeq(end.url, 1, end.decodedLength)

EncodeState ==
    {s \in [url : Seq(Byte), index : Nat, encodedIndex : Int] : s.index <= Len(s.url)}

\* The loop of EncodeUrlInline, which goes from the end of the string to its front,
\* reading at s.index and writing up to s.encodedIndex.
EncodeLoop[s \in EncodeState] ==
    LET c == s.url[s.index]
    IN  IF s.index = 0 THEN s.url
        ELSE IF NeedsUrlEncoding(c)
        THEN EncodeLoop[[url |-> [s.url EXCEPT ![s.encodedIndex] = HexDigitToHexChar(c % 16),
                                               ![s.encodedIndex - 1] = HexDigitToHexChar(c \div 16),
                                               ![s.encodedIndex - 2] = Percent],
                         index |-> s.index - 1, encodedIndex |-> s.encodedIndex - 3]]
        ELSE EncodeLoop[[url |-> [s.url EXCEPT ![s.encodedIndex] = c],
                         index |-> s.index - 1, encodedIndex |-> s.encodedIndex - 1]]

EncodeUrl(url) ==
    LET encodedLength == Len(url) + 2 * Quantify(DOMAIN url, LAMBDA i : NeedsUrlEncoding(url[i]))
    IN  EncodeLoop[[url |-> [i \in 1 .. encodedLength |-> IF i <= Len(url) THEN url[i] ELSE 0],
                    index |-> Len(url), encodedIndex |-> encodedLength]]

-----------------------------------------------------------------------------
(* Paths *)

IsSeparator(c) == c \in {Backslash, Slash}

\* The path up to the last separator that is not its last character; a path of one
\* character stays as it is.
RemoveLastPathComponent(path) ==
    IF Len(path) < 2 THEN path
    ELSE SubSeq(path, 1, SelectLastInSubSeq(path, 1, Len(path) - 1, IsSeparator))

\* The name of an entry of folder left is right.
CombinePaths(left, right) ==
    IF right = <<Dot>> THEN left
    ELSE IF right = <<Dot, Dot>> THEN RemoveLastPathComponent(left)
    ELSE IF IsSeparator(Last(left)) THEN left \o right
    ELSE left \o <<Backslash>> \o right

=============================================================================
