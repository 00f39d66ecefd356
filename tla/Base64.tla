------------------------------- MODULE Base64 --------------------------------
(***************************************************************************)
(* is_valid_base64 (src/src/ssh/trusted_ca.rs), the check of a key blob,   *)
(* against the grammar of RFC 4648: for strings put together from a few    *)
(* pieces with TLC, for every string at all in TrustedCaProofs.            *)
(***************************************************************************)
EXTENDS Integers, Sequences

CONSTANTS
    Alphabet,   \* the bytes is_base64_char accepts: letters, digits, + and /
    Pad,        \* =
    Others,     \* every other byte
    Pieces,     \* what strings are put together from: the bytes, and longer ones
    MaxPieces   \* bound on the pieces of a string

Bytes == Alphabet \cup {Pad} \cup Others

ASSUME ByteAssumption == Pad \notin Alphabet
ASSUME PieceAssumption == Pieces \subseteq Seq(Bytes) /\ MaxPieces \in Nat

VARIABLES
    s,     \* the string
    left   \* how many pieces may still follow

Init == s = <<>> /\ left = MaxPieces
Next == /\ left > 0 /\ left' = left - 1
        /\ \E p \in Pieces : s' = s \o p
Spec == Init /\ [][Next]_<<s, left>>

is_base64_char(b) == b \in Alphabet

Back(str, p) == str[Len(str) - p]   \* counted from the end

\* The length of the trailing run of Pad: rev().take_while().count().
padding(str) ==
    CHOOSE p \in 0..Len(str) : /\ p < Len(str) => Back(str, p) # Pad
                               /\ \A q \in 0..(p-1) : Back(str, q) = Pad

\* mutated form: one byte of padding too many
MaxPadding3 == 3
MaxPadding == 2

is_valid_base64(str) ==
    /\ str # <<>> /\ Len(str) % 4 = 0
    /\ padding(str) <= MaxPadding
    /\ LET body_len == Len(str) - padding(str)
       IN  /\ \A i \in 1..Len(str) :
                IF i > body_len THEN str[i] = Pad ELSE is_base64_char(str[i])
           /\ body_len > 0

\* Whole groups of four, all of the alphabet but for the last one, which may
\* end in one or two pads.
WellFormed(str) ==
    \E n \in 1..Len(str) :
        /\ Len(str) = 4 * n
        /\ \A i \in 1..(4 * n - 2) : str[i] \in Alphabet
        /\ \/ str[4 * n - 1] \in Alphabet /\ str[4 * n] \in Alphabet \cup {Pad}
           \/ str[4 * n - 1] = Pad /\ str[4 * n] = Pad

\* is_valid_base64 accepts exactly what RFC 4648 calls a base64 encoding of at
\* least one byte: padding only at the very end, never three bytes of it, never
\* a blob of nothing but padding.
AcceptsExactlyBase64 == is_valid_base64(s) <=> WellFormed(s)
=============================================================================
