------------------------------ MODULE TrustedCa ------------------------------
(***************************************************************************)
(* TrustedCaKeys (src/src/ssh/trusted_ca.rs): the parser that decides what *)
(* may be written to the file sshd trusts, and its canonical rendering.    *)
(* A file is a string s of module Base64.  Its other characters are of any *)
(* kind: white space and control characters may or may not be the same.    *)
(***************************************************************************)
EXTENDS Base64, SequencesExt

CONSTANTS
    ALLOWED_ALGORITHMS,
    Whitespace,   \* the characters char::is_whitespace holds of
    Control       \* the characters char::is_control holds of

SP == " "
CR == "\r"
LF == "\n"
Hash == "#"
is_whitespace(c) == c \in Whitespace
is_control(c) == c \in Control

\* The characters of a name that is one field and a line of its own.
Printing == Bytes \ (Whitespace \cup Control)

ASSUME WordAssumption ==
    /\ {SP, CR, LF, Hash} \cup Whitespace \cup Control \subseteq Others
    /\ Others \cap (Alphabet \cup {Pad}) = {}
    /\ {SP, CR, LF} \subseteq Whitespace /\ Hash \notin Whitespace \cup Control
    /\ {CR, LF} \subseteq Control /\ SP \notin Control
    /\ \A a \in ALLOWED_ALGORITHMS : a \in Seq(Printing) /\ a # <<>> /\ a[1] # Hash

-----------------------------------------------------------------------------
(* Strings *)

Inked(str) == {i \in 1..Len(str) : ~is_whitespace(str[i])}
trim_start(str) == IF Inked(str) = {} THEN <<>> ELSE SubSeq(str, Min(Inked(str)), Len(str))
trim(str) == IF Inked(str) = {} THEN <<>> ELSE SubSeq(str, Min(Inked(str)), Max(Inked(str)))

\* The first white-space-delimited field of a string that starts with one, and
\* what follows it.
FieldLen(str) == Min({i \in 1..Len(str) : is_whitespace(str[i])} \cup {Len(str) + 1}) - 1
Field(str) == SubSeq(str, 1, FieldLen(str))
Rest(str) == SubSeq(str, FieldLen(str) + 1, Len(str))

\* str::lines: a line ends before a "\n", with a "\r" before that one taken off,
\* or at the end of the text.
LineEnds(str) ==
    {i \in 1..Len(str) : str[i] = LF}
        \cup (IF str # <<>> /\ Last(str) # LF THEN {Len(str) + 1} ELSE {})
LineAt(str, e) ==
    LET line == SubSeq(str, Max({0} \cup {d \in LineEnds(str) : d < e}) + 1, e - 1)
    IN  IF e <= Len(str) /\ line # <<>> /\ Last(line) = CR THEN Front(line) ELSE line

-----------------------------------------------------------------------------
(* CaPublicKey *)

Ok(v) == [ok |-> TRUE, value |-> v]
Err(e) == [ok |-> FALSE, value |-> e]

\* mutated form: the remainder is taken as it stands
RawRemainder(str) == str
\* Everything after the first two fields; <<>> is None.
collect_comment(str) == trim(str)

\* mutated form: only what is left after trimming is looked at
InnerControl(line) == \E i \in 1..Len(trim(line)) : is_control(trim(line)[i])
HasControl(line) == \E i \in 1..Len(line) : is_control(line[i])

CaPublicKey_parse(line) ==
    LET trimmed == trim(line)
        after_algo == trim_start(Rest(trimmed))
        key == [algorithm |-> Field(trimmed), key_data |-> Field(after_algo),
                comment |-> collect_comment(Rest(after_algo))]
    IN  IF HasControl(line) THEN Err("IllegalCharacter")
        ELSE IF trimmed = <<>> THEN Err("Empty")
        ELSE IF after_algo = <<>> THEN Err("Malformed")
        ELSE IF key.algorithm \notin ALLOWED_ALGORITHMS THEN Err("DisallowedAlgorithm")
        ELSE IF ~is_valid_base64(key.key_data) THEN Err("InvalidEncoding")
        ELSE Ok(key)

CaPublicKey_render(key) ==
    key.algorithm \o <<SP>> \o key.key_data
        \o (IF key.comment = <<>> THEN <<>> ELSE <<SP>> \o key.comment)

-----------------------------------------------------------------------------
(* TrustedCaKeys *)

\* Blank lines and comments are passed over.
IsEntry(line) == trim(line) # <<>> /\ Head(trim(line)) # Hash
\* The entries of a file, by the place where their line ends.
Entries(str) == {e \in LineEnds(str) : IsEntry(LineAt(str, e))}

\* mutated form: an invalid entry is passed over when another follows it
LastBad(str) ==
    {e \in Entries(str) : ~CaPublicKey_parse(LineAt(str, e)).ok /\ \A d \in Entries(str) : d <= e}
Bad(str) == {e \in Entries(str) : ~CaPublicKey_parse(LineAt(str, e)).ok}

\* The kth of a set of numbers in their order.
Nth(S, k) == CHOOSE e \in S : Cardinality({d \in S : d <= e}) = k

\* The keys in file order, or the error of the first invalid entry.
TrustedCaKeys_parse(str) ==
    IF Bad(str) # {} THEN CaPublicKey_parse(LineAt(str, Min(Bad(str))))
    ELSE Ok([k \in 1..Cardinality(Entries(str)) |->
                CaPublicKey_parse(LineAt(str, Nth(Entries(str), k))).value])

TrustedCaKeys_render(keys) ==
    FlattenSeq([k \in 1..Len(keys) |-> CaPublicKey_render(keys[k]) \o <<LF>>])

-----------------------------------------------------------------------------
(* Properties *)

\* What is a key line, without saying how to find its fields: no control
\* character, an algorithm, white space, a blob, and nothing or white space
\* and anything after it.
KeyLine(line) ==
    /\ \A i \in 1..Len(line) : ~is_control(line[i])
    /\ \E a \in 1..Len(line) : \E b \in a..Len(line) :
        /\ SubSeq(line, a, b) \in ALLOWED_ALGORITHMS
        /\ \E c \in (b + 2)..Len(line) : \E d \in c..Len(line) :
            /\ \A i \in (1..(a - 1)) \cup ((b + 1)..(c - 1)) : is_whitespace(line[i])
            /\ d < Len(line) => is_whitespace(line[d + 1])
            /\ WellFormed(SubSeq(line, c, d))

\* The parser accepts exactly the files all of whose lines are blank, a comment
\* or a key line, wherever white space, carriage returns and hash signs stand
\* (TrustedCaKeys::parse, the gate in front of the write).
AcceptsExactlyKeyLines ==
    TrustedCaKeys_parse(s).ok <=>
        \A e \in LineEnds(s) : IsEntry(LineAt(s, e)) => KeyLine(LineAt(s, e))

\* What was parsed and rendered parses again, to the same keys
\* (render_round_trips_through_parse, for every file).
RenderRoundTrips ==
    TrustedCaKeys_parse(s).ok =>
        LET keys == TrustedCaKeys_parse(s).value
        IN  TrustedCaKeys_parse(TrustedCaKeys_render(keys)) = Ok(keys)

\* A file with an invalid entry stays rejected, for the same reason, whatever
\* follows that line: no later entry makes up for an earlier one.
RejectionIsFinal ==
    \A n \in {i \in 1..Len(s) : s[i] = LF} :
        LET earlier == TrustedCaKeys_parse(SubSeq(s, 1, n))
        IN  ~earlier.ok => TrustedCaKeys_parse(s) = earlier
=============================================================================
