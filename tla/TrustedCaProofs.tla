--------------------------- MODULE TrustedCaProofs ---------------------------
(***************************************************************************)
(* The parser of trusted CA keys accepts exactly the key files, whatever   *)
(* their length, their lines and their bytes, and reads back what it has   *)
(* rendered; and is_valid_base64 accepts exactly RFC 4648's grammar.       *)
(***************************************************************************)
(* No theorem here goes by induction over strings: where one is wanted,    *)
(* there is a least counterexample (Least) and a smaller one.              *)
(***************************************************************************)
EXTENDS TrustedCa, FiniteSetTheorems, SequenceTheorems, WellFoundedInduction, TLAPS

-----------------------------------------------------------------------------
(* Least and greatest numbers *)

\* Some natural numbers have a least one.
LEMMA Least ==
    ASSUME NEW S \in SUBSET Nat, S # {}
    PROVE  \E m \in S : \A k \in S : m <= k
<1> DEFINE R == {p \in Nat \X Nat : p[1] < p[2]}
<1>1. IsWellFoundedOn(R, Nat)
  BY NatLessThanWellFounded DEF OpToRel
<1> HIDE DEF R
<1>2. PICK m \in S : \A k \in S : <<k, m>> \notin R
  BY <1>1, WFMin
<1>3. \A k \in S : ~(k < m)
  BY <1>2 DEF R
<1> QED
  BY <1>3

\* Some natural numbers with a bound have a greatest one.
LEMMA Greatest ==
    ASSUME NEW S \in SUBSET Nat, S # {}, NEW n \in Nat, \A k \in S : k <= n
    PROVE  \E m \in S : \A k \in S : k <= m
<1> DEFINE T == {n - k : k \in S}
<1>1. T \in SUBSET Nat /\ T # {}
  <2>1. \A k \in S : n - k \in Nat
    OBVIOUS
  <2> QED
    BY <2>1
<1>2. PICK t \in T : \A k \in T : t <= k
  BY <1>1, Least
<1>3. PICK m \in S : t = n - m
  OBVIOUS
<1>4. \A k \in S : k <= m
  <2> TAKE k \in S
  <2>1. t <= n - k
    BY <1>2
  <2> QED
    BY <1>3, <2>1
<1> QED
  BY <1>4

\* Min is the least one.
LEMMA MinIs ==
    ASSUME NEW S \in SUBSET Nat, NEW m \in S, \A k \in S : m <= k
    PROVE  Min(S) = m
<1> DEFINE x == Min(S)
<1>1. x \in S /\ \A k \in S : x <= k
  BY DEF Min
<1>2. x \in Nat /\ m \in Nat /\ x <= m /\ m <= x
  BY <1>1
<1> HIDE DEF x
<1>3. x = m
  BY <1>2
<1> QED
  BY <1>3 DEF x

\* Max is the greatest one.
LEMMA MaxIs ==
    ASSUME NEW S \in SUBSET Nat, NEW m \in S, \A k \in S : k <= m
    PROVE  Max(S) = m
<1> DEFINE x == Max(S)
<1>1. x \in S /\ \A k \in S : k <= x
  BY DEF Max
<1>2. x \in Nat /\ m \in Nat /\ x <= m /\ m <= x
  BY <1>1
<1> HIDE DEF x
<1>3. x = m
  BY <1>2
<1> QED
  BY <1>3 DEF x

-----------------------------------------------------------------------------
(* The check of a blob *)

\* The trailing run of pads that take_while counts always has a length, and
\* only one.
LEMMA PaddingCounts ==
    ASSUME NEW str \in Seq(Bytes)
    PROVE  /\ padding(str) \in 0..Len(str)
           /\ padding(str) < Len(str) => Back(str, padding(str)) # Pad
           /\ \A q \in 0..(padding(str) - 1) : Back(str, q) = Pad
<1> DEFINE S == {p \in 0..Len(str) : p < Len(str) => Back(str, p) # Pad}
<1>1. S \subseteq Nat /\ S # {}
  <2>1. Len(str) \in S
    OBVIOUS
  <2> QED
    BY <2>1
<1>2. PICK m \in S : \A k \in S : m <= k
  BY <1>1, Least
<1>3. \A q \in 0..(m - 1) : Back(str, q) = Pad
  BY <1>2
<1> QED
  BY <1>2, <1>3 DEF padding

\* A blob of whole groups ends in no pad, one, two, or more than the check
\* allows.
LEMMA PaddingCases ==
    ASSUME NEW str \in Seq(Bytes), Len(str) >= 4
    PROVE  /\ Back(str, 0) # Pad => padding(str) = 0
           /\ Back(str, 0) = Pad /\ Back(str, 1) # Pad => padding(str) = 1
           /\ Back(str, 0) = Pad /\ Back(str, 1) = Pad /\ Back(str, 2) # Pad => padding(str) = 2
           /\ Back(str, 0) = Pad /\ Back(str, 1) = Pad /\ Back(str, 2) = Pad => padding(str) > 2
<1> DEFINE p == padding(str)
<1>1. /\ p \in 0..Len(str)
      /\ p < Len(str) => Back(str, p) # Pad
      /\ \A q \in 0..(p - 1) : Back(str, q) = Pad
  BY PaddingCounts
<1> HIDE DEF p
<1>2. /\ 0 < p => Back(str, 0) = Pad
      /\ 1 < p => Back(str, 1) = Pad
      /\ 2 < p => Back(str, 2) = Pad
  BY <1>1
<1> QED
  BY <1>1, <1>2 DEF p

\* The check of a key blob accepts exactly the well-formed ones.
THEOREM ValidIsWellFormed ==
    ASSUME NEW str \in Seq(Bytes)
    PROVE  is_valid_base64(str) <=> WellFormed(str)
<1>1. ASSUME is_valid_base64(str) PROVE WellFormed(str)
  <2>1. PICK n \in 1..Len(str) : Len(str) = 4 * n
    BY <1>1 DEF is_valid_base64
  <2> DEFINE p == padding(str)
  <2>2. p \in 0..2 /\ \A i \in 1..Len(str) :
            IF i > Len(str) - p THEN str[i] = Pad ELSE str[i] \in Alphabet
    BY <1>1, PaddingCounts DEF is_valid_base64, MaxPadding, is_base64_char
  <2> HIDE DEF p
  <2>3. \A i \in 1..(4 * n - 2) : str[i] \in Alphabet
    BY <2>1, <2>2
  <2>4. \/ str[4 * n - 1] \in Alphabet /\ str[4 * n] \in Alphabet \cup {Pad}
        \/ str[4 * n - 1] = Pad /\ str[4 * n] = Pad
    BY <2>1, <2>2
  <2> QED
    BY <2>1, <2>3, <2>4 DEF WellFormed
<1>2. ASSUME WellFormed(str) PROVE is_valid_base64(str)
  <2>1. PICK n \in 1..Len(str) :
            /\ Len(str) = 4 * n
            /\ \A i \in 1..(4 * n - 2) : str[i] \in Alphabet
            /\ \/ str[4 * n - 1] \in Alphabet /\ str[4 * n] \in Alphabet \cup {Pad}
               \/ str[4 * n - 1] = Pad /\ str[4 * n] = Pad
    BY <1>2 DEF WellFormed
  <2>2. str[4 * n - 2] # Pad
    BY <2>1, ByteAssumption
  <2>3. /\ Len(str) >= 4 /\ Len(str) % 4 = 0 /\ str # <<>>
        /\ Back(str, 0) = str[4 * n] /\ Back(str, 1) = str[4 * n - 1]
        /\ Back(str, 2) = str[4 * n - 2]
    BY <2>1 DEF Back
  <2>4. padding(str) \in 0..2 /\ \A i \in 1..Len(str) :
            IF i > Len(str) - padding(str) THEN str[i] = Pad ELSE str[i] \in Alphabet
    <3>1. CASE str[4 * n] # Pad
      <4>1. padding(str) = 0
        BY <3>1, <2>3, PaddingCases
      <4> QED
        BY <4>1, <3>1, <2>1
    <3>2. CASE str[4 * n] = Pad /\ str[4 * n - 1] # Pad
      <4>1. padding(str) = 1
        BY <3>2, <2>3, PaddingCases
      <4> QED
        BY <4>1, <3>2, <2>1
    <3>3. CASE str[4 * n] = Pad /\ str[4 * n - 1] = Pad
      <4>1. padding(str) = 2
        BY <3>3, <2>2, <2>3, PaddingCases
      <4> QED
        BY <4>1, <3>3, <2>1
    <3> QED
      BY <3>1, <3>2, <3>3
  <2> QED
    BY <2>3, <2>4 DEF is_valid_base64, MaxPadding, is_base64_char
<1> QED
  BY <1>1, <1>2

\* The file is always a string of bytes.
LEMMA StringInv == Spec => [](s \in Seq(Bytes))
<1>1. Init => s \in Seq(Bytes)
  BY DEF Init
<1>2. s \in Seq(Bytes) /\ [Next]_<<s, left>> => (s \in Seq(Bytes))'
  <2> SUFFICES ASSUME s \in Seq(Bytes), [Next]_<<s, left>> PROVE s' \in Seq(Bytes)
    OBVIOUS
  <2>1. CASE UNCHANGED <<s, left>>
    BY <2>1
  <2>2. CASE Next
    <3>1. PICK p \in Pieces : s' = s \o p
      BY <2>2 DEF Next
    <3>2. p \in Seq(Bytes)
      BY PieceAssumption
    <3> QED
      BY <3>1, <3>2
  <2> QED
    BY <2>1, <2>2
<1> QED
  BY <1>1, <1>2, PTL DEF Spec

\* Whatever blob the check is given, is_valid_base64 and the grammar agree.
THEOREM AlwaysExact == Spec => []AcceptsExactlyBase64
<1>1. s \in Seq(Bytes) => AcceptsExactlyBase64
  BY ValidIsWellFormed DEF AcceptsExactlyBase64
<1> QED
  BY <1>1, StringInv, PTL

-----------------------------------------------------------------------------
(* Trimming and fields *)

\* A part of a string.
LEMMA Part ==
    ASSUME NEW str \in Seq(Bytes), NEW a \in 1..(Len(str) + 1), NEW z \in (a - 1)..Len(str)
    PROVE  /\ SubSeq(str, a, z) \in Seq(Bytes)
           /\ Len(SubSeq(str, a, z)) = z - a + 1
           /\ \A i \in 1..(z - a + 1) : SubSeq(str, a, z)[i] = str[a + i - 1]
<1>1. \A i \in a..z : str[i] \in Bytes
  OBVIOUS
<1>2. a \in Int /\ z \in Int
  OBVIOUS
<1> QED
  BY <1>1, <1>2, SubSeqProperties

\* A part of a part.
LEMMA PartOfPart ==
    ASSUME NEW str \in Seq(Bytes), NEW a \in 1..(Len(str) + 1), NEW z \in (a - 1)..Len(str),
           NEW p \in 1..(z - a + 2), NEW q \in (p - 1)..(z - a + 1)
    PROVE  SubSeq(SubSeq(str, a, z), p, q) = SubSeq(str, a + p - 1, a + q - 1)
<1> DEFINE u == SubSeq(str, a, z)
           v == SubSeq(u, p, q)
           w == SubSeq(str, a + p - 1, a + q - 1)
<1>1. u \in Seq(Bytes) /\ Len(u) = z - a + 1 /\ \A i \in 1..(z - a + 1) : u[i] = str[a + i - 1]
  BY Part
<1> HIDE DEF u
<1>2. v \in Seq(Bytes) /\ Len(v) = q - p + 1 /\ \A i \in 1..(q - p + 1) : v[i] = u[p + i - 1]
  <2>1. p \in 1..(Len(u) + 1) /\ q \in (p - 1)..Len(u)
    BY <1>1
  <2> QED
    BY <1>1, <2>1, Part
<1>3. w \in Seq(Bytes) /\ Len(w) = q - p + 1 /\ \A i \in 1..(q - p + 1) : w[i] = str[a + p + i - 2]
  <2> DEFINE x == a + p - 1
             y == a + q - 1
  <2>1. x \in 1..(Len(str) + 1) /\ y \in (x - 1)..Len(str) /\ y - x = q - p
    OBVIOUS
  <2>2. \A i \in 1..(q - p + 1) : x + i - 1 = a + p + i - 2
    OBVIOUS
  <2> HIDE DEF x, y
  <2>3. SubSeq(str, x, y) \in Seq(Bytes) /\ Len(SubSeq(str, x, y)) = q - p + 1
        /\ \A i \in 1..(q - p + 1) : SubSeq(str, x, y)[i] = str[x + i - 1]
    BY <2>1, Part
  <2> QED
    BY <2>2, <2>3 DEF x, y
<1> HIDE DEF v, w
<1>4. \A i \in 1..(q - p + 1) : v[i] = w[i]
  <2> TAKE i \in 1..(q - p + 1)
  <2>1. p + i - 1 \in 1..(z - a + 1) /\ a + (p + i - 1) - 1 = a + p + i - 2
    OBVIOUS
  <2> QED
    BY <1>1, <1>2, <1>3, <2>1
<1>5. v = w
  BY <1>2, <1>3, <1>4, SeqEqual
<1> QED
  BY <1>5 DEF u, v, w

\* The next character that is no white space.
LEMMA NextInk ==
    ASSUME NEW str \in Seq(Bytes), NEW k \in 1..Len(str), NEW j \in k..Len(str),
           ~is_whitespace(str[j])
    PROVE  \E c \in k..Len(str) : /\ ~is_whitespace(str[c])
                                  /\ \A i \in k..(c - 1) : is_whitespace(str[i])
<1> DEFINE S == {i \in k..Len(str) : ~is_whitespace(str[i])}
<1>1. S \in SUBSET Nat /\ S # {}
  OBVIOUS
<1>2. PICK c \in S : \A i \in S : c <= i
  BY <1>1, Least
<1>3. \A i \in k..(c - 1) : is_whitespace(str[i])
  BY <1>2
<1> QED
  BY <1>3

\* Where the field that starts at a ends.
LEMMA FieldEnds ==
    ASSUME NEW str \in Seq(Bytes), NEW a \in 1..Len(str), ~is_whitespace(str[a])
    PROVE  \E b \in a..Len(str) : /\ \A i \in a..b : ~is_whitespace(str[i])
                                  /\ b < Len(str) => is_whitespace(str[b + 1])
<1> DEFINE S == {i \in a..(Len(str) + 1) : i = Len(str) + 1 \/ is_whitespace(str[i])}
<1>1. S \in SUBSET Nat /\ S # {}
  <2>1. Len(str) + 1 \in S
    OBVIOUS
  <2> QED
    BY <2>1
<1>2. PICK e \in S : \A i \in S : e <= i
  BY <1>1, Least
<1>3. e # a /\ e - 1 \in a..Len(str) /\ (e - 1 < Len(str) => is_whitespace(str[(e - 1) + 1]))
  BY <1>2
<1>4. \A i \in a..(e - 1) : ~is_whitespace(str[i])
  BY <1>2
<1> QED
  BY <1>3, <1>4

\* trim and trim_start begin at the first character that is no white space,
\* and trim ends at the last.
LEMMA TrimIs ==
    ASSUME NEW str \in Seq(Bytes), NEW a \in 1..Len(str), ~is_whitespace(str[a]),
           \A i \in 1..(a - 1) : is_whitespace(str[i])
    PROVE  /\ trim_start(str) = SubSeq(str, a, Len(str))
           /\ \E z \in a..Len(str) : /\ ~is_whitespace(str[z])
                                     /\ \A i \in (z + 1)..Len(str) : is_whitespace(str[i])
                                     /\ trim(str) = SubSeq(str, a, z)
<1>1. a \in Inked(str) /\ Inked(str) \in SUBSET Nat /\ \A i \in Inked(str) : a <= i /\ i <= Len(str)
  BY DEF Inked
<1>2. Min(Inked(str)) = a
  BY <1>1, MinIs
<1>3. PICK z \in Inked(str) : \A i \in Inked(str) : i <= z
  <2>1. Len(str) \in Nat /\ Inked(str) # {} /\ \A i \in Inked(str) : i <= Len(str)
    BY <1>1
  <2> HIDE DEF Inked
  <2> QED
    BY <1>1, <2>1, Greatest
<1>4. Max(Inked(str)) = z
  BY <1>1, <1>3, MaxIs
<1>5. z \in a..Len(str) /\ ~is_whitespace(str[z]) /\ \A i \in (z + 1)..Len(str) : is_whitespace(str[i])
  BY <1>1, <1>3 DEF Inked
<1> QED
  BY <1>1, <1>2, <1>4, <1>5 DEF trim_start, trim

\* The first field, and what is left of it.
LEMMA FieldIs ==
    ASSUME NEW str \in Seq(Bytes), NEW f \in 0..Len(str),
           \A i \in 1..f : ~is_whitespace(str[i]),
           f < Len(str) => is_whitespace(str[f + 1])
    PROVE  /\ Field(str) = SubSeq(str, 1, f)
           /\ Rest(str) = SubSeq(str, f + 1, Len(str))
<1> DEFINE S == {i \in 1..Len(str) : is_whitespace(str[i])} \cup {Len(str) + 1}
<1>1. S \in SUBSET Nat /\ f + 1 \in S /\ \A i \in S : f + 1 <= i
  OBVIOUS
<1>2. Min(S) = f + 1
  BY <1>1, MinIs
<1>3. FieldLen(str) = f
  BY <1>2 DEF FieldLen
<1> QED
  BY <1>3 DEF Field, Rest

-----------------------------------------------------------------------------
(* The fields of a line *)

\* The first field of a line is at a..b.
First(line, a, b) ==
    /\ a \in 1..Len(line) /\ b \in a..Len(line)
    /\ \A i \in 1..(a - 1) : is_whitespace(line[i])
    /\ \A i \in a..b : ~is_whitespace(line[i])
    /\ b < Len(line) => is_whitespace(line[b + 1])

\* ... and the second at c..d.
Split(line, a, b, c, d) ==
    /\ First(line, a, b)
    /\ c \in (b + 2)..Len(line) /\ d \in c..Len(line)
    /\ \A i \in (b + 1)..(c - 1) : is_whitespace(line[i])
    /\ \A i \in c..d : ~is_whitespace(line[i])
    /\ d < Len(line) => is_whitespace(line[d + 1])

\* Nothing but white space is behind z.
Ends(line, z) == ~is_whitespace(line[z]) /\ \A i \in (z + 1)..Len(line) : is_whitespace(line[i])

AfterAlgo(line) == trim_start(Rest(trim(line)))

\* The parser takes the algorithm up to the end of the first field, whatever
\* trim has cut off behind it.
LEMMA AlgorithmIs ==
    ASSUME NEW line \in Seq(Bytes), NEW a \in Nat, NEW b \in Nat, First(line, a, b)
    PROVE  /\ trim(line) # <<>>
           /\ Field(trim(line)) = SubSeq(line, a, b)
           /\ \E z \in b..Len(line) : Ends(line, z) /\ Rest(trim(line)) = SubSeq(line, b + 1, z)
<1> USE DEF First
<1>1. PICK z \in a..Len(line) : /\ ~is_whitespace(line[z])
                                /\ \A i \in (z + 1)..Len(line) : is_whitespace(line[i])
                                /\ trim(line) = SubSeq(line, a, z)
  <2>1. a \in 1..Len(line) /\ ~is_whitespace(line[a]) /\ \A i \in 1..(a - 1) : is_whitespace(line[i])
    OBVIOUS
  <2> QED
    BY <2>1, TrimIs
<1> DEFINE u == trim(line)
           f == b - a + 1
<1>2. u \in Seq(Bytes) /\ Len(u) = z - a + 1 /\ \A i \in 1..(z - a + 1) : u[i] = line[a + i - 1]
  BY <1>1, Part
<1>3. z >= b
  BY <1>1
<1> HIDE DEF u
<1>4. Field(u) = SubSeq(u, 1, f) /\ Rest(u) = SubSeq(u, f + 1, Len(u))
  <2>1. f \in 0..Len(u)
    BY <1>2, <1>3
  <2>2. \A i \in 1..f : ~is_whitespace(u[i])
    <3> TAKE i \in 1..f
    <3>1. a + i - 1 \in a..b /\ u[i] = line[a + i - 1]
      BY <1>2, <1>3
    <3> QED
      BY <3>1
  <2>3. f < Len(u) => is_whitespace(u[f + 1])
    <3> HAVE f < Len(u)
    <3>1. u[f + 1] = line[b + 1] /\ b < Len(line)
      <4>1. f + 1 \in 1..(z - a + 1) /\ a + (f + 1) - 1 = b + 1
        BY <1>2, <1>3
      <4> QED
        BY <1>2, <1>3, <4>1
    <3> QED
      BY <3>1
  <2> HIDE DEF f
  <2> QED
    BY <1>2, <2>1, <2>2, <2>3, FieldIs
<1>5. SubSeq(u, 1, f) = SubSeq(line, a, b) /\ SubSeq(u, f + 1, Len(u)) = SubSeq(line, b + 1, z)
  <2>1. /\ 1 \in 1..(z - a + 2) /\ f \in (1 - 1)..(z - a + 1)
        /\ a + 1 - 1 = a /\ a + f - 1 = b
        /\ f + 1 \in 1..(z - a + 2) /\ z - a + 1 \in ((f + 1) - 1)..(z - a + 1)
        /\ a + (f + 1) - 1 = b + 1 /\ a + (z - a + 1) - 1 = z
    BY <1>3
  <2>2. a \in 1..(Len(line) + 1) /\ z \in (a - 1)..Len(line)
    OBVIOUS
  <2> DEFINE g == f + 1
             h == z - a + 1
  <2>3. g \in 1..(z - a + 2) /\ h \in (g - 1)..(z - a + 1) /\ a + g - 1 = b + 1 /\ a + h - 1 = z
    BY <2>1
  <2> HIDE DEF f, g, h
  <2>4. SubSeq(SubSeq(line, a, z), 1, f) = SubSeq(line, a + 1 - 1, a + f - 1)
    BY <2>1, <2>2, PartOfPart
  <2>5. SubSeq(SubSeq(line, a, z), g, h) = SubSeq(line, a + g - 1, a + h - 1)
    BY <2>2, <2>3, PartOfPart
  <2> QED
    BY <1>1, <1>2, <2>1, <2>3, <2>4, <2>5 DEF g, h, u
<1>6. u # <<>> /\ z \in b..Len(line)
  BY <1>2, <1>3
<1>7. Field(u) = SubSeq(line, a, b) /\ Rest(u) = SubSeq(line, b + 1, z)
  BY <1>4, <1>5
<1> QED
  BY <1>1, <1>6, <1>7 DEF u, Ends

\* The fields the parser takes are the ones at a..b and c..d.
LEMMA FieldsAre ==
    ASSUME NEW line \in Seq(Bytes), NEW a \in Nat, NEW b \in Nat, NEW c \in Nat, NEW d \in Nat,
           Split(line, a, b, c, d)
    PROVE  /\ trim(line) # <<>> /\ Field(trim(line)) = SubSeq(line, a, b)
           /\ AfterAlgo(line) # <<>> /\ Field(AfterAlgo(line)) = SubSeq(line, c, d)
           /\ \E z \in d..Len(line) :
                Ends(line, z) /\ Rest(AfterAlgo(line)) = SubSeq(line, d + 1, z)
<1>0. /\ a \in 1..Len(line) /\ b \in a..Len(line) /\ c \in (b + 2)..Len(line) /\ d \in c..Len(line)
      /\ \A i \in (b + 1)..(c - 1) : is_whitespace(line[i])
      /\ \A i \in c..d : ~is_whitespace(line[i])
      /\ d < Len(line) => is_whitespace(line[d + 1])
      /\ Len(line) \in Nat
  BY DEF Split, First
<1>1. First(line, a, b)
  BY DEF Split
<1>2. PICK z \in b..Len(line) : Ends(line, z) /\ Rest(trim(line)) = SubSeq(line, b + 1, z)
  BY <1>1, AlgorithmIs
<1>3. z \in d..Len(line)
  BY <1>0, <1>2 DEF Ends
<1> DEFINE r == Rest(trim(line))
           p == c - b
<1>4. r \in Seq(Bytes) /\ Len(r) = z - b /\ \A i \in 1..(z - b) : r[i] = line[b + i]
  <2>1. b + 1 \in 1..(Len(line) + 1) /\ z \in ((b + 1) - 1)..Len(line)
    BY <1>0, <1>3
  <2>2. z - (b + 1) + 1 = z - b /\ \A i \in 1..(z - b) : (b + 1) + i - 1 = b + i
    BY <1>0, <1>3
  <2> DEFINE e == b + 1
  <2> HIDE DEF e
  <2>3. r \in Seq(Bytes) /\ Len(r) = z - e + 1 /\ \A i \in 1..(z - e + 1) : r[i] = line[e + i - 1]
    BY <1>2, <2>1, Part DEF e
  <2> QED
    BY <2>2, <2>3 DEF e
<1> HIDE DEF r
<1>5. trim_start(r) = SubSeq(r, p, Len(r))
  <2>1. p \in 1..Len(r) /\ r[p] = line[c] /\ ~is_whitespace(line[c])
    BY <1>0, <1>3, <1>4
  <2>2. \A i \in 1..(p - 1) : is_whitespace(r[i])
    <3> TAKE i \in 1..(p - 1)
    <3>1. b + i \in (b + 1)..(c - 1) /\ i \in 1..(z - b)
      BY <1>0, <1>3
    <3> QED
      BY <1>0, <1>4, <3>1
  <2> HIDE DEF p
  <2> QED
    BY <1>4, <2>1, <2>2, TrimIs
<1>6. SubSeq(r, p, Len(r)) = SubSeq(line, c, z)
  <2> DEFINE e == b + 1
             q == z - b
  <2>1. /\ e \in 1..(Len(line) + 1) /\ z \in (e - 1)..Len(line)
        /\ p \in 1..(z - e + 2) /\ q \in (p - 1)..(z - e + 1)
        /\ e + p - 1 = c /\ e + q - 1 = z
    BY <1>0, <1>3
  <2>2. r = SubSeq(line, e, z) /\ Len(r) = q
    BY <1>2, <1>4 DEF r
  <2> HIDE DEF e, q, p
  <2>3. SubSeq(SubSeq(line, e, z), p, q) = SubSeq(line, e + p - 1, e + q - 1)
    BY <2>1, PartOfPart
  <2> QED
    BY <2>1, <2>2, <2>3
<1> DEFINE w == AfterAlgo(line)
           f == d - c + 1
<1>7. w = SubSeq(line, c, z)
  BY <1>5, <1>6 DEF AfterAlgo, r
<1>8. w \in Seq(Bytes) /\ Len(w) = z - c + 1 /\ \A i \in 1..(z - c + 1) : w[i] = line[c + i - 1]
  <2>1. c \in 1..(Len(line) + 1) /\ z \in (c - 1)..Len(line)
    BY <1>0, <1>3
  <2> QED
    BY <1>7, <2>1, Part
<1> HIDE DEF w
<1>9. Field(w) = SubSeq(w, 1, f) /\ Rest(w) = SubSeq(w, f + 1, Len(w))
  <2>1. f \in 0..Len(w)
    BY <1>0, <1>3, <1>8
  <2>2. \A i \in 1..f : ~is_whitespace(w[i])
    <3> TAKE i \in 1..f
    <3>1. c + i - 1 \in c..d /\ i \in 1..(z - c + 1)
      BY <1>0, <1>3
    <3> QED
      BY <1>0, <1>8, <3>1
  <2>3. f < Len(w) => is_whitespace(w[f + 1])
    <3> HAVE f < Len(w)
    <3>1. f + 1 \in 1..(z - c + 1) /\ c + (f + 1) - 1 = d + 1 /\ d < Len(line)
      BY <1>0, <1>3, <1>8
    <3>2. w[f + 1] = line[d + 1]
      BY <1>8, <3>1
    <3>3. is_whitespace(line[d + 1])
      BY <1>0, <3>1
    <3> QED
      BY <3>2, <3>3
  <2> HIDE DEF f
  <2> QED
    BY <1>8, <2>1, <2>2, <2>3, FieldIs
<1>10. SubSeq(w, 1, f) = SubSeq(line, c, d) /\ SubSeq(w, f + 1, Len(w)) = SubSeq(line, d + 1, z)
  <2> DEFINE g == f + 1
             h == z - c + 1
             e == 1
  <2>1. /\ c \in 1..(Len(line) + 1) /\ z \in (c - 1)..Len(line)
        /\ e \in 1..(z - c + 2) /\ f \in (e - 1)..(z - c + 1)
        /\ c + e - 1 = c /\ c + f - 1 = d
        /\ g \in 1..(z - c + 2) /\ h \in (g - 1)..(z - c + 1)
        /\ c + g - 1 = d + 1 /\ c + h - 1 = z
    BY <1>0, <1>3
  <2> HIDE DEF f, g, h, e
  <2>2. SubSeq(SubSeq(line, c, z), e, f) = SubSeq(line, c + e - 1, c + f - 1)
    BY <2>1, PartOfPart
  <2>3. SubSeq(SubSeq(line, c, z), g, h) = SubSeq(line, c + g - 1, c + h - 1)
    BY <2>1, PartOfPart
  <2> QED
    BY <1>7, <1>8, <2>1, <2>2, <2>3 DEF e, g, h
<1>11. w # <<>>
  BY <1>0, <1>3, <1>8
<1>12. Field(w) = SubSeq(line, c, d) /\ Rest(w) = SubSeq(line, d + 1, z)
  BY <1>9, <1>10
<1>13. trim(line) # <<>> /\ Field(trim(line)) = SubSeq(line, a, b)
  BY <1>1, AlgorithmIs
<1>14. \E y \in d..Len(line) : Ends(line, y) /\ Rest(w) = SubSeq(line, d + 1, y)
  BY <1>2, <1>3, <1>12
<1> QED
  BY <1>11, <1>12, <1>13, <1>14 DEF w

\* A line on which the parser finds two fields has two.
LEMMA FieldsExist ==
    ASSUME NEW line \in Seq(Bytes), trim(line) # <<>>, AfterAlgo(line) # <<>>
    PROVE  \E a, b, c, d \in 1..Len(line) : Split(line, a, b, c, d)
<1>1. PICK a \in 1..Len(line) : /\ ~is_whitespace(line[a])
                                /\ \A i \in 1..(a - 1) : is_whitespace(line[i])
  <2>1. PICK j \in 1..Len(line) : ~is_whitespace(line[j])
    BY DEF trim, Inked
  <2>2. 1 \in 1..Len(line)
    BY <2>1
  <2> QED
    BY <2>1, <2>2, NextInk
<1>2. PICK b \in a..Len(line) : /\ \A i \in a..b : ~is_whitespace(line[i])
                                /\ b < Len(line) => is_whitespace(line[b + 1])
  BY <1>1, FieldEnds
<1>3. PICK z \in b..Len(line) : Rest(trim(line)) = SubSeq(line, b + 1, z)
  <2>1. First(line, a, b) /\ a \in Nat /\ b \in Nat
    BY <1>1, <1>2 DEF First
  <2> QED
    BY <2>1, AlgorithmIs
<1> DEFINE r == SubSeq(line, b + 1, z)
<1>4. Inked(r) # {}
  BY <1>3 DEF AfterAlgo, trim_start
<1>5. Len(r) = z - b /\ \A i \in 1..(z - b) : r[i] = line[b + i]
  <2> DEFINE e == b + 1
  <2>1. e \in 1..(Len(line) + 1) /\ z \in (e - 1)..Len(line)
    OBVIOUS
  <2>2. z - e + 1 = z - b /\ \A i \in 1..(z - b) : e + i - 1 = b + i
    OBVIOUS
  <2> HIDE DEF e
  <2>3. Len(SubSeq(line, e, z)) = z - e + 1 /\ \A i \in 1..(z - e + 1) : SubSeq(line, e, z)[i] = line[e + i - 1]
    BY <2>1, Part
  <2> QED
    BY <2>2, <2>3 DEF e
<1>6. PICK j \in 1..(z - b) : ~is_whitespace(line[b + j])
  BY <1>4, <1>5 DEF Inked
<1>7. PICK c \in (b + 1)..Len(line) : /\ ~is_whitespace(line[c])
                                      /\ \A i \in (b + 1)..(c - 1) : is_whitespace(line[i])
  <2> DEFINE e == b + 1
             k == b + j
  <2>1. e \in 1..Len(line) /\ k \in e..Len(line) /\ ~is_whitespace(line[k])
    BY <1>6
  <2> HIDE DEF e, k
  <2>2. \E c \in e..Len(line) : /\ ~is_whitespace(line[c])
                                /\ \A i \in e..(c - 1) : is_whitespace(line[i])
    BY <2>1, NextInk
  <2> QED
    BY <2>2 DEF e
<1>8. c \in (b + 2)..Len(line)
  BY <1>2, <1>7
<1>9. PICK d \in c..Len(line) : /\ \A i \in c..d : ~is_whitespace(line[i])
                                /\ d < Len(line) => is_whitespace(line[d + 1])
  <2>1. c \in 1..Len(line)
    BY <1>8
  <2> QED
    BY <1>7, <2>1, FieldEnds
<1>10. Split(line, a, b, c, d)
  BY <1>1, <1>2, <1>7, <1>8, <1>9 DEF Split, First
<1>11. a \in 1..Len(line) /\ b \in 1..Len(line) /\ c \in 1..Len(line) /\ d \in 1..Len(line)
  BY <1>8
<1> QED
  BY <1>10, <1>11

\* A part of a line without white space.
LEMMA InkOfPart ==
    ASSUME NEW line \in Seq(Bytes), NEW a \in 1..Len(line), NEW b \in a..Len(line),
           \A i \in 1..Len(SubSeq(line, a, b)) : ~is_whitespace(SubSeq(line, a, b)[i])
    PROVE  \A i \in a..b : ~is_whitespace(line[i])
<1>1. /\ Len(SubSeq(line, a, b)) = b - a + 1
      /\ \A i \in 1..(b - a + 1) : SubSeq(line, a, b)[i] = line[a + i - 1]
  <2>1. a \in 1..(Len(line) + 1) /\ b \in (a - 1)..Len(line)
    OBVIOUS
  <2> QED
    BY <2>1, Part
<1> TAKE i \in a..b
<1>2. i - a + 1 \in 1..(b - a + 1) /\ a + (i - a + 1) - 1 = i
  OBVIOUS
<1> QED
  BY <1>1, <1>2

\* Neither white space nor a control character is of the base64 alphabet.
LEMMA NoBlank == \A c \in Alphabet \cup {Pad} : ~is_whitespace(c) /\ ~is_control(c)
  BY WordAssumption, Zenon DEF is_whitespace, is_control

\* There is none in the name of an algorithm
LEMMA AlgorithmInk ==
    \A str \in ALLOWED_ALGORITHMS : \A i \in 1..Len(str) :
        ~is_whitespace(str[i]) /\ ~is_control(str[i])
<1>1. \A str \in ALLOWED_ALGORITHMS : str \in Seq(Printing)
  BY WordAssumption, Zenon
<1>2. \A str \in ALLOWED_ALGORITHMS : \A i \in 1..Len(str) : str[i] \in Printing
  BY <1>1
<1> QED
  BY <1>2, Zenon DEF Printing, is_whitespace, is_control

\* ... nor in a well-formed blob.
LEMMA BlobInk ==
    ASSUME NEW str \in Seq(Bytes), WellFormed(str)
    PROVE  \A i \in 1..Len(str) : ~is_whitespace(str[i]) /\ ~is_control(str[i])
<1>1. \A i \in 1..Len(str) : str[i] \in Alphabet \cup {Pad}
  BY DEF WellFormed
<1> QED
  BY <1>1, NoBlank

\* An entry is accepted exactly when it is a key line.
THEOREM EntryIsKeyLine ==
    ASSUME NEW line \in Seq(Bytes)
    PROVE  CaPublicKey_parse(line).ok <=> KeyLine(line)
<1> DEFINE Good == /\ ~HasControl(line) /\ trim(line) # <<>> /\ AfterAlgo(line) # <<>>
                   /\ Field(trim(line)) \in ALLOWED_ALGORITHMS
                   /\ is_valid_base64(Field(AfterAlgo(line)))
<1>1. CaPublicKey_parse(line).ok <=> Good
  BY DEF CaPublicKey_parse, AfterAlgo, Ok, Err
<1>2. ASSUME NEW a \in Nat, NEW b \in Nat, NEW c \in Nat, NEW d \in Nat, Split(line, a, b, c, d)
      PROVE  Good <=> /\ ~HasControl(line) /\ SubSeq(line, a, b) \in ALLOWED_ALGORITHMS
                      /\ WellFormed(SubSeq(line, c, d))
  <2>1. SubSeq(line, c, d) \in Seq(Bytes)
    <3>1. c \in 1..(Len(line) + 1) /\ d \in (c - 1)..Len(line)
      BY <1>2 DEF Split, First
    <3> QED
      BY <3>1, Part
  <2>2. is_valid_base64(SubSeq(line, c, d)) <=> WellFormed(SubSeq(line, c, d))
    BY <2>1, ValidIsWellFormed
  <2>3. /\ trim(line) # <<>> /\ Field(trim(line)) = SubSeq(line, a, b)
        /\ AfterAlgo(line) # <<>> /\ Field(AfterAlgo(line)) = SubSeq(line, c, d)
    BY <1>2, FieldsAre
  <2> QED
    BY <2>2, <2>3
<1>3. ASSUME Good PROVE KeyLine(line)
  <2>1. PICK a, b, c, d \in 1..Len(line) : Split(line, a, b, c, d)
    BY <1>3, FieldsExist
  <2>2. /\ ~HasControl(line) /\ SubSeq(line, a, b) \in ALLOWED_ALGORITHMS
        /\ WellFormed(SubSeq(line, c, d))
    BY <1>2, <1>3, <2>1
  <2>3. /\ a \in 1..Len(line) /\ b \in a..Len(line) /\ c \in (b + 2)..Len(line) /\ d \in c..Len(line)
        /\ \A i \in (1..(a - 1)) \cup ((b + 1)..(c - 1)) : is_whitespace(line[i])
        /\ d < Len(line) => is_whitespace(line[d + 1])
    BY <2>1 DEF Split, First
  <2> QED
    BY <2>2, <2>3 DEF KeyLine, HasControl
<1>4. ASSUME KeyLine(line) PROVE Good
  <2>1. PICK a \in 1..Len(line), b \in 1..Len(line), c \in 1..Len(line), d \in 1..Len(line) :
            /\ b \in a..Len(line) /\ c \in (b + 2)..Len(line) /\ d \in c..Len(line)
            /\ SubSeq(line, a, b) \in ALLOWED_ALGORITHMS
            /\ \A i \in (1..(a - 1)) \cup ((b + 1)..(c - 1)) : is_whitespace(line[i])
            /\ d < Len(line) => is_whitespace(line[d + 1])
            /\ WellFormed(SubSeq(line, c, d))
    BY <1>4 DEF KeyLine
  <2>2. ~HasControl(line)
    BY <1>4 DEF KeyLine, HasControl
  <2>3. \A i \in a..b : ~is_whitespace(line[i])
    BY <2>1, InkOfPart, AlgorithmInk
  <2>4. \A i \in c..d : ~is_whitespace(line[i])
    <3>1. c \in 1..(Len(line) + 1) /\ d \in (c - 1)..Len(line)
      BY <2>1
    <3>2. SubSeq(line, c, d) \in Seq(Bytes)
      BY <3>1, Part
    <3>3. \A i \in 1..Len(SubSeq(line, c, d)) : ~is_whitespace(SubSeq(line, c, d)[i])
      BY <2>1, <3>2, BlobInk
    <3> QED
      BY <2>1, <3>3, InkOfPart
  <2>5. Split(line, a, b, c, d)
    BY <2>1, <2>3, <2>4 DEF Split, First
  <2> QED
    BY <1>2, <2>1, <2>2, <2>5
<1> QED
  BY <1>1, <1>3, <1>4

-----------------------------------------------------------------------------
(* The lines of a file *)

LineStart(str, e) == Max({0} \cup {d \in LineEnds(str) : d < e})

\* A line begins behind the end of the one before it.
LEMMA StartIs ==
    ASSUME NEW str \in Seq(Bytes), NEW e \in LineEnds(str)
    PROVE  e \in 1..(Len(str) + 1) /\ LineStart(str, e) \in 0..(e - 1)
<1> DEFINE D == {0} \cup {d \in LineEnds(str) : d < e}
<1>1. LineEnds(str) \subseteq 1..(Len(str) + 1)
  BY DEF LineEnds
<1>2. D \in SUBSET Nat /\ D # {} /\ e \in Nat /\ \A k \in D : k <= e
  BY <1>1
<1>3. \A k \in D : k < e
  BY <1>1
<1> HIDE DEF D
<1>4. PICK m \in D : \A k \in D : k <= m
  BY <1>2, Greatest
<1>5. Max(D) = m
  BY <1>2, <1>4, MaxIs
<1>6. m \in 0..(e - 1)
  BY <1>2, <1>3, <1>4
<1> QED
  BY <1>1, <1>5, <1>6 DEF D, LineStart

\* A line is a string of bytes.
LEMMA LineTyped ==
    ASSUME NEW str \in Seq(Bytes), NEW e \in LineEnds(str)
    PROVE  LineAt(str, e) \in Seq(Bytes)
<1> DEFINE m == LineStart(str, e) + 1
           z == e - 1
           line == SubSeq(str, m, z)
<1>1. m \in 1..(Len(str) + 1) /\ z \in (m - 1)..Len(str)
  BY StartIs
<1> HIDE DEF m, z
<1>2. line \in Seq(Bytes)
  BY <1>1, Part
<1> HIDE DEF line
<1>3. line # <<>> => Front(line) \in Seq(Bytes)
  <2> HAVE line # <<>>
  <2> DEFINE o == 1
             y == Len(line) - 1
  <2>1. o \in 1..(Len(line) + 1) /\ y \in (o - 1)..Len(line)
    BY <1>2
  <2> HIDE DEF o, y
  <2>2. SubSeq(line, o, y) \in Seq(Bytes)
    BY <1>2, <2>1, Part
  <2> QED
    BY <2>2 DEF Front, o, y
<1>4. LineAt(str, e) \in {line, Front(line)} /\ (LineAt(str, e) = line \/ line # <<>>)
  BY DEF LineAt, LineStart, line, m, z
<1> QED
  BY <1>2, <1>3, <1>4

\* Invalid entries are places in the file where lines end.
LEMMA BadTyped ==
    ASSUME NEW str \in Seq(Bytes)
    PROVE  Bad(str) \in SUBSET Nat /\ Bad(str) \subseteq LineEnds(str)
<1>1. LineEnds(str) \subseteq Nat
  BY StartIs
<1> QED
  BY <1>1 DEF Bad, Entries

\* The first invalid entry of a file that has one.
LEMMA FirstBad ==
    ASSUME NEW str \in Seq(Bytes), Bad(str) # {}
    PROVE  \E m \in Bad(str) : /\ \A k \in Bad(str) : m <= k
                               /\ Min(Bad(str)) = m
<1>1. Bad(str) \in SUBSET Nat
  BY BadTyped
<1>2. PICK m \in Bad(str) : \A k \in Bad(str) : m <= k
  BY <1>1, Least
<1>3. Min(Bad(str)) = m
  BY <1>1, <1>2, MinIs
<1> QED
  BY <1>2, <1>3

\* It is the answer to the file.
LEMMA FirstBadAnswers ==
    ASSUME NEW str, Bad(str) # {}
    PROVE  TrustedCaKeys_parse(str) = CaPublicKey_parse(LineAt(str, Min(Bad(str))))
  BY Zenon DEF TrustedCaKeys_parse

\* A file is accepted exactly when it has none.
LEMMA OkIsNoBad ==
    ASSUME NEW str \in Seq(Bytes)
    PROVE  TrustedCaKeys_parse(str).ok <=> Bad(str) = {}
<1>1. CASE Bad(str) = {}
  BY <1>1 DEF TrustedCaKeys_parse, Ok
<1>2. CASE Bad(str) # {}
  <2>1. PICK m \in Bad(str) : Min(Bad(str)) = m
    BY <1>2, FirstBad
  <2>2. TrustedCaKeys_parse(str) = CaPublicKey_parse(LineAt(str, m))
    BY <1>2, <2>1, FirstBadAnswers
  <2>3. ~CaPublicKey_parse(LineAt(str, m)).ok
    BY DEF Bad
  <2> QED
    BY <1>2, <2>2, <2>3
<1> QED
  BY <1>1, <1>2

\* For every file: the parser accepts it exactly when all its lines are blank,
\* a comment or a key line.
THEOREM AcceptsKeyFiles == Spec => []AcceptsExactlyKeyLines
<1>1. s \in Seq(Bytes) => AcceptsExactlyKeyLines
  <2> SUFFICES ASSUME s \in Seq(Bytes) PROVE AcceptsExactlyKeyLines
    OBVIOUS
  <2>1. \A e \in LineEnds(s) : CaPublicKey_parse(LineAt(s, e)).ok <=> KeyLine(LineAt(s, e))
    BY LineTyped, EntryIsKeyLine
  <2>2. Bad(s) = {} <=> \A e \in LineEnds(s) : IsEntry(LineAt(s, e)) => KeyLine(LineAt(s, e))
    BY <2>1 DEF Bad, Entries
  <2> QED
    BY <2>2, OkIsNoBad DEF AcceptsExactlyKeyLines
<1> QED
  BY <1>1, StringInv, PTL

\* The lines of a file up to the end of one of them are lines of the file.
LEMMA LinesOfPrefix ==
    ASSUME NEW str \in Seq(Bytes), NEW n \in 1..Len(str), str[n] = LF
    PROVE  /\ LineEnds(SubSeq(str, 1, n)) = {e \in LineEnds(str) : e <= n}
           /\ \A e \in LineEnds(SubSeq(str, 1, n)) : LineAt(SubSeq(str, 1, n), e) = LineAt(str, e)
<1> DEFINE u == SubSeq(str, 1, n)
<1>1. u \in Seq(Bytes) /\ Len(u) = n /\ \A i \in 1..n : u[i] = str[i]
  <2> DEFINE o == 1
  <2>1. o \in 1..(Len(str) + 1) /\ n \in (o - 1)..Len(str)
    OBVIOUS
  <2>2. n - o + 1 = n /\ \A i \in 1..n : o + i - 1 = i
    OBVIOUS
  <2> HIDE DEF o
  <2>3. /\ SubSeq(str, o, n) \in Seq(Bytes) /\ Len(SubSeq(str, o, n)) = n - o + 1
        /\ \A i \in 1..(n - o + 1) : SubSeq(str, o, n)[i] = str[o + i - 1]
    BY <2>1, Part
  <2> QED
    BY <2>2, <2>3 DEF o
<1> HIDE DEF u
<1>2. LineEnds(u) = {i \in 1..n : u[i] = LF}
  <2>1. Last(u) = LF
    BY <1>1 DEF Last
  <2> QED
    BY <1>1, <2>1 DEF LineEnds
<1>3. {i \in 1..n : u[i] = LF} = {e \in LineEnds(str) : e <= n}
  BY <1>1 DEF LineEnds
<1>4. ASSUME NEW e \in LineEnds(u) PROVE LineAt(u, e) = LineAt(str, e)
  <2>1. e \in LineEnds(str) /\ e \in 1..n
    BY <1>2, <1>3
  <2>2. {d \in LineEnds(u) : d < e} = {d \in LineEnds(str) : d < e}
    <3>1. LineEnds(str) \subseteq Nat
      BY StartIs
    <3> QED
      BY <1>2, <1>3, <2>1, <3>1
  <2>3. LineStart(u, e) = LineStart(str, e) /\ LineStart(str, e) \in 0..(e - 1)
    BY <2>1, <2>2, StartIs DEF LineStart
  <2>4. SubSeq(u, LineStart(str, e) + 1, e - 1) = SubSeq(str, LineStart(str, e) + 1, e - 1)
    <3> DEFINE o == 1
               p == LineStart(str, e) + 1
               q == e - 1
    <3>1. /\ o \in 1..(Len(str) + 1) /\ n \in (o - 1)..Len(str)
          /\ p \in 1..(n - o + 2) /\ q \in (p - 1)..(n - o + 1)
          /\ o + p - 1 = p /\ o + q - 1 = q
      BY <2>1, <2>3
    <3> HIDE DEF o, p, q
    <3>2. SubSeq(SubSeq(str, o, n), p, q) = SubSeq(str, o + p - 1, o + q - 1)
      BY <3>1, PartOfPart
    <3> QED
      BY <3>1, <3>2 DEF o, p, q, u
  <2>5. e <= Len(u) /\ e <= Len(str)
    BY <1>1, <2>1
  <2> QED
    BY <2>3, <2>4, <2>5 DEF LineAt, LineStart
<1> QED
  BY <1>2, <1>3, <1>4 DEF u

\* For every file: once a line is invalid, nothing that follows it changes the
\* answer.
THEOREM RejectionSticks == Spec => []RejectionIsFinal
<1>1. s \in Seq(Bytes) => RejectionIsFinal
  <2> SUFFICES ASSUME s \in Seq(Bytes), NEW n \in {i \in 1..Len(s) : s[i] = LF},
                      ~TrustedCaKeys_parse(SubSeq(s, 1, n)).ok
               PROVE  TrustedCaKeys_parse(s) = TrustedCaKeys_parse(SubSeq(s, 1, n))
    BY DEF RejectionIsFinal
  <2> DEFINE u == SubSeq(s, 1, n)
  <2>1. n \in 1..Len(s) /\ s[n] = LF
    OBVIOUS
  <2>2. u \in Seq(Bytes)
    <3> DEFINE o == 1
    <3>1. o \in 1..(Len(s) + 1) /\ n \in (o - 1)..Len(s)
      OBVIOUS
    <3> HIDE DEF o
    <3>2. SubSeq(s, o, n) \in Seq(Bytes)
      BY <3>1, Part
    <3> QED
      BY <3>2 DEF o
  <2>3. /\ LineEnds(u) = {e \in LineEnds(s) : e <= n}
        /\ \A e \in LineEnds(u) : LineAt(u, e) = LineAt(s, e)
    BY <2>1, LinesOfPrefix
  <2> HIDE DEF u
  <2>4. Bad(u) = {e \in Bad(s) : e <= n}
    BY <2>3 DEF Bad, Entries
  <2>5. Bad(u) # {}
    BY <2>2, OkIsNoBad DEF u
  <2>6. PICK m \in Bad(u) : Min(Bad(u)) = m
    BY <2>2, <2>5, FirstBad
  <2>7. PICK k \in Bad(s) : /\ \A j \in Bad(s) : k <= j
                            /\ Min(Bad(s)) = k
    BY <2>4, <2>5, FirstBad
  <2>8. k = m
    <3>1. Bad(s) \subseteq Nat /\ Bad(u) \subseteq Nat
      BY <2>2, BadTyped
    <3>2. k \in Bad(u)
      BY <2>1, <2>4, <2>7, <3>1
    <3>3. m <= k /\ k <= m
      BY <2>2, <2>4, <2>5, <2>6, <2>7, <3>2, FirstBad
    <3> QED
      BY <3>1, <3>3
  <2>9. LineAt(u, m) = LineAt(s, m)
    BY <2>2, <2>3, BadTyped
  <2>10. TrustedCaKeys_parse(u) = CaPublicKey_parse(LineAt(u, m))
    BY <2>5, <2>6, FirstBadAnswers
  <2>11. TrustedCaKeys_parse(s) = CaPublicKey_parse(LineAt(s, m))
    BY <2>7, <2>8, FirstBadAnswers
  <2> QED
    BY <2>9, <2>10, <2>11 DEF u
<1> QED
  BY <1>1, StringInv, PTL

-----------------------------------------------------------------------------
(* Rendering a key *)

\* Where the characters of two strings in a row are.
LEMMA Concatenated ==
    ASSUME NEW u \in Seq(Bytes), NEW v \in Seq(Bytes)
    PROVE  /\ u \o v \in Seq(Bytes) /\ Len(u \o v) = Len(u) + Len(v)
           /\ \A i \in 1..Len(u) : (u \o v)[i] = u[i]
           /\ \A i \in 1..Len(v) : (u \o v)[Len(u) + i] = v[i]
<1> DEFINE w == u \o v
<1>1. /\ w \in Seq(Bytes) /\ Len(w) = Len(u) + Len(v)
      /\ \A i \in 1..(Len(u) + Len(v)) : w[i] = IF i <= Len(u) THEN u[i] ELSE v[i - Len(u)]
  BY ConcatProperties
<1> HIDE DEF w
<1>2. \A i \in 1..Len(v) : w[Len(u) + i] = v[i]
  <2> TAKE i \in 1..Len(v)
  <2>1. Len(u) + i \in 1..(Len(u) + Len(v)) /\ ~(Len(u) + i <= Len(u)) /\ (Len(u) + i) - Len(u) = i
    OBVIOUS
  <2> QED
    BY <1>1, <2>1
<1>3. \A i \in 1..Len(u) : w[i] = u[i]
  BY <1>1
<1> QED
  BY <1>1, <1>2, <1>3 DEF w

\* The characters of a rendered key: algorithm, blank, blob, and the comment
\* with a blank before it or nothing.
LEMMA Joined ==
    ASSUME NEW A \in Seq(Bytes), NEW K \in Seq(Bytes), NEW T \in Seq(Bytes), SP \in Bytes
    PROVE  LET R == A \o <<SP>> \o K \o T
           IN  /\ R \in Seq(Bytes)
               /\ Len(R) = Len(A) + 1 + Len(K) + Len(T)
               /\ \A i \in 1..Len(A) : R[i] = A[i]
               /\ R[Len(A) + 1] = SP
               /\ \A i \in 1..Len(K) : R[Len(A) + 1 + i] = K[i]
               /\ \A i \in 1..Len(T) : R[Len(A) + 1 + Len(K) + i] = T[i]
<1> DEFINE U == A \o <<SP>>
           V == U \o K
           R == V \o T
<1>1. U \in Seq(Bytes) /\ Len(U) = Len(A) + 1 /\ (\A i \in 1..Len(A) : U[i] = A[i]) /\ U[Len(A) + 1] = SP
  OBVIOUS
<1> HIDE DEF U
<1>2. /\ V \in Seq(Bytes) /\ Len(V) = Len(U) + Len(K)
      /\ \A i \in 1..Len(U) : V[i] = U[i]
      /\ \A i \in 1..Len(K) : V[Len(U) + i] = K[i]
  BY <1>1, Concatenated
<1> HIDE DEF V
<1>3. /\ R \in Seq(Bytes) /\ Len(R) = Len(V) + Len(T)
      /\ \A i \in 1..Len(V) : R[i] = V[i]
      /\ \A i \in 1..Len(T) : R[Len(V) + i] = T[i]
  BY <1>2, Concatenated
<1> HIDE DEF R
<1>4. \A i \in 1..Len(K) : R[Len(A) + 1 + i] = K[i]
  <2> TAKE i \in 1..Len(K)
  <2>1. Len(U) + i \in 1..Len(V)
    BY <1>1, <1>2
  <2>2. R[Len(U) + i] = K[i]
    BY <1>2, <1>3, <2>1
  <2> QED
    BY <1>1, <2>2
<1>5. (\A i \in 1..Len(A) : R[i] = A[i]) /\ R[Len(A) + 1] = SP
  <2>1. \A i \in 1..Len(U) : R[i] = U[i]
    <3> TAKE i \in 1..Len(U)
    <3>1. i \in 1..Len(V)
      BY <1>1, <1>2
    <3> QED
      BY <1>2, <1>3, <3>1
  <2>2. Len(A) + 1 \in 1..Len(U) /\ \A i \in 1..Len(A) : i \in 1..Len(U)
    BY <1>1
  <2> QED
    BY <1>1, <2>1, <2>2
<1>6. \A i \in 1..Len(T) : R[Len(A) + 1 + Len(K) + i] = T[i]
  BY <1>1, <1>2, <1>3
<1>7. Len(R) = Len(A) + 1 + Len(K) + Len(T)
  BY <1>1, <1>2, <1>3
<1> QED
  BY <1>3, <1>4, <1>5, <1>6, <1>7 DEF R, V, U

\* A string is the part of another where its characters are.
LEMMA IsPart ==
    ASSUME NEW R \in Seq(Bytes), NEW A \in Seq(Bytes), NEW k \in Nat, k + Len(A) <= Len(R),
           \A i \in 1..Len(A) : R[k + i] = A[i]
    PROVE  SubSeq(R, k + 1, k + Len(A)) = A
<1> DEFINE a == k + 1
           z == k + Len(A)
           u == SubSeq(R, a, z)
<1>1. a \in 1..(Len(R) + 1) /\ z \in (a - 1)..Len(R) /\ z - a + 1 = Len(A)
  OBVIOUS
<1>2. \A i \in 1..Len(A) : a + i - 1 = k + i
  OBVIOUS
<1> HIDE DEF a, z
<1>3. u \in Seq(Bytes) /\ Len(u) = Len(A) /\ \A i \in 1..Len(A) : u[i] = R[a + i - 1]
  BY <1>1, Part
<1> HIDE DEF u
<1>4. u = A
  <2>1. \A i \in 1..Len(A) : u[i] = A[i]
    BY <1>2, <1>3
  <2> QED
    BY <1>3, <2>1, SeqEqual
<1> QED
  BY <1>4 DEF u, a, z

\* White space and control characters.
LEMMA Blanks ==
    /\ SP \in Bytes /\ is_whitespace(SP) /\ ~is_control(SP)
    /\ is_control(CR) /\ is_control(LF)
<1>1. SP \in Bytes
  BY WordAssumption, Zenon DEF Bytes
<1>2. is_whitespace(SP) /\ ~is_control(SP)
  BY WordAssumption, Zenon DEF is_whitespace, is_control
<1>3. is_control(CR) /\ is_control(LF)
  BY WordAssumption, Zenon DEF is_control
<1> QED
  BY <1>1, <1>2, <1>3

\* A comment is empty, or begins and ends with something to see.
LEMMA TrimTyped ==
    ASSUME NEW str \in Seq(Bytes)
    PROVE  /\ trim(str) \in Seq(Bytes)
           /\ trim(str) # <<>> => /\ ~is_whitespace(trim(str)[1])
                                  /\ ~is_whitespace(trim(str)[Len(trim(str))])
           /\ \A i \in 1..Len(trim(str)) : \E j \in 1..Len(str) : trim(str)[i] = str[j]
<1>1. CASE Inked(str) = {}
  BY <1>1 DEF trim
<1>2. CASE Inked(str) # {}
  <2>1. PICK j \in 1..Len(str) : ~is_whitespace(str[j])
    BY <1>2 DEF Inked
  <2>2. 1 \in 1..Len(str)
    BY <2>1
  <2>3. PICK a \in 1..Len(str) : /\ ~is_whitespace(str[a])
                                 /\ \A i \in 1..(a - 1) : is_whitespace(str[i])
    BY <2>1, <2>2, NextInk
  <2>4. PICK z \in a..Len(str) : ~is_whitespace(str[z]) /\ trim(str) = SubSeq(str, a, z)
    BY <2>3, TrimIs
  <2> DEFINE u == trim(str)
  <2>5. u \in Seq(Bytes) /\ Len(u) = z - a + 1 /\ \A i \in 1..(z - a + 1) : u[i] = str[a + i - 1]
    <3>1. a \in 1..(Len(str) + 1) /\ z \in (a - 1)..Len(str)
      OBVIOUS
    <3> QED
      BY <2>4, <3>1, Part
  <2> HIDE DEF u
  <2>6. u[1] = str[a] /\ u[Len(u)] = str[z]
    <3>1. 1 \in 1..(z - a + 1) /\ z - a + 1 \in 1..(z - a + 1) /\ a + 1 - 1 = a /\ a + (z - a + 1) - 1 = z
      OBVIOUS
    <3> QED
      BY <2>5, <3>1
  <2>7. \A i \in 1..Len(u) : a + i - 1 \in 1..Len(str)
    BY <2>5
  <2> QED
    BY <2>3, <2>4, <2>5, <2>6, <2>7 DEF u
<1> QED
  BY <1>1, <1>2

\* A key with a valid algorithm and blob and a trimmed comment is read back from
\* its rendering.
LEMMA RenderedReadsBack ==
    ASSUME NEW A \in Seq(Bytes), NEW K \in Seq(Bytes), NEW C \in Seq(Bytes),
           A \in ALLOWED_ALGORITHMS, is_valid_base64(K),
           C # <<>> => ~is_whitespace(C[1]) /\ ~is_whitespace(C[Len(C)]),
           \A i \in 1..Len(C) : ~is_control(C[i])
    PROVE  LET key == [algorithm |-> A, key_data |-> K, comment |-> C]
           IN  /\ CaPublicKey_render(key) \in Seq(Bytes)
               /\ CaPublicKey_parse(CaPublicKey_render(key)) = Ok(key)
<1> DEFINE T == IF C = <<>> THEN <<>> ELSE <<SP>> \o C
           R == A \o <<SP>> \o K \o T
           a == Len(A)
           c == Len(A) + 2
           d == Len(A) + 1 + Len(K)
<1>1. /\ a \in Nat \ {0} /\ Len(K) \in Nat \ {0}
      /\ \A i \in 1..Len(A) : ~is_whitespace(A[i]) /\ ~is_control(A[i])
      /\ \A i \in 1..Len(K) : ~is_whitespace(K[i]) /\ ~is_control(K[i])
  <2>1. A # <<>>
    BY WordAssumption, Zenon
  <2>2. K # <<>>
    BY DEF is_valid_base64
  <2>3. WellFormed(K)
    BY ValidIsWellFormed
  <2> QED
    BY <2>1, <2>2, <2>3, AlgorithmInk, BlobInk
<1>2. /\ T \in Seq(Bytes)
      /\ C = <<>> => T = <<>>
      /\ C # <<>> => /\ Len(T) = Len(C) + 1 /\ T[1] = SP
                     /\ \A i \in 1..Len(C) : T[i + 1] = C[i]
  <2>1. <<SP>> \in Seq(Bytes) /\ Len(<<SP>>) = 1 /\ <<SP>>[1] = SP
    BY Blanks
  <2> DEFINE O == <<SP>>
  <2> HIDE DEF O
  <2>2. O \in Seq(Bytes) /\ Len(O) = 1 /\ O[1] = SP
    BY <2>1 DEF O
  <2>3. /\ O \o C \in Seq(Bytes) /\ Len(O \o C) = Len(O) + Len(C)
        /\ \A i \in 1..Len(O) : (O \o C)[i] = O[i]
        /\ \A i \in 1..Len(C) : (O \o C)[Len(O) + i] = C[i]
    BY <2>2, Concatenated
  <2>4. Len(O \o C) = Len(C) + 1 /\ (O \o C)[1] = SP /\ \A i \in 1..Len(C) : (O \o C)[i + 1] = C[i]
    BY <2>2, <2>3
  <2>5. T = IF C = <<>> THEN <<>> ELSE O \o C
    BY DEF O
  <2> HIDE DEF T
  <2> QED
    BY <2>3, <2>4, <2>5
<1> HIDE DEF T
<1>3. /\ R \in Seq(Bytes)
      /\ Len(R) = Len(A) + 1 + Len(K) + Len(T)
      /\ \A i \in 1..Len(A) : R[i] = A[i]
      /\ R[Len(A) + 1] = SP
      /\ \A i \in 1..Len(K) : R[Len(A) + 1 + i] = K[i]
      /\ \A i \in 1..Len(T) : R[Len(A) + 1 + Len(K) + i] = T[i]
  <2>1. T \in Seq(Bytes) /\ SP \in Bytes
    BY <1>2, Blanks
  <2> HIDE DEF a, c, d
  <2>2. R \in Seq(Bytes) /\ Len(R) = Len(A) + 1 + Len(K) + Len(T)
    BY <2>1, Joined
  <2>3. (\A i \in 1..Len(A) : R[i] = A[i]) /\ R[Len(A) + 1] = SP
    BY <2>1, Joined
  <2>4. \A i \in 1..Len(K) : R[Len(A) + 1 + i] = K[i]
    BY <2>1, Joined
  <2>5. \A i \in 1..Len(T) : R[Len(A) + 1 + Len(K) + i] = T[i]
    BY <2>1, Joined
  <2> QED
    BY <2>2, <2>3, <2>4, <2>5
<1> HIDE DEF R
<1>4. \A i \in c..d : \E j \in 1..Len(K) : R[i] = K[j]
  <2> TAKE i \in c..d
  <2> DEFINE j == i - (Len(A) + 1)
  <2>1. j \in 1..Len(K) /\ Len(A) + 1 + j = i
    BY <1>1
  <2> HIDE DEF j
  <2>2. R[Len(A) + 1 + j] = K[j]
    BY <1>3, <2>1
  <2> QED
    BY <2>1, <2>2
<1>5. \A i \in 1..Len(T) : R[d + i] = T[i]
  BY <1>3
<1>6. Len(R) = d + Len(T)
  BY <1>3
<1>7. Split(R, 1, a, c, d)
  <2>1. First(R, 1, a)
    BY <1>1, <1>2, <1>3, Blanks DEF First
  <2>2. c \in (a + 2)..Len(R) /\ d \in c..Len(R) /\ \A i \in (a + 1)..(c - 1) : is_whitespace(R[i])
    BY <1>1, <1>2, <1>3, Blanks
  <2>3. \A i \in c..d : ~is_whitespace(R[i])
    BY <1>1, <1>4
  <2>4. d < Len(R) => is_whitespace(R[d + 1])
    <3> HAVE d < Len(R)
    <3>1. 1 \in 1..Len(T) /\ T[1] = SP
      BY <1>1, <1>2, <1>3
    <3>2. R[Len(A) + 1 + Len(K) + 1] = T[1]
      BY <1>3, <3>1
    <3> QED
      BY <3>1, <3>2, Blanks
  <2> QED
    BY <2>1, <2>2, <2>3, <2>4 DEF Split
<1>8. SubSeq(R, 1, a) = A /\ SubSeq(R, c, d) = K /\ SubSeq(R, d + 1, Len(R)) = T
  <2>1. SubSeq(R, 0 + 1, 0 + Len(A)) = A
    <3>1. 0 \in Nat /\ 0 + Len(A) <= Len(R) /\ \A i \in 1..Len(A) : R[0 + i] = A[i]
      BY <1>2, <1>3
    <3> QED
      BY <1>3, <3>1, IsPart
  <2> DEFINE k == Len(A) + 1
  <2>2. SubSeq(R, k + 1, k + Len(K)) = K
    <3>1. k \in Nat /\ k + Len(K) <= Len(R) /\ \A i \in 1..Len(K) : R[k + i] = K[i]
      BY <1>1, <1>2, <1>3
    <3> HIDE DEF k
    <3> QED
      BY <1>3, <3>1, IsPart
  <2>3. SubSeq(R, d + 1, d + Len(T)) = T
    <3>1. d \in Nat /\ d + Len(T) <= Len(R) /\ \A i \in 1..Len(T) : R[d + i] = T[i]
      BY <1>1, <1>2, <1>3
    <3> HIDE DEF d
    <3> QED
      BY <1>2, <1>3, <3>1, IsPart
  <2>4. 0 + 1 = 1 /\ 0 + Len(A) = a /\ k + 1 = c /\ k + Len(K) = d /\ d + Len(T) = Len(R)
    BY <1>1, <1>2, <1>3
  <2> HIDE DEF a, c, d, k
  <2> QED
    BY <2>1, <2>2, <2>3, <2>4
<1>9. /\ trim(R) # <<>> /\ Field(trim(R)) = A
      /\ AfterAlgo(R) # <<>> /\ Field(AfterAlgo(R)) = K
  <2>1. R \in Seq(Bytes) /\ 1 \in Nat /\ a \in Nat /\ c \in Nat /\ d \in Nat
    BY <1>1, <1>3
  <2> HIDE DEF a, c, d
  <2>2. trim(R) # <<>>
    BY <1>7, <2>1, FieldsAre
  <2>3. Field(trim(R)) = SubSeq(R, 1, a)
    BY <1>7, <2>1, FieldsAre
  <2>4. AfterAlgo(R) # <<>>
    BY <1>7, <2>1, FieldsAre
  <2>5. Field(AfterAlgo(R)) = SubSeq(R, c, d)
    BY <1>7, <2>1, FieldsAre
  <2> QED
    BY <1>8, <2>2, <2>3, <2>4, <2>5
<1>10. Rest(AfterAlgo(R)) = T
  <2>1. PICK z \in d..Len(R) : Ends(R, z) /\ Rest(AfterAlgo(R)) = SubSeq(R, d + 1, z)
    <3>1. R \in Seq(Bytes) /\ 1 \in Nat /\ a \in Nat /\ c \in Nat /\ d \in Nat
      BY <1>1, <1>3
    <3> HIDE DEF a, c, d
    <3> QED
      BY <1>7, <3>1, FieldsAre
  <2>2. z = Len(R)
    <3>0. d \in Nat /\ Len(R) \in Nat
      BY <1>1, <1>3
    <3> HIDE DEF d
    <3>1. CASE C = <<>>
      <4>1. Len(R) = d
        BY <1>2, <1>6, <3>0, <3>1
      <4> QED
        BY <2>1, <3>0, <4>1
    <3>2. CASE C # <<>>
      <4> DEFINE m == Len(C)
      <4>1. m \in 1..Len(C) /\ Len(T) = m + 1
        BY <1>2, <3>2
      <4>2. T[m + 1] = C[m]
        BY <1>2, <3>2, <4>1
      <4>3. R[d + (m + 1)] = T[m + 1] /\ Len(R) = d + (m + 1)
        BY <1>5, <1>6, <4>1
      <4>4. ~is_whitespace(R[Len(R)])
        BY <3>2, <4>2, <4>3
      <4> QED
        BY <2>1, <3>0, <4>4 DEF Ends
    <3> QED
      BY <3>1, <3>2
  <2> QED
    BY <1>8, <2>1, <2>2
<1>11. trim(T) = C
  <2>1. CASE C = <<>>
    BY <1>2, <2>1 DEF trim, Inked
  <2>2. CASE C # <<>>
    <3> DEFINE o == 2
    <3>1. o \in 1..Len(T) /\ ~is_whitespace(T[o]) /\ \A i \in 1..(o - 1) : is_whitespace(T[i])
      <4>1. 1 \in 1..Len(C) /\ Len(T) = Len(C) + 1 /\ T[1 + 1] = C[1]
        BY <1>2, <2>2
      <4> QED
        BY <1>2, <2>2, <4>1, Blanks
    <3> HIDE DEF o
    <3>0. T \in Seq(Bytes)
      BY <1>2
    <3>2. PICK z \in o..Len(T) : /\ \A i \in (z + 1)..Len(T) : is_whitespace(T[i])
                                 /\ trim(T) = SubSeq(T, o, z)
      BY <3>0, <3>1, TrimIs
    <3>3. ~is_whitespace(T[Len(T)])
      <4>1. Len(C) \in 1..Len(C) /\ Len(T) = Len(C) + 1
        BY <1>2, <2>2
      <4> QED
        BY <1>2, <2>2, <4>1
    <3>4. z = Len(T)
      BY <1>2, <3>2, <3>3 DEF o
    <3>5. SubSeq(T, 1 + 1, 1 + Len(C)) = C
      <4>1. 1 \in Nat /\ 1 + Len(C) <= Len(T) /\ \A i \in 1..Len(C) : T[1 + i] = C[i]
        BY <1>2, <2>2
      <4> QED
        BY <1>2, <4>1, IsPart
    <3>6. 1 + 1 = o /\ 1 + Len(C) = Len(T)
      BY <1>2, <2>2 DEF o
    <3> QED
      BY <3>2, <3>4, <3>5, <3>6
  <2> QED
    BY <2>1, <2>2
<1>12. ~HasControl(R)
  <2> SUFFICES ASSUME NEW i \in 1..Len(R) PROVE ~is_control(R[i])
    BY DEF HasControl
  <2>1. CASE i \in 1..Len(A)
    BY <1>1, <1>3, <2>1, Blanks
  <2>2. CASE i = Len(A) + 1
    BY <1>3, <2>2, Blanks
  <2>3. CASE i \in (Len(A) + 2)..d
    BY <1>1, <1>4, <2>3, Blanks
  <2>4. CASE i \in (d + 1)..Len(R)
    <3> DEFINE j == i - d
    <3>1. j \in 1..Len(T) /\ Len(A) + 1 + Len(K) + j = i
      BY <1>1, <1>2, <1>3, <2>4
    <3>2. C # <<>> /\ Len(T) = Len(C) + 1
      BY <1>2, <3>1
    <3>3. R[i] = T[j]
      BY <1>3, <3>1
    <3>4. CASE j = 1
      BY <1>2, <3>2, <3>3, <3>4, Blanks
    <3>5. CASE j # 1
      <4> DEFINE m == j - 1
      <4> HIDE DEF j
      <4>1. m \in 1..Len(C) /\ m + 1 = j
        BY <3>1, <3>2, <3>5
      <4> HIDE DEF m
      <4>2. T[m + 1] = C[m]
        BY <1>2, <3>2, <4>1
      <4> QED
        BY <3>3, <4>1, <4>2
    <3> QED
      BY <3>4, <3>5
  <2> QED
    BY <1>1, <1>3, <2>1, <2>2, <2>3, <2>4
<1> DEFINE key == [algorithm |-> A, key_data |-> K, comment |-> C]
<1>13. CaPublicKey_render(key) = R
  BY DEF CaPublicKey_render, R, T
<1>14. CaPublicKey_parse(R) = Ok(key)
  BY <1>9, <1>10, <1>11, <1>12 DEF CaPublicKey_parse, AfterAlgo, collect_comment, Ok
<1> QED
  BY <1>3, <1>13, <1>14

\* Every key that was parsed is parsed again, the same, from its rendering
\* (single_key_render_round_trips, for every line).
THEOREM KeyRoundTrips ==
    ASSUME NEW line \in Seq(Bytes), CaPublicKey_parse(line).ok
    PROVE  LET rendered == CaPublicKey_render(CaPublicKey_parse(line).value)
           IN  rendered \in Seq(Bytes) /\ CaPublicKey_parse(rendered) = CaPublicKey_parse(line)
<1> DEFINE A == Field(trim(line))
           K == Field(AfterAlgo(line))
           C == collect_comment(Rest(AfterAlgo(line)))
           key == [algorithm |-> A, key_data |-> K, comment |-> C]
<1>1. /\ ~HasControl(line) /\ trim(line) # <<>> /\ AfterAlgo(line) # <<>>
      /\ A \in ALLOWED_ALGORITHMS /\ is_valid_base64(K)
  BY DEF CaPublicKey_parse, AfterAlgo, Ok, Err
<1>2. CaPublicKey_parse(line) = Ok(key)
  BY <1>1 DEF CaPublicKey_parse, AfterAlgo
<1>3. PICK a, b, c, d \in 1..Len(line) : Split(line, a, b, c, d)
  BY <1>1, FieldsExist
<1>4. /\ trim(line) # <<>> /\ Field(trim(line)) = SubSeq(line, a, b)
      /\ AfterAlgo(line) # <<>> /\ Field(AfterAlgo(line)) = SubSeq(line, c, d)
      /\ \E z \in d..Len(line) :
                Ends(line, z) /\ Rest(AfterAlgo(line)) = SubSeq(line, d + 1, z)
  <2>1. a \in Nat /\ b \in Nat /\ c \in Nat /\ d \in Nat
    BY <1>3
  <2> QED
    BY <1>3, <2>1, FieldsAre
<1>5. PICK z \in d..Len(line) : Rest(AfterAlgo(line)) = SubSeq(line, d + 1, z)
  BY <1>4
<1>6. A = SubSeq(line, a, b) /\ K = SubSeq(line, c, d)
  BY <1>4
<1>7. A \in Seq(Bytes) /\ K \in Seq(Bytes)
  <2>1. /\ a \in 1..(Len(line) + 1) /\ b \in (a - 1)..Len(line)
        /\ c \in 1..(Len(line) + 1) /\ d \in (c - 1)..Len(line)
    BY <1>3 DEF Split, First
  <2> QED
    BY <1>6, <2>1, Part
<1> DEFINE r == SubSeq(line, d + 1, z)
<1>8. r \in Seq(Bytes) /\ \A i \in 1..Len(r) : \E j \in 1..Len(line) : r[i] = line[j]
  <2> DEFINE e == d + 1
  <2>1. e \in 1..(Len(line) + 1) /\ z \in (e - 1)..Len(line)
    OBVIOUS
  <2>2. \A i \in 1..(z - e + 1) : e + i - 1 \in 1..Len(line)
    BY <2>1
  <2> HIDE DEF e
  <2>3. /\ SubSeq(line, e, z) \in Seq(Bytes) /\ Len(SubSeq(line, e, z)) = z - e + 1
        /\ \A i \in 1..(z - e + 1) : SubSeq(line, e, z)[i] = line[e + i - 1]
    BY <2>1, Part
  <2> QED
    BY <2>2, <2>3 DEF e
<1> HIDE DEF r
<1>9. C = trim(r)
  BY <1>5 DEF r, collect_comment
<1>10. /\ C \in Seq(Bytes)
       /\ C # <<>> => ~is_whitespace(C[1]) /\ ~is_whitespace(C[Len(C)])
       /\ \A i \in 1..Len(C) : \E j \in 1..Len(r) : C[i] = r[j]
  BY <1>8, <1>9, TrimTyped
<1>11. \A i \in 1..Len(C) : ~is_control(C[i])
  BY <1>1, <1>8, <1>10 DEF HasControl
<1> HIDE DEF A, K, C
<1>12. CaPublicKey_render(key) \in Seq(Bytes) /\ CaPublicKey_parse(CaPublicKey_render(key)) = Ok(key)
  BY <1>1, <1>7, <1>10, <1>11, RenderedReadsBack
<1>13. Ok(key).value = key
  BY DEF Ok
<1> QED
  BY <1>2, <1>12, <1>13

-----------------------------------------------------------------------------
(* The members of a set of numbers, in their order *)

UpTo(S, e) == {d \in S : d <= e}

\* A larger member has more members up to it.
LEMMA RankGrows ==
    ASSUME NEW S \in SUBSET Nat, IsFiniteSet(S), NEW d \in S, NEW e \in S, d < e
    PROVE  Cardinality(UpTo(S, d)) < Cardinality(UpTo(S, e))
<1>1. UpTo(S, d) \in SUBSET UpTo(S, e) /\ UpTo(S, e) \in SUBSET S /\ UpTo(S, d) # UpTo(S, e)
  <2>1. \A x \in S : x <= d => x <= e
    OBVIOUS
  <2>2. e \in UpTo(S, e) /\ e \notin UpTo(S, d)
    BY DEF UpTo
  <2> QED
    BY <2>1, <2>2 DEF UpTo
<1>2. IsFiniteSet(UpTo(S, e))
  BY <1>1, FS_Subset
<1>3. IsFiniteSet(UpTo(S, d))
  BY <1>1, <1>2, FS_Subset
<1>4. /\ Cardinality(UpTo(S, d)) <= Cardinality(UpTo(S, e))
      /\ Cardinality(UpTo(S, e)) # Cardinality(UpTo(S, d))
  BY <1>1, <1>2, FS_Subset
<1> QED
  BY <1>2, <1>3, <1>4, FS_CardinalityType

\* Nth finds the member with k members up to it.
LEMMA NthIs ==
    ASSUME NEW S \in SUBSET Nat, IsFiniteSet(S), NEW e \in S
    PROVE  Nth(S, Cardinality(UpTo(S, e))) = e
<1> DEFINE k == Cardinality(UpTo(S, e))
           x == Nth(S, k)
<1>1. x \in S /\ Cardinality(UpTo(S, x)) = k
  BY DEF Nth, UpTo
<1> HIDE DEF x
<1>2. ~(x < e) /\ ~(e < x)
  <2>1. Cardinality(UpTo(S, e)) \in Nat
    <3>1. UpTo(S, e) \in SUBSET S
      BY DEF UpTo
    <3> QED
      BY <3>1, FS_Subset, FS_CardinalityType
  <2>2. ASSUME x < e PROVE FALSE
    BY <1>1, <2>1, <2>2, RankGrows
  <2>3. ASSUME e < x PROVE FALSE
    BY <1>1, <2>1, <2>3, RankGrows
  <2> QED
    BY <2>2, <2>3
<1>3. x = e
  BY <1>1, <1>2
<1> QED
  BY <1>3 DEF x

\* The member before another one that is not the first.
LEMMA Before ==
    ASSUME NEW S \in SUBSET Nat, NEW e \in S, NEW a \in S, a < e
    PROVE  \E m \in S : m < e /\ UpTo(S, m) = UpTo(S, e) \ {e}
<1> DEFINE D == {d \in S : d < e}
<1>1. D \in SUBSET Nat /\ D # {}
  OBVIOUS
<1>2. e \in Nat /\ \A d \in D : d <= e
  OBVIOUS
<1>3. PICK m \in D : \A d \in D : d <= m
  <2> HIDE DEF D
  <2> QED
    BY <1>1, <1>2, Greatest
<1>4. \A d \in S : d <= m <=> d <= e /\ d # e
  BY <1>3
<1>5. m \in S /\ m < e
  BY <1>3
<1>6. UpTo(S, m) = UpTo(S, e) \ {e}
  BY <1>4 DEF UpTo
<1> QED
  BY <1>5, <1>6

\* There is a kth member for every k up to the number of members.
LEMMA NthIn ==
    ASSUME NEW S \in SUBSET Nat, IsFiniteSet(S), NEW n \in Nat, \A d \in S : d <= n,
           NEW k \in 1..Cardinality(S)
    PROVE  Nth(S, k) \in S
<1> DEFINE rank(e) == Cardinality(UpTo(S, e))
           T == {e \in S : k <= rank(e)}
<1>0. Cardinality(S) \in Nat
  BY FS_CardinalityType
<1>1. \A e \in S : rank(e) \in Nat /\ IsFiniteSet(UpTo(S, e))
  <2> TAKE e \in S
  <2>1. UpTo(S, e) \in SUBSET S
    BY DEF UpTo
  <2> QED
    BY <2>1, FS_Subset, FS_CardinalityType
<1>2. T \in SUBSET Nat /\ T # {}
  <2>1. S # {}
    BY <1>0, FS_EmptySet
  <2>2. PICK m \in S : \A d \in S : d <= m
    BY <2>1, Greatest
  <2>3. UpTo(S, m) = S
    BY <2>2 DEF UpTo
  <2>4. k <= rank(m)
    BY <1>0, <2>3
  <2> QED
    BY <2>4
<1>3. PICK e \in T : \A d \in T : e <= d
  BY <1>2, Least
<1>4. e \in S /\ k <= rank(e) /\ rank(e) \in Nat
  BY <1>1, <1>3
<1> HIDE DEF T, rank
<1>5. ASSUME k < rank(e) PROVE FALSE
  <2>0. e \in Nat /\ e \in UpTo(S, e)
    BY <1>4 DEF UpTo
  <2>1. PICK a \in S : a < e
    <3> SUFFICES ASSUME \A a \in S : ~(a < e) PROVE FALSE
      OBVIOUS
    <3>1. \A d \in S : d <= e <=> d = e
      BY <2>0
    <3>2. UpTo(S, e) = {e}
      BY <1>4, <3>1 DEF UpTo
    <3> QED
      BY <1>4, <1>5, <3>2, FS_Singleton DEF rank
  <2>2. PICK m \in S : m < e /\ UpTo(S, m) = UpTo(S, e) \ {e}
    BY <1>4, <2>1, Before
  <2>3. rank(m) = rank(e) - 1
    <3>1. Cardinality(UpTo(S, e) \ {e}) = Cardinality(UpTo(S, e)) - 1
      BY <1>1, <1>4, <2>0, FS_RemoveElement
    <3> QED
      BY <2>2, <3>1 DEF rank
  <2>4. m \in T
    BY <1>4, <1>5, <2>3 DEF T
  <2>5. e <= m
    BY <1>3, <2>4
  <2> QED
    BY <2>0, <2>2, <2>5
<1>6. rank(e) = k
  BY <1>4, <1>5
<1>7. Nth(S, k) = e
  BY <1>4, <1>6, NthIs DEF rank
<1> QED
  BY <1>4, <1>7

-----------------------------------------------------------------------------
(* Strings put together *)

\* f[i] is the first i of the strings L in a row: what FlattenSeq computes.
Growing(f, L, n) ==
    /\ f \in [1..n -> Seq(Bytes)]
    /\ \A i \in 1..n : f[i] = IF i = 1 THEN L[i] ELSE f[i - 1] \o L[i]

\* One more string.
LEMMA GrowsByOne ==
    ASSUME NEW n \in Nat \ {0}, NEW L \in [1..n -> Seq(Bytes)], NEW m \in 2..n,
           NEW g, Growing(g, L, m - 1)
    PROVE  Growing([i \in 1..m |-> IF i < m THEN g[i] ELSE g[m - 1] \o L[m]], L, m)
<1> DEFINE l == m - 1
           h == [i \in 1..m |-> IF i < m THEN g[i] ELSE g[l] \o L[m]]
<1>1. l \in Nat /\ l \in 1..n /\ l < m /\ l \in 1..l /\ \A i \in 1..m : i < m <=> i \in 1..l
  OBVIOUS
<1> HIDE DEF l
<1>2. g \in [1..l -> Seq(Bytes)] /\ \A i \in 1..l : g[i] = IF i = 1 THEN L[i] ELSE g[i - 1] \o L[i]
  BY DEF Growing, l
<1>3. g[l] \o L[m] \in Seq(Bytes)
  BY <1>1, <1>2, Concatenated
<1>4. h \in [1..m -> Seq(Bytes)]
  BY <1>1, <1>2, <1>3
<1>5. ASSUME NEW i \in 1..m PROVE h[i] = IF i = 1 THEN L[i] ELSE h[i - 1] \o L[i]
  <2>1. CASE i < m
    <3>1. i \in 1..l /\ h[i] = g[i]
      BY <1>1, <2>1
    <3>2. i # 1 => i - 1 \in 1..m /\ i - 1 < m
      BY <2>1
    <3>3. i # 1 => h[i - 1] = g[i - 1]
      BY <3>2
    <3> QED
      BY <1>2, <3>1, <3>3
  <2>2. CASE i = m
    <3>1. i # 1 /\ i - 1 = l /\ l \in 1..m
      BY <1>1, <2>2 DEF l
    <3>2. m \in 1..m /\ ~(m < m)
      OBVIOUS
    <3>3. h[m] = g[l] \o L[m]
      BY <3>2
    <3>4. h[l] = g[l]
      BY <1>1, <3>1
    <3> QED
      BY <2>2, <3>1, <3>3, <3>4
  <2> QED
    BY <2>1, <2>2
<1> QED
  BY <1>4, <1>5 DEF Growing, l

\* There is such an f for as many strings as there are.
LEMMA GrowingExists ==
    ASSUME NEW n \in Nat \ {0}, NEW L \in [1..n -> Seq(Bytes)]
    PROVE  \E f : Growing(f, L, n)
<1> DEFINE T == {m \in 1..n : ~\E f : Growing(f, L, m)}
<1>1. T \in SUBSET Nat
  OBVIOUS
<1>2. ASSUME T # {} PROVE FALSE
  <2>1. PICK m \in T : \A k \in T : m <= k
    BY <1>1, <1>2, Least
  <2>2. m \in 1..n /\ ~\E f : Growing(f, L, m)
    OBVIOUS
  <2>3. CASE m = 1
    <3> DEFINE g == [i \in 1..1 |-> L[1]]
    <3>1. g \in [1..1 -> Seq(Bytes)] /\ \A i \in 1..1 : g[i] = L[i] /\ i = 1
      OBVIOUS
    <3>2. Growing(g, L, 1)
      BY <3>1 DEF Growing
    <3> QED
      BY <2>2, <2>3, <3>2
  <2>4. CASE m # 1
    <3> DEFINE l == m - 1
    <3>1. m \in 2..n /\ l \in 1..n /\ l \in Nat /\ m \in Nat /\ ~(m <= l)
      BY <2>2, <2>4
    <3> HIDE DEF l
    <3>2. l \notin T
      <4> HIDE DEF T
      <4> QED
        BY <2>1, <3>1
    <3>3. PICK g : Growing(g, L, l)
      BY <3>1, <3>2
    <3> HIDE DEF T
    <3> QED
      BY <2>2, <3>1, <3>3, GrowsByOne DEF l
  <2> QED
    BY <2>3, <2>4
<1>3. n \notin T
  BY <1>2
<1> QED
  BY <1>3

\* FlattenSeq puts all of them in a row.
LEMMA Flattened ==
    ASSUME NEW n \in Nat \ {0}, NEW L \in [1..n -> Seq(Bytes)]
    PROVE  \E f : Growing(f, L, n) /\ FlattenSeq(L) = f[n]
<1>1. Len(L) = n /\ Len(L) # 0
  OBVIOUS
<1> DEFINE Eq(g) == g = [i \in 1..n |-> IF i = 1 THEN L[i] ELSE g[i - 1] \o L[i]]
           f == CHOOSE g : Eq(g)
<1>2. PICK g : Growing(g, L, n)
  BY GrowingExists
<1>3. Eq(g)
  BY <1>2 DEF Growing
<1>4. Eq(f)
  BY <1>3
<1>5. FlattenSeq(L) = f[n]
  BY <1>1 DEF FlattenSeq
<1> HIDE DEF f
<1>6. \A i \in 1..n : f[i] = IF i = 1 THEN L[i] ELSE f[i - 1] \o L[i]
  BY <1>4
<1>7. \A i \in 1..n : f[i] \in Seq(Bytes)
  <2> DEFINE T == {i \in 1..n : f[i] \notin Seq(Bytes)}
  <2> SUFFICES ASSUME T # {} PROVE FALSE
    OBVIOUS
  <2>1. T \in SUBSET Nat
    OBVIOUS
  <2>2. PICK m \in T : \A k \in T : m <= k
    BY <2>1, Least
  <2>3. m \in 1..n /\ f[m] \notin Seq(Bytes)
    OBVIOUS
  <2>4. CASE m = 1
    BY <1>6, <2>3, <2>4
  <2>5. CASE m # 1
    <3>1. m - 1 \in 1..n /\ f[m - 1] \in Seq(Bytes)
      BY <2>2, <2>3, <2>5
    <3>2. f[m] = f[m - 1] \o L[m]
      BY <1>6, <2>3, <2>5
    <3> QED
      BY <2>3, <3>1, <3>2, Concatenated
  <2> QED
    BY <2>4, <2>5
<1>8. Growing(f, L, n)
  <2>1. f = [i \in 1..n |-> f[i]]
    BY <1>4
  <2> QED
    BY <1>6, <1>7, <2>1 DEF Growing
<1> QED
  BY <1>5, <1>8

\* What comes later leaves the beginning as it is.
LEMMA BeginningStays ==
    ASSUME NEW n \in Nat \ {0}, NEW L \in [1..n -> Seq(Bytes)], NEW f, Growing(f, L, n),
           NEW i \in 1..n
    PROVE  \A j \in i..n : /\ Len(f[i]) <= Len(f[j])
                           /\ \A y \in 1..Len(f[i]) : f[j][y] = f[i][y]
<1> DEFINE Keeps(j) == Len(f[i]) <= Len(f[j]) /\ \A y \in 1..Len(f[i]) : f[j][y] = f[i][y]
           T == {j \in i..n : ~Keeps(j)}
<1>1. T \in SUBSET Nat
  OBVIOUS
<1>2. \A j \in 1..n : f[j] \in Seq(Bytes) /\ f[j] = IF j = 1 THEN L[j] ELSE f[j - 1] \o L[j]
  BY DEF Growing
<1>3. Keeps(i)
  BY <1>2
<1> HIDE DEF Keeps
<1>4. ASSUME T # {} PROVE FALSE
  <2>1. PICK m \in T : \A k \in T : m <= k
    BY <1>1, <1>4, Least
  <2>2. m \in i..n /\ ~Keeps(m)
    OBVIOUS
  <2> DEFINE l == m - 1
  <2>3. m # i
    BY <1>3, <2>2
  <2>4. l \in i..n /\ l \in 1..n /\ m \in 1..n /\ m # 1 /\ ~(m <= l)
    BY <2>2, <2>3
  <2>5. f[m] = f[l] \o L[m]
    BY <1>2, <2>4
  <2> HIDE DEF l
  <2>6. l \notin T
    <3> HIDE DEF T
    <3> QED
      BY <2>1, <2>4
  <2>7. Keeps(l)
    BY <2>4, <2>6
  <2>8. f[l] \in Seq(Bytes) /\ f[i] \in Seq(Bytes) /\ L[m] \in Seq(Bytes)
    BY <1>2, <2>4
  <2> HIDE DEF T
  <2>9. /\ Len(f[m]) = Len(f[l]) + Len(L[m])
        /\ \A y \in 1..Len(f[l]) : f[m][y] = f[l][y]
    <3>1. /\ Len(f[l] \o L[m]) = Len(f[l]) + Len(L[m])
          /\ \A y \in 1..Len(f[l]) : (f[l] \o L[m])[y] = f[l][y]
      BY <2>8, Concatenated
    <3> QED
      BY <2>5, <3>1
  <2>10. Len(f[i]) <= Len(f[l]) /\ \A y \in 1..Len(f[i]) : f[l][y] = f[i][y]
    BY <2>7 DEF Keeps
  <2>11. \A y \in 1..Len(f[i]) : y \in 1..Len(f[l])
    BY <2>8, <2>10
  <2>12. Len(f[i]) <= Len(f[m])
    <3> DEFINE u == Len(f[i])
               v == Len(f[l])
               w == Len(L[m])
               x == Len(f[m])
    <3>1. u \in Nat /\ v \in Nat /\ w \in Nat
      BY <2>8
    <3>2. x = v + w /\ u <= v
      BY <2>9, <2>10
    <3> HIDE DEF u, v, w, x
    <3>3. u <= x
      BY <3>1, <3>2
    <3> QED
      BY <3>3 DEF u, x
  <2>13. Keeps(m)
    BY <2>9, <2>10, <2>11, <2>12 DEF Keeps
  <2> QED
    BY <2>2, <2>13
<1>5. \A j \in i..n : Keeps(j)
  BY <1>4
<1> QED
  BY <1>5 DEF Keeps

\* Where the ith string begins in the row: behind the ones before it.
From(f, i) == IF i = 1 THEN 0 ELSE Len(f[i - 1])

\* The ith string stands there, in the whole row too.
LEMMA InPlace ==
    ASSUME NEW n \in Nat \ {0}, NEW L \in [1..n -> Seq(Bytes)], NEW f, Growing(f, L, n),
           NEW i \in 1..n
    PROVE  /\ From(f, i) \in Nat
           /\ Len(f[i]) = From(f, i) + Len(L[i])
           /\ Len(f[i]) <= Len(f[n])
           /\ \A y \in 1..Len(L[i]) : f[n][From(f, i) + y] = L[i][y]
<1>1. \A j \in 1..n : f[j] \in Seq(Bytes) /\ f[j] = IF j = 1 THEN L[j] ELSE f[j - 1] \o L[j]
  BY DEF Growing
<1>2. L[i] \in Seq(Bytes) /\ f[i] \in Seq(Bytes)
  BY <1>1
<1>3. /\ From(f, i) \in Nat
      /\ Len(f[i]) = From(f, i) + Len(L[i])
      /\ \A y \in 1..Len(L[i]) : f[i][From(f, i) + y] = L[i][y]
  <2>1. CASE i = 1
    <3>1. f[i] = L[i] /\ From(f, i) = 0
      BY <1>1, <2>1 DEF From
    <3> QED
      BY <1>2, <3>1
  <2>2. CASE i # 1
    <3> DEFINE l == i - 1
    <3>1. l \in 1..n
      BY <2>2
    <3>2. f[i] = f[l] \o L[i] /\ From(f, i) = Len(f[l])
      BY <1>1, <2>2 DEF From
    <3> HIDE DEF l
    <3>3. f[l] \in Seq(Bytes)
      BY <1>1, <3>1
    <3> QED
      BY <1>2, <3>2, <3>3, Concatenated
  <2> QED
    BY <2>1, <2>2
<1>4. n \in i..n
  OBVIOUS
<1>5. Len(f[i]) <= Len(f[n]) /\ \A y \in 1..Len(f[i]) : f[n][y] = f[i][y]
  BY <1>4, BeginningStays
<1>6. \A y \in 1..Len(L[i]) : From(f, i) + y \in 1..Len(f[i])
  BY <1>2, <1>3
<1> QED
  BY <1>3, <1>5, <1>6

\* Every place in the row belongs to one of the strings.
LEMMA Located ==
    ASSUME NEW n \in Nat \ {0}, NEW L \in [1..n -> Seq(Bytes)], NEW f, Growing(f, L, n),
           NEW y \in 1..Len(f[n])
    PROVE  \E i \in 1..n : \E k \in 1..Len(L[i]) : y = From(f, i) + k
<1> DEFINE T == {i \in 1..n : y <= Len(f[i])}
<1>0. \A j \in 1..n : f[j] \in Seq(Bytes) /\ L[j] \in Seq(Bytes)
  BY DEF Growing
<1>1. T \in SUBSET Nat /\ n \in T
  BY <1>0
<1>2. PICK i \in T : \A k \in T : i <= k
  BY <1>1, Least
<1>3. i \in 1..n /\ y <= Len(f[i])
  OBVIOUS
<1>4. From(f, i) \in Nat /\ Len(f[i]) = From(f, i) + Len(L[i])
  BY <1>3, InPlace
<1>5. From(f, i) < y
  <2>1. CASE i = 1
    BY <2>1 DEF From
  <2>2. CASE i # 1
    <3> DEFINE l == i - 1
    <3>1. l \in 1..n /\ i \in Nat /\ l \in Nat /\ ~(i <= l)
      BY <1>3, <2>2
    <3>2. From(f, i) = Len(f[l])
      BY <2>2 DEF From
    <3> HIDE DEF l
    <3>3. l \notin T
      <4> HIDE DEF T
      <4> QED
        BY <1>2, <3>1
    <3>4. ~(y <= Len(f[l]))
      BY <3>1, <3>3
    <3>5. Len(f[l]) \in Nat /\ y \in Nat
      BY <1>0, <3>1
    <3> HIDE DEF T
    <3> QED
      BY <3>2, <3>4, <3>5
  <2> QED
    BY <2>1, <2>2
<1> DEFINE k == y - From(f, i)
<1>6. k \in 1..Len(L[i]) /\ y = From(f, i) + k
  <2>1. Len(L[i]) \in Nat /\ y \in Nat
    BY <1>0, <1>3
  <2> HIDE DEF T
  <2> QED
    BY <1>3, <1>4, <1>5, <2>1
<1> HIDE DEF k, T
<1> QED
  BY <1>3, <1>6

-----------------------------------------------------------------------------
(* The lines of a rendered file *)

WithEnd(r, n) == [i \in 1..n |-> r[i] \o <<LF>>]

\* f[n] is the text of the n lines r, none of which has a control character.
TextOf(f, r, n) ==
    /\ r \in [1..n -> Seq(Bytes)]
    /\ \A i \in 1..n : ~HasControl(r[i])
    /\ Growing(f, WithEnd(r, n), n)

LEMMA Ended ==
    ASSUME NEW u \in Seq(Bytes)
    PROVE  /\ u \o <<LF>> \in Seq(Bytes) /\ Len(u \o <<LF>>) = Len(u) + 1
           /\ \A i \in 1..Len(u) : (u \o <<LF>>)[i] = u[i]
           /\ (u \o <<LF>>)[Len(u) + 1] = LF
<1>1. LF \in Bytes
  BY WordAssumption, Zenon DEF Bytes
<1> DEFINE O == <<LF>>
<1>2. O \in Seq(Bytes) /\ Len(O) = 1 /\ O[1] = LF
  BY <1>1
<1> HIDE DEF O
<1>3. /\ u \o O \in Seq(Bytes) /\ Len(u \o O) = Len(u) + Len(O)
      /\ \A i \in 1..Len(u) : (u \o O)[i] = u[i]
      /\ \A i \in 1..Len(O) : (u \o O)[Len(u) + i] = O[i]
  BY <1>2, Concatenated
<1>4. (u \o O)[Len(u) + 1] = LF /\ Len(u \o O) = Len(u) + 1
  BY <1>2, <1>3
<1> QED
  BY <1>3, <1>4 DEF O

\* It is put together from the lines with their ends.
LEMMA TextGrows ==
    ASSUME NEW n \in Nat \ {0}, NEW r, NEW f, TextOf(f, r, n)
    PROVE  /\ \A j \in 1..n : r[j] \in Seq(Bytes) /\ WithEnd(r, n)[j] = r[j] \o <<LF>>
           /\ WithEnd(r, n) \in [1..n -> Seq(Bytes)]
           /\ Growing(f, WithEnd(r, n), n)
<1>1. \A j \in 1..n : r[j] \in Seq(Bytes) /\ WithEnd(r, n)[j] = r[j] \o <<LF>>
  BY DEF TextOf, WithEnd
<1>2. \A j \in 1..n : r[j] \o <<LF>> \in Seq(Bytes)
  BY <1>1, Ended
<1>3. WithEnd(r, n) \in [1..n -> Seq(Bytes)]
  BY <1>2 DEF WithEnd
<1> QED
  BY <1>1, <1>3 DEF TextOf

\* The ith line stands behind the ones before it, and its end behind it.
LEMMA LineInPlace ==
    ASSUME NEW n \in Nat \ {0}, NEW r, NEW f, TextOf(f, r, n), NEW i \in 1..n
    PROVE  /\ r[i] \in Seq(Bytes) /\ f[n] \in Seq(Bytes)
           /\ From(f, i) \in Nat
           /\ Len(f[i]) = From(f, i) + Len(r[i]) + 1
           /\ Len(f[i]) <= Len(f[n])
           /\ \A y \in 1..Len(r[i]) : f[n][From(f, i) + y] = r[i][y]
           /\ f[n][Len(f[i])] = LF
<1> DEFINE L == WithEnd(r, n)
<1>1. \A j \in 1..n : r[j] \in Seq(Bytes) /\ L[j] = r[j] \o <<LF>>
  BY TextGrows
<1>2. L \in [1..n -> Seq(Bytes)]
  BY TextGrows
<1>3. Growing(f, L, n)
  BY TextGrows
<1> HIDE DEF L
<1>4. f[n] \in Seq(Bytes)
  BY <1>3 DEF Growing
<1>5. /\ From(f, i) \in Nat
      /\ Len(f[i]) = From(f, i) + Len(L[i])
      /\ Len(f[i]) <= Len(f[n])
      /\ \A y \in 1..Len(L[i]) : f[n][From(f, i) + y] = L[i][y]
  BY <1>2, <1>3, InPlace
<1>6. /\ Len(L[i]) = Len(r[i]) + 1
      /\ \A y \in 1..Len(r[i]) : L[i][y] = r[i][y]
      /\ L[i][Len(r[i]) + 1] = LF
  BY <1>1, Ended
<1>7. r[i] \in Seq(Bytes) /\ Len(r[i]) \in Nat
  BY <1>1
<1>8. Len(r[i]) + 1 \in 1..Len(L[i]) /\ \A y \in 1..Len(r[i]) : y \in 1..Len(L[i])
  BY <1>6, <1>7
<1>9. \A y \in 1..Len(r[i]) : f[n][From(f, i) + y] = r[i][y]
  BY <1>5, <1>6, <1>8
<1>10. f[n][From(f, i) + (Len(r[i]) + 1)] = LF
  BY <1>5, <1>6, <1>8
<1>11. Len(f[i]) = From(f, i) + (Len(r[i]) + 1)
  BY <1>5, <1>6
<1>12. Len(f[i]) = From(f, i) + Len(r[i]) + 1
  BY <1>5, <1>7, <1>11
<1> QED
  BY <1>4, <1>5, <1>7, <1>9, <1>10, <1>11, <1>12

\* Where the lines end: one end for each of them, and no other.
LEMMA TextEnds ==
    ASSUME NEW n \in Nat \ {0}, NEW r, NEW f, TextOf(f, r, n)
    PROVE  LineEnds(f[n]) = {Len(f[i]) : i \in 1..n}
<1> DEFINE R == f[n]
           E == {Len(f[i]) : i \in 1..n}
<1>0. n \in 1..n
  OBVIOUS
<1>1. R \in Seq(Bytes) /\ Len(R) \in Nat \ {0} /\ R[Len(R)] = LF
  <2>1. r[n] \in Seq(Bytes) /\ R \in Seq(Bytes) /\ From(f, n) \in Nat
        /\ Len(R) = From(f, n) + Len(r[n]) + 1 /\ R[Len(R)] = LF
    BY <1>0, LineInPlace
  <2>2. Len(r[n]) \in Nat
    BY <2>1
  <2> QED
    BY <2>1, <2>2
<1>2. \A i \in 1..n : Len(f[i]) \in 1..Len(R) /\ R[Len(f[i])] = LF
  <2> TAKE i \in 1..n
  <2>1. r[i] \in Seq(Bytes) /\ From(f, i) \in Nat /\ Len(f[i]) = From(f, i) + Len(r[i]) + 1
        /\ Len(f[i]) <= Len(R) /\ R[Len(f[i])] = LF
    BY LineInPlace
  <2>2. Len(r[i]) \in Nat
    BY <2>1
  <2> HIDE DEF R
  <2> QED
    BY <1>1, <2>1, <2>2
<1>2a. ASSUME NEW i \in 1..n
       PROVE  Len(f[i]) = From(f, i) + Len(r[i]) + 1 /\ From(f, i) \in Nat
  BY LineInPlace
<1>3. ASSUME NEW y \in 1..Len(R), R[y] = LF PROVE y \in E
  <2> DEFINE L == WithEnd(r, n)
  <2>1. \A j \in 1..n : r[j] \in Seq(Bytes) /\ L[j] = r[j] \o <<LF>>
    BY TextGrows
  <2>2. L \in [1..n -> Seq(Bytes)]
    BY TextGrows
  <2>3. Growing(f, L, n)
    BY TextGrows
  <2> HIDE DEF L
  <2>4. PICK i \in 1..n : \E k \in 1..Len(L[i]) : y = From(f, i) + k
    <3>1. y \in 1..Len(f[n])
      OBVIOUS
    <3> HIDE DEF R, E
    <3> QED
      BY <2>2, <2>3, <3>1, Located
  <2>5. PICK k \in 1..Len(L[i]) : y = From(f, i) + k
    BY <2>4
  <2>6. /\ Len(L[i]) = Len(r[i]) + 1 /\ Len(r[i]) \in Nat
    BY <2>1, Ended
  <2>7. ASSUME k \in 1..Len(r[i]) PROVE FALSE
    <3>1. R[y] = r[i][k]
      BY <2>5, <2>7, LineInPlace
    <3>2. ~is_control(r[i][k])
      BY <2>7 DEF TextOf, HasControl
    <3> QED
      BY <1>3, <3>1, <3>2, Blanks
  <2>8. k = Len(r[i]) + 1
    BY <2>6, <2>7
  <2>9. Len(f[i]) = From(f, i) + Len(r[i]) + 1 /\ From(f, i) \in Nat
    BY <1>2a
  <2>10. y = Len(f[i])
    BY <2>5, <2>6, <2>8, <2>9
  <2> QED
    BY <2>10
<1> HIDE DEF R
<1>4. ~(R # <<>> /\ Last(R) # LF)
  BY <1>1 DEF Last
<1>5. LineEnds(R) = {y \in 1..Len(R) : R[y] = LF}
  BY <1>4 DEF LineEnds
<1>6. E \subseteq {y \in 1..Len(R) : R[y] = LF}
  BY <1>2
<1>7. {y \in 1..Len(R) : R[y] = LF} \subseteq E
  <2> HIDE DEF E
  <2> QED
    BY <1>3
<1> QED
  BY <1>5, <1>6, <1>7 DEF R

\* The ends in the order of the lines.
LEMMA EndsGrow ==
    ASSUME NEW n \in Nat \ {0}, NEW r, NEW f, TextOf(f, r, n), NEW i \in 1..n, NEW j \in 1..n, i < j
    PROVE  Len(f[i]) <= From(f, j) /\ From(f, j) < Len(f[j])
<1> DEFINE L == WithEnd(r, n)
           l == j - 1
<1>1. L \in [1..n -> Seq(Bytes)]
  BY TextGrows
<1>2. Growing(f, L, n)
  BY TextGrows
<1>3. l \in i..n /\ j # 1
  OBVIOUS
<1>4. From(f, j) = Len(f[l])
  BY <1>3 DEF From
<1> HIDE DEF L, l
<1>5. Len(f[i]) <= Len(f[l])
  BY <1>1, <1>2, <1>3, BeginningStays
<1>6. r[j] \in Seq(Bytes) /\ From(f, j) \in Nat /\ Len(f[j]) = From(f, j) + Len(r[j]) + 1
  BY LineInPlace
<1>7. Len(r[j]) \in Nat
  BY <1>6
<1>8. From(f, j) < Len(f[j])
  <2> DEFINE u == From(f, j)
             v == Len(r[j])
  <2>1. u \in Nat /\ v \in Nat /\ Len(f[j]) = u + v + 1
    BY <1>6, <1>7
  <2> HIDE DEF u, v
  <2>2. u < u + v + 1
    BY <2>1
  <2> QED
    BY <2>1, <2>2 DEF u
<1> QED
  BY <1>4, <1>5, <1>8

\* The ends are places in the text.
LEMMA EndsTyped ==
    ASSUME NEW n \in Nat \ {0}, NEW r, NEW f, TextOf(f, r, n)
    PROVE  \A i \in 1..n : Len(f[i]) \in Nat
<1> TAKE i \in 1..n
<1>1. r[i] \in Seq(Bytes) /\ From(f, i) \in Nat /\ Len(f[i]) = From(f, i) + Len(r[i]) + 1
  BY LineInPlace
<1>2. Len(r[i]) \in Nat
  BY <1>1
<1> DEFINE u == From(f, i)
           v == Len(r[i])
<1>3. u \in Nat /\ v \in Nat /\ Len(f[i]) = u + v + 1
  BY <1>1, <1>2
<1> HIDE DEF u, v
<1> QED
  BY <1>3

\* They follow one another as the lines do.
LEMMA EndsOrder ==
    ASSUME NEW n \in Nat \ {0}, NEW r, NEW f, TextOf(f, r, n), NEW i \in 1..n, NEW j \in 1..n
    PROVE  /\ Len(f[i]) < Len(f[j]) <=> i < j
           /\ Len(f[i]) = Len(f[j]) => i = j
<1>1. ASSUME NEW k \in 1..n, NEW m \in 1..n, k < m PROVE Len(f[k]) < Len(f[m])
  <2>1. Len(f[k]) <= From(f, m) /\ From(f, m) < Len(f[m]) /\ From(f, m) \in Nat
    BY <1>1, EndsGrow, LineInPlace
  <2>2. Len(f[k]) \in Nat /\ Len(f[m]) \in Nat
    BY EndsTyped
  <2> DEFINE u == Len(f[k])
             v == From(f, m)
             w == Len(f[m])
  <2>3. u \in Nat /\ v \in Nat /\ w \in Nat /\ u <= v /\ v < w
    BY <2>1, <2>2
  <2> HIDE DEF u, v, w
  <2>4. u < w
    BY <2>3
  <2> QED
    BY <2>4 DEF u, w
<1> DEFINE x == Len(f[i])
           y == Len(f[j])
<1>2. x \in Nat /\ y \in Nat
  BY EndsTyped
<1>3. (i < j => x < y) /\ (j < i => y < x)
  BY <1>1
<1>4. i = j => x = y
  OBVIOUS
<1> HIDE DEF x, y
<1>5. (x < y <=> i < j) /\ (x = y => i = j)
  BY <1>2, <1>3, <1>4
<1> QED
  BY <1>5 DEF x, y

\* str::lines gives the lines back.
LEMMA LineIsBack ==
    ASSUME NEW n \in Nat \ {0}, NEW r, NEW f, TextOf(f, r, n), NEW i \in 1..n
    PROVE  LineAt(f[n], Len(f[i])) = r[i]
<1>0. /\ r[i] \in Seq(Bytes) /\ f[n] \in Seq(Bytes)
      /\ From(f, i) \in Nat
      /\ Len(f[i]) = From(f, i) + Len(r[i]) + 1
      /\ Len(f[i]) <= Len(f[n])
      /\ \A y \in 1..Len(r[i]) : f[n][From(f, i) + y] = r[i][y]
  <2>1. r[i] \in Seq(Bytes) /\ f[n] \in Seq(Bytes) /\ From(f, i) \in Nat
    BY LineInPlace
  <2>2. Len(f[i]) = From(f, i) + Len(r[i]) + 1 /\ Len(f[i]) <= Len(f[n])
    BY LineInPlace
  <2>3. \A y \in 1..Len(r[i]) : f[n][From(f, i) + y] = r[i][y]
    BY LineInPlace
  <2> QED
    BY <2>1, <2>2, <2>3
<1> DEFINE R == f[n]
           e == Len(f[i])
           b == From(f, i)
           D == {0} \cup {d \in LineEnds(R) : d < e}
<1>1. /\ r[i] \in Seq(Bytes) /\ R \in Seq(Bytes) /\ b \in Nat
      /\ e = b + Len(r[i]) + 1 /\ e <= Len(R)
      /\ \A y \in 1..Len(r[i]) : R[b + y] = r[i][y]
  BY <1>0
<1>2. LineEnds(R) = {Len(f[j]) : j \in 1..n}
  BY TextEnds
<1>3. b \in D
  <2>1. CASE i = 1
    BY <2>1 DEF From
  <2>2. CASE i # 1
    <3> DEFINE l == i - 1
    <3>1. l \in 1..n /\ l < i
      BY <2>2
    <3>2. b = Len(f[l])
      BY <2>2 DEF From
    <3> HIDE DEF l
    <3>3. Len(f[l]) < e
      BY <3>1, EndsOrder
    <3> HIDE DEF e, b, R
    <3> QED
      BY <1>2, <3>1, <3>2, <3>3
  <2> QED
    BY <2>1, <2>2
<1>4. \A d \in D : d \in Nat /\ d <= b
  <2> SUFFICES ASSUME NEW d \in LineEnds(R), d < e PROVE d \in Nat /\ d <= b
    BY <1>1
  <2>1. PICK j \in 1..n : d = Len(f[j])
    BY <1>2
  <2>2. j < i
    BY <2>1, EndsOrder
  <2> QED
    BY <2>1, <2>2, EndsGrow, EndsTyped
<1>5. D \in SUBSET Nat
  <2> HIDE DEF D
  <2> QED
    BY <1>4
<1>6. Max(D) = b
  <2> HIDE DEF D, b
  <2> QED
    BY <1>3, <1>4, <1>5, MaxIs
<1>7. SubSeq(R, b + 1, e - 1) = r[i]
  <2>1. Len(r[i]) \in Nat /\ Len(R) \in Nat
    BY <1>1
  <2> HIDE DEF R, e, b, D
  <2>2. b + Len(r[i]) <= Len(R) /\ e - 1 = b + Len(r[i])
    BY <1>1, <2>1
  <2>3. SubSeq(R, b + 1, b + Len(r[i])) = r[i]
    BY <1>1, <2>2, IsPart
  <2> QED
    BY <2>2, <2>3
<1>8. r[i] # <<>> => Last(r[i]) # CR
  <2> HAVE r[i] # <<>>
  <2>1. Len(r[i]) \in 1..Len(r[i])
    BY <1>1
  <2>2. ~is_control(r[i][Len(r[i])])
    BY <2>1 DEF TextOf, HasControl
  <2> QED
    BY <2>2, Blanks DEF Last
<1> HIDE DEF R, e, b
<1>9. LineAt(R, e) = r[i]
  BY <1>6, <1>7, <1>8 DEF LineAt
<1> QED
  BY <1>9 DEF R, e

\* The end of the kth line is the kth end.
LEMMA EndsCounted ==
    ASSUME NEW n \in Nat \ {0}, NEW r, NEW f, TextOf(f, r, n), NEW k \in 1..n
    PROVE  Cardinality(UpTo(LineEnds(f[n]), Len(f[k]))) = k
<1> DEFINE S == {Len(f[j]) : j \in 1..k}
           E == {Len(f[j]) : j \in 1..n}
           g == [j \in 1..k |-> Len(f[j])]
<1>1. \A j \in 1..k : j \in 1..n
  OBVIOUS
<1>2. \A j \in 1..n : Len(f[j]) <= Len(f[k]) <=> j \in 1..k
  <2> TAKE j \in 1..n
  <2>1. Len(f[j]) \in Nat /\ Len(f[k]) \in Nat
    BY EndsTyped
  <2>2. Len(f[k]) < Len(f[j]) <=> k < j
    BY EndsOrder
  <2> DEFINE x == Len(f[j])
             y == Len(f[k])
  <2>3. x \in Nat /\ y \in Nat /\ (y < x <=> k < j)
    BY <2>1, <2>2
  <2> HIDE DEF x, y
  <2>4. x <= y <=> j \in 1..k
    BY <2>3
  <2> QED
    BY <2>4 DEF x, y
<1>3. UpTo(E, Len(f[k])) = S
  BY <1>1, <1>2 DEF UpTo
<1>4. g \in [1..k -> S]
  OBVIOUS
<1>5. \A i, j \in 1..k : g[i] = g[j] => i = j
  BY <1>1, EndsOrder
<1>6. \A x \in S : \E j \in 1..k : g[j] = x
  OBVIOUS
<1>7. DOMAIN g = 1..k
  OBVIOUS
<1> HIDE DEF g, S
<1>8. g \in Bijection(1..k, S)
  BY <1>4, <1>5, <1>6, <1>7 DEF Bijection, Injection, Surjection, IsInjective
<1>9. ExistsBijection(1..k, S)
  BY <1>8 DEF ExistsBijection
<1>10. Cardinality(S) = k
  BY <1>9, FS_CountingElements
<1>11. LineEnds(f[n]) = E
  BY TextEnds
<1> HIDE DEF E
<1> QED
  BY <1>3, <1>10, <1>11

\* A line that is accepted has no control character and is an entry: it is no
\* comment, since an algorithm does not begin with a hash sign.
LEMMA OkIsEntry ==
    ASSUME NEW line \in Seq(Bytes), CaPublicKey_parse(line).ok
    PROVE  ~HasControl(line) /\ IsEntry(line)
<1> DEFINE t == trim(line)
<1>1. ~HasControl(line) /\ t # <<>> /\ Field(t) \in ALLOWED_ALGORITHMS
  BY DEF CaPublicKey_parse, Ok, Err
<1>2. t \in Seq(Bytes) /\ ~is_whitespace(t[1])
  BY <1>1, TrimTyped
<1> HIDE DEF t
<1>3. 1 \in 1..Len(t)
  BY <1>1, <1>2
<1>4. PICK b \in 1..Len(t) : /\ \A i \in 1..b : ~is_whitespace(t[i])
                             /\ b < Len(t) => is_whitespace(t[b + 1])
  BY <1>2, <1>3, FieldEnds
<1>5. Field(t) = SubSeq(t, 1, b)
  <2>1. b \in 0..Len(t)
    OBVIOUS
  <2> QED
    BY <1>2, <1>4, <2>1, FieldIs
<1> DEFINE o == 1
           u == SubSeq(t, o, b)
<1>6. u[1] = t[1] /\ Len(u) = b
  <2>1. o \in 1..(Len(t) + 1) /\ b \in (o - 1)..Len(t) /\ b - o + 1 = b /\ o + 1 - 1 = 1 /\ 1 \in 1..b
    BY <1>2
  <2> HIDE DEF o
  <2>2. Len(u) = b - o + 1 /\ \A i \in 1..(b - o + 1) : u[i] = t[o + i - 1]
    BY <1>2, <2>1, Part
  <2> HIDE DEF u
  <2> QED
    BY <2>1, <2>2
<1>7. u = Field(t)
  BY <1>5
<1> HIDE DEF u
<1>8. u[1] # Hash
  BY <1>1, <1>7, WordAssumption, Zenon
<1>9. t[1] # Hash
  BY <1>6, <1>8
<1>10. Head(t) = t[1]
  BY <1>1, <1>2
<1> QED
  BY <1>1, <1>9, <1>10 DEF IsEntry, t

\* A key that its rendering reads back.
ReadsBack(key) == /\ CaPublicKey_render(key) \in Seq(Bytes)
                  /\ CaPublicKey_parse(CaPublicKey_render(key)) = Ok(key)

\* The rendering of such keys, line by line.
LEMMA RenderedLines ==
    ASSUME NEW n \in Nat \ {0}, NEW keys, Len(keys) = n, \A k \in 1..n : ReadsBack(keys[k])
    PROVE  LET r == [k \in 1..n |-> CaPublicKey_render(keys[k])]
           IN  \E f : TextOf(f, r, n) /\ TrustedCaKeys_render(keys) = f[n]
<1> DEFINE r == [k \in 1..n |-> CaPublicKey_render(keys[k])]
           L == WithEnd(r, n)
<1>1. \A k \in 1..n : CaPublicKey_render(keys[k]) \in Seq(Bytes)
  BY DEF ReadsBack
<1>2. r \in [1..n -> Seq(Bytes)] /\ \A k \in 1..n : r[k] = CaPublicKey_render(keys[k])
  BY <1>1
<1>3. \A k \in 1..n : ~HasControl(r[k])
  <2> TAKE k \in 1..n
  <2>1. CaPublicKey_parse(CaPublicKey_render(keys[k])).ok
    BY DEF ReadsBack, Ok
  <2> QED
    BY <1>1, <1>2, <2>1, OkIsEntry
<1>4. L = [k \in 1..Len(keys) |-> CaPublicKey_render(keys[k]) \o <<LF>>]
  BY DEF WithEnd
<1>5. TrustedCaKeys_render(keys) = FlattenSeq(L)
  BY <1>4 DEF TrustedCaKeys_render
<1> HIDE DEF r
<1>6. L \in [1..n -> Seq(Bytes)]
  <2>1. \A k \in 1..n : r[k] \o <<LF>> \in Seq(Bytes)
    BY <1>2, Ended
  <2> QED
    BY <2>1 DEF WithEnd
<1> HIDE DEF L
<1>7. PICK f : Growing(f, L, n) /\ FlattenSeq(L) = f[n]
  BY <1>6, Flattened
<1>8. TextOf(f, r, n)
  BY <1>2, <1>3, <1>7 DEF TextOf, L
<1> QED
  BY <1>5, <1>7, <1>8 DEF r

\* They are all read back, in their order.
LEMMA FileReadsBack ==
    ASSUME NEW n \in Nat \ {0}, NEW keys, Len(keys) = n, keys = [k \in 1..n |-> keys[k]],
           \A k \in 1..n : ReadsBack(keys[k])
    PROVE  TrustedCaKeys_parse(TrustedCaKeys_render(keys)) = Ok(keys)
<1> DEFINE r == [k \in 1..n |-> CaPublicKey_render(keys[k])]
<1>1. PICK f : TextOf(f, r, n) /\ TrustedCaKeys_render(keys) = f[n]
  BY RenderedLines
<1>2. \A k \in 1..n : r[k] = CaPublicKey_render(keys[k])
  OBVIOUS
<1> HIDE DEF r
<1>3. \A k \in 1..n : r[k] \in Seq(Bytes) /\ CaPublicKey_parse(r[k]) = Ok(keys[k])
  BY <1>2 DEF ReadsBack
<1> DEFINE R == f[n]
           E == LineEnds(R)
<1>4. E = {Len(f[k]) : k \in 1..n}
  BY <1>1, TextEnds
<1>5. \A k \in 1..n : LineAt(R, Len(f[k])) = r[k]
  BY <1>1, LineIsBack
<1>6. \A k \in 1..n : Cardinality(UpTo(E, Len(f[k]))) = k
  BY <1>1, EndsCounted
<1>7. \A k \in 1..n : Len(f[k]) \in Nat
  BY <1>1, EndsTyped
<1> HIDE DEF R, E
<1>8. \A k \in 1..n : CaPublicKey_parse(r[k]).ok /\ CaPublicKey_parse(r[k]).value = keys[k]
  <2>1. \A v : Ok(v).ok /\ Ok(v).value = v
    BY DEF Ok
  <2> QED
    BY <1>3, <2>1
<1>9. \A k \in 1..n : IsEntry(r[k])
  BY <1>3, <1>8, OkIsEntry
<1>10. Entries(R) = E
  BY <1>4, <1>5, <1>9 DEF Entries, E
<1>11. Bad(R) = {}
  BY <1>4, <1>5, <1>8, <1>10 DEF Bad
<1>12. E \in SUBSET Nat
  BY <1>4, <1>7
<1>13. \A e \in E : e <= Len(f[n])
  <2> TAKE e \in E
  <2>1. PICK k \in 1..n : e = Len(f[k])
    BY <1>4
  <2> QED
    BY <1>1, <2>1, LineInPlace
<1>14. n \in 1..n
  OBVIOUS
<1>15. IsFiniteSet(E)
  BY <1>7, <1>12, <1>13, <1>14, FS_BoundedSetOfNaturals
<1>16. Cardinality(E) = n
  <2>1. UpTo(E, Len(f[n])) = E
    BY <1>13 DEF UpTo
  <2> QED
    BY <1>6, <1>14, <2>1
<1>17. \A k \in 1..n : Nth(E, k) = Len(f[k])
  <2> TAKE k \in 1..n
  <2>1. Len(f[k]) \in E
    BY <1>4
  <2>2. Nth(E, Cardinality(UpTo(E, Len(f[k])))) = Len(f[k])
    BY <1>12, <1>15, <2>1, NthIs
  <2> QED
    BY <1>6, <2>2
<1>18. \A k \in 1..n : CaPublicKey_parse(LineAt(R, Nth(E, k))).value = keys[k]
  BY <1>5, <1>8, <1>17
<1>19. [k \in 1..n |-> CaPublicKey_parse(LineAt(R, Nth(E, k))).value] = keys
  BY <1>18
<1>20. TrustedCaKeys_parse(R) = Ok(keys)
  BY <1>10, <1>11, <1>16, <1>19 DEF TrustedCaKeys_parse
<1> QED
  BY <1>1, <1>20 DEF R

\* No keys are rendered as an empty file, which has none.
LEMMA EmptyReadsBack ==
    ASSUME NEW keys, Len(keys) = 0, keys = [k \in 1..0 |-> keys[k]]
    PROVE  TrustedCaKeys_parse(TrustedCaKeys_render(keys)) = Ok(keys)
<1> DEFINE R == TrustedCaKeys_render(keys)
           L == [k \in 1..Len(keys) |-> CaPublicKey_render(keys[k]) \o <<LF>>]
<1>0. 1..0 = {}
  OBVIOUS
<1>1. L = <<>>
  BY <1>0
<1>2. R = <<>>
  <2>1. R = FlattenSeq(L)
    BY DEF TrustedCaKeys_render
  <2> HIDE DEF L
  <2> QED
    BY <1>1, <2>1 DEF FlattenSeq
<1> HIDE DEF R
<1>3. LineEnds(R) = {}
  BY <1>0, <1>2 DEF LineEnds
<1>4. Entries(R) = {} /\ Bad(R) = {}
  BY <1>3 DEF Entries, Bad
<1>5. Cardinality(Entries(R)) = 0
  BY <1>4, FS_EmptySet
<1>6. [k \in 1..0 |-> CaPublicKey_parse(LineAt(R, Nth(Entries(R), k))).value] = keys
  BY <1>0
<1>7. TrustedCaKeys_parse(R) = Ok(keys)
  BY <1>4, <1>5, <1>6 DEF TrustedCaKeys_parse
<1> QED
  BY <1>7 DEF R

\* For every file that is accepted: what TrustedCaKeys::render makes of its keys
\* is accepted again, with the same keys in the same order.
THEOREM FileRoundTrips == Spec => []RenderRoundTrips
<1>1. s \in Seq(Bytes) => RenderRoundTrips
  <2> SUFFICES ASSUME s \in Seq(Bytes), TrustedCaKeys_parse(s).ok
               PROVE  LET keys == TrustedCaKeys_parse(s).value
                      IN  TrustedCaKeys_parse(TrustedCaKeys_render(keys)) = Ok(keys)
    BY DEF RenderRoundTrips
  <2> DEFINE E == Entries(s)
             n == Cardinality(E)
             keys == TrustedCaKeys_parse(s).value
  <2>1. Bad(s) = {}
    BY OkIsNoBad
  <2>2. keys = [k \in 1..n |-> CaPublicKey_parse(LineAt(s, Nth(E, k))).value]
    BY <2>1 DEF TrustedCaKeys_parse, Ok
  <2>3. E \in SUBSET LineEnds(s) /\ E \in SUBSET Nat /\ Len(s) + 1 \in Nat /\ \A e \in E : e <= Len(s) + 1
    <3>1. \A e \in LineEnds(s) : e \in 1..(Len(s) + 1)
      BY StartIs
    <3> QED
      BY <3>1 DEF Entries
  <2>4. \A e \in E : CaPublicKey_parse(LineAt(s, e)).ok
    BY <2>1 DEF Bad
  <2> HIDE DEF E
  <2>5. IsFiniteSet(E)
    BY <2>3, FS_BoundedSetOfNaturals
  <2>6. n \in Nat
    BY <2>5, FS_CardinalityType
  <2>7. \A k \in 1..n : Nth(E, k) \in E
    BY <2>3, <2>5, NthIn
  <2> HIDE DEF keys, n
  <2>8. Len(keys) = n /\ keys = [k \in 1..n |-> keys[k]]
    BY <2>2, <2>6
  <2>9. \A k \in 1..n : ReadsBack(keys[k])
    <3> TAKE k \in 1..n
    <3> DEFINE line == LineAt(s, Nth(E, k))
    <3>1. line \in Seq(Bytes) /\ CaPublicKey_parse(line).ok
      BY <2>3, <2>4, <2>7, LineTyped
    <3>2. keys[k] = CaPublicKey_parse(line).value
      BY <2>2
    <3> HIDE DEF line
    <3>3. /\ CaPublicKey_render(keys[k]) \in Seq(Bytes)
          /\ CaPublicKey_parse(CaPublicKey_render(keys[k])) = CaPublicKey_parse(line)
      BY <3>1, <3>2, KeyRoundTrips
    <3>4. CaPublicKey_parse(line) = Ok(keys[k])
      BY <3>1, <3>2 DEF CaPublicKey_parse, Ok, Err
    <3> QED
      BY <3>3, <3>4 DEF ReadsBack
  <2>10. TrustedCaKeys_parse(TrustedCaKeys_render(keys)) = Ok(keys)
    <3>1. CASE n = 0
      BY <2>8, <3>1, EmptyReadsBack
    <3>2. CASE n # 0
      BY <2>6, <2>8, <2>9, <3>2, FileReadsBack
    <3> QED
      BY <3>1, <3>2
  <2> QED
    BY <2>10 DEF keys
<1> QED
  BY <1>1, StringInv, PTL
=============================================================================
