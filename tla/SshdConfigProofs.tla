-------------------------- MODULE SshdConfigProofs ---------------------------
(***************************************************************************)
(* Proofs about the reading of an sshd configuration, for files of every   *)
(* length and any number of drop-ins.                                      *)
(***************************************************************************)
EXTENDS SshdConfig, SequenceTheorems, WellFoundedInduction, TLAPS

-----------------------------------------------------------------------------
(* The inductive invariant *)

Types ==
    /\ main \in Seq(Lines)
    /\ dropin \in [Dropins -> {Managed, "site", Nothing}]

\* What the last answer says of the main file, which has not changed since.
Answered ==
    answer = "ok" => includes_dropin_dir(main) /\ dropin[Ours] = Managed

CInv == Types /\ Answered

-----------------------------------------------------------------------------
(* The first of some lines *)

\* Some numbers have a least one.
LEMMA Least ==
  ASSUME NEW S \in SUBSET Nat, S # {}
  PROVE  \E m \in S : \A k \in S : m <= k
  <1> DEFINE R == {p \in Nat \X Nat : p[1] < p[2]}
  <1>1. IsWellFoundedOn(R, Nat)
    BY NatLessThanWellFounded DEF OpToRel
  <1> HIDE DEF R
  <1>2. PICK m \in S : \A k \in S : <<k, m>> \notin R
    BY <1>1, WFMin
  <1>3. \A k \in S : ~(k < m)
    BY <1>2 DEF R
  <1> QED BY <1>3

\* ... and FirstOf is it.
LEMMA FirstIsLeast ==
  ASSUME NEW S \in SUBSET Nat, NEW m \in S, \A k \in S : m <= k
  PROVE  FirstOf(S) = m
  <1>1. \E x \in S : \A y \in S : x <= y
    OBVIOUS
  <1>2. Min(S) \in S /\ \A y \in S : Min(S) <= y
    BY <1>1 DEF Min
  <1> DEFINE x == Min(S)
  <1>3. x \in Nat /\ m \in Nat /\ x <= m /\ m <= x
    BY <1>2
  <1> HIDE DEF x
  <1>4. x = m
    BY <1>3
  <1> QED BY <1>4 DEF FirstOf, x

\* A place is a line and a drop-in, or 0.
LEMMA PlacesArePairs ==
  ASSUME NEW n \in Nat, NEW D \in SUBSET Nat, NEW S,
         S \subseteq ((1..n) \X {0}) \cup ((1..n) \X D)
  PROVE  S \in SUBSET (Nat \X Nat)
  <1> SUFFICES ASSUME NEW q \in S PROVE q \in Nat \X Nat
    OBVIOUS
  <1>1. q \in (1..n) \X {0} \/ q \in (1..n) \X D
    OBVIOUS
  <1>2. (1..n) \subseteq Nat /\ {0} \subseteq Nat
    OBVIOUS
  <1>3. CASE q \in (1..n) \X {0}
    BY <1>2, <1>3, Zenon
  <1>4. CASE q \in (1..n) \X D
    BY <1>2, <1>4, Zenon
  <1> QED BY <1>1, <1>3, <1>4

\* Among places with a line and a drop-in, the one before all others is Earliest.
LEMMA EarliestIsFirst ==
  ASSUME NEW S \in SUBSET (Nat \X Nat), NEW r \in S, \A q \in S \ {r} : Before(r, q)
  PROVE  Earliest(S) = r
  <1> DEFINE c == Earliest(S)
  <1>1. c \in S /\ \A q \in S \ {c} : Before(c, q)
    BY DEF Earliest
  <1> HIDE DEF c
  <1>2. c = r
    <2> SUFFICES ASSUME c # r PROVE FALSE
      OBVIOUS
    <2>1. Before(c, r) /\ Before(r, c)
      BY <1>1
    <2> QED BY <1>1, <2>1 DEF Before
  <1> QED BY <1>2 DEF c

\* Some places have one before all others: the first drop-in of the first line.
LEMMA EarliestExists ==
  ASSUME NEW S \in SUBSET (Nat \X Nat), S # {}
  PROVE  Earliest(S) \in S /\ \A q \in S \ {Earliest(S)} : Before(Earliest(S), q)
  <1> DEFINE L == {q[1] : q \in S}
  <1>1. L \in SUBSET Nat /\ L # {}
    OBVIOUS
  <1>2. PICK i \in L : \A k \in L : i <= k
    BY <1>1, Least
  <1> DEFINE N == {q[2] : q \in {x \in S : x[1] = i}}
  <1>3. N \in SUBSET Nat /\ N # {}
    BY <1>2
  <1>4. PICK n \in N : \A k \in N : n <= k
    BY <1>3, Least
  <1>5. PICK r \in S : r[1] = i /\ r[2] = n
    BY <1>4
  <1>6. \A q \in S \ {r} : Before(r, q)
    <2> TAKE q \in S \ {r}
    <2>1. q[1] \in L /\ (q[1] = i => q[2] \in N) /\ q = <<q[1], q[2]>> /\ r = <<r[1], r[2]>>
      OBVIOUS
    <2>2. /\ i \in Nat /\ n \in Nat /\ q[1] \in Nat /\ q[2] \in Nat
          /\ i <= q[1] /\ (q[1] = i => n <= q[2]) /\ ~(q[1] = i /\ q[2] = n)
      BY <1>1, <1>2, <1>3, <1>4, <1>5, <2>1
    <2> QED BY <1>5, <2>2 DEF Before
  <1> QED BY <1>5, <1>6, EarliestIsFirst

\* The drop-in the helper renders sets the keyword to the managed file.
LEMMA RendersManaged == find_trusted_user_ca_keys(render_dropin) = Managed
  <1>0. Len(render_dropin) = 3
    BY DEF render_dropin
  <1>1. render_dropin[1].hash = TRUE /\ render_dropin[2].hash = TRUE
    BY DEF render_dropin, Commented, Plain
  <1>2. /\ render_dropin[3].hash = FALSE
        /\ render_dropin[3].kw = "TrustedUserCAKeys"
        /\ render_dropin[3].val = Managed
    BY DEF render_dropin, render_directive, SettingLine, Plain
  <1>3. Settings(render_dropin) = {3}
    BY <1>0, <1>1, <1>2 DEF Settings
  <1>4. Separated(render_dropin) = {3}
    BY <1>2, <1>3 DEF Separated, Managed, Empty
  <1>5. FirstOf({3}) = 3
    BY FirstIsLeast
  <1> QED BY <1>2, <1>4, <1>5 DEF find_trusted_user_ca_keys, Managed, Empty

-----------------------------------------------------------------------------
(* The invariant *)

\* An install writes the managed value, or leaves the drop-ins as they were.
LEMMA InstallOutcomes ==
  ASSUME Types, InstallSshdDropin
  PROVE  /\ main' = main
         /\ \/ /\ includes_dropin_dir(main) /\ answer' = "ok"
               /\ dropin' = [dropin EXCEPT ![Ours] = Managed]
            \/ answer' = "refused" /\ dropin' = dropin
  <1>1. [dropin EXCEPT ![Ours] = PreviousDropin] = dropin
    BY DEF Types, PreviousDropin
  <1> QED BY <1>1, RendersManaged DEF InstallSshdDropin

\* It holds in every reachable state: an install answers for the file as it
\* is, and an edit of the file takes the answer back.
LEMMA ConfigInv == Spec => []CInv
  <1>1. Init => CInv
    BY ConfigAssumption DEF Init, CInv, Types, Answered, Nothing
  <1>2. CInv /\ [Next]_vars => CInv'
    <2> SUFFICES ASSUME CInv, [Next]_vars PROVE CInv'
      OBVIOUS
    <2>0. Ours \in Dropins
      BY ConfigAssumption
    <2>1. CASE InstallSshdDropin
      <3>1. main' = main /\ includes_dropin_dir(main)' = includes_dropin_dir(main)
        BY <2>1 DEF InstallSshdDropin, includes_dropin_dir
      <3>2. CASE /\ includes_dropin_dir(main) /\ answer' = "ok"
                 /\ dropin' = [dropin EXCEPT ![Ours] = Managed]
        BY <2>0, <3>1, <3>2 DEF CInv, Types, Answered
      <3>3. CASE answer' = "refused" /\ dropin' = dropin
        BY <3>1, <3>3 DEF CInv, Types, Answered
      <3> QED BY <2>1, <3>2, <3>3, InstallOutcomes DEF CInv
    <2>2. CASE EditMain
      <3>0. main \in Seq(Lines) /\ Len(main) \in Nat
        BY DEF CInv, Types
      <3>a. ASSUME NEW i \in 1..Len(main) PROVE RemoveAt(main, i) \in Seq(Lines)
        <4>1. SubSeq(main, 1, i - 1) \in Seq(Lines)
          BY <3>0, SubSeqProperties
        <4>2. SubSeq(main, i + 1, Len(main)) \in Seq(Lines)
          BY <3>0, SubSeqProperties
        <4> QED BY <4>1, <4>2 DEF RemoveAt
      <3>1. main' \in Seq(Lines)
        <4>1. CASE \E l \in Lines : main' = Append(main, l)
          BY <3>0, <4>1
        <4>2. CASE \E i \in 1..Len(main) : main' = RemoveAt(main, i)
          BY <3>a, <4>2
        <4> QED BY <2>2, <4>1, <4>2 DEF EditMain
      <3> QED BY <2>2, <3>1 DEF EditMain, CInv, Types, Answered
    <2>3. CASE EditDropin
      <3>0. PICK n \in Dropins, v \in {"site", Nothing} :
                /\ dropin' = [dropin EXCEPT ![n] = v]
                /\ answer' = IF n = Ours THEN "none" ELSE answer
                /\ main' = main
        BY <2>3 DEF EditDropin
      <3>1. includes_dropin_dir(main)' = includes_dropin_dir(main)
        BY <3>0 DEF includes_dropin_dir
      <3>2. dropin' \in [Dropins -> {Managed, "site", Nothing}]
        BY <3>0 DEF CInv, Types
      <3>3. n # Ours => dropin'[Ours] = dropin[Ours]
        BY <2>0, <3>0 DEF CInv, Types
      <3> QED BY <3>0, <3>1, <3>2, <3>3 DEF CInv, Types, Answered
    <2>4. CASE UNCHANGED vars
      <3>1. main' = main /\ answer' = answer /\ dropin' = dropin
            /\ includes_dropin_dir(main)' = includes_dropin_dir(main)
        BY <2>4 DEF vars, includes_dropin_dir
      <3> QED BY <3>1 DEF CInv, Types, Answered
    <2> QED BY <2>1, <2>2, <2>3, <2>4 DEF Next
  <1> QED BY <1>1, <1>2, PTL DEF Spec

-----------------------------------------------------------------------------
(* The theorems *)

\* For files of any length and any number of drop-ins, in whatever state an
\* administrator left them: an install changes what sshd trusts to the managed
\* file or not at all.
THEOREM InstallNeverLoosens == Spec => InstallOnlyManages
  <1>1. CInv /\ [Next]_vars => [InstallSshdDropin => Effective' \in {Effective, Managed}]_vars
    <2> SUFFICES ASSUME CInv, InstallSshdDropin PROVE Effective' \in {Effective, Managed}
      OBVIOUS
    <2>0. main' = main /\ Ours \in Dropins /\ Dropins \subseteq Nat \ {0}
      BY ConfigAssumption, InstallOutcomes DEF CInv
    <2> DEFINE Sets == {<<i, 0>> : i \in {j \in Settings(main) : ~Conditional(j)}}
               Open == {r \in (1..Len(main)) \X Dropins : Reaches(r[1], r[2]) /\ ~Conditional(r[1])}
    <2>a. Reads = Sets \cup {r \in Open : dropin[r[2]] # Nothing}
      BY DEF Reads
    <2>b. Reads' = Sets \cup {r \in Open : dropin'[r[2]] # Nothing}
      BY <2>0 DEF Reads, Settings, Conditional, Reaches
    <2>c. Sets \subseteq (1..Len(main)) \X {0} /\ Open \subseteq (1..Len(main)) \X Dropins
      BY DEF Settings
    <2>d. Len(main) \in Nat
      BY DEF CInv, Types
    <2> HIDE DEF Sets, Open
    <2>1. CASE dropin' = dropin
      <3>1. Reads' = Reads
        BY <2>1, <2>a, <2>b
      <3>2. Effective' = Effective
        BY <2>0, <2>1, <3>1 DEF Effective, ValueAt
      <3> QED BY <3>2
    <2>2. CASE dropin' = [dropin EXCEPT ![Ours] = Managed]
      <3>1. Reads \in SUBSET (Nat \X Nat) /\ Reads' \in SUBSET (Nat \X Nat)
        <4>1. /\ Reads \subseteq ((1..Len(main)) \X {0}) \cup ((1..Len(main)) \X Dropins)
              /\ Reads' \subseteq ((1..Len(main)) \X {0}) \cup ((1..Len(main)) \X Dropins)
          BY <2>a, <2>b, <2>c
        <4> QED BY <2>0, <2>d, <4>1, PlacesArePairs
      <3>2. /\ dropin'[Ours] = Managed
            /\ \A n \in Dropins : n # Ours => dropin'[n] = dropin[n]
        BY <2>0, <2>2 DEF CInv, Types
      <3>3. Reads \subseteq Reads'
        BY <2>a, <2>b, <2>c, <3>2 DEF Managed, Nothing
      <3>4. \A r \in Reads' : r[2] = Ours \/ r \in Reads
        BY <2>a, <2>b, <2>c, <3>2
      <3>5. CASE Reads' = {}
        BY <3>3, <3>5 DEF Effective
      <3>6. CASE Reads' # {}
        <4>1. PICK r \in Reads' : r = Earliest(Reads') /\ \A q \in Reads' \ {r} : Before(r, q)
          BY <3>1, <3>6, EarliestExists
        <4>2. Effective' = IF r[2] = 0 THEN main[r[1]].val ELSE dropin'[r[2]]
          BY <2>0, <3>6, <4>1 DEF Effective, ValueAt
        <4>3. CASE r[2] = Ours
          BY <2>0, <3>2, <4>2, <4>3
        <4>4. CASE r[2] # Ours
          <5>1. r \in Reads /\ \A q \in Reads \ {r} : Before(r, q)
            BY <3>3, <3>4, <4>1, <4>4
          <5>2. Effective = IF r[2] = 0 THEN main[r[1]].val ELSE dropin[r[2]]
            BY <3>1, <5>1, EarliestIsFirst DEF Effective, ValueAt
          <5>3. r[2] = 0 \/ dropin'[r[2]] = dropin[r[2]]
            BY <2>a, <2>c, <3>2, <4>4, <5>1
          <5> QED BY <4>2, <5>2, <5>3
        <4> QED BY <4>3, <4>4
      <3> QED BY <3>5, <3>6
    <2> QED BY <2>1, <2>2, InstallOutcomes DEF CInv
  <1> QED BY <1>1, ConfigInv, PTL DEF Spec, InstallOnlyManages

\* For a file of any length without Include and Match, the value
\* find_trusted_user_ca_keys gives is the one sshd uses.
THEOREM FindsWhatSshdUses == Spec => []FindIsEffective
  <1>1. CInv => FindIsEffective
    <2> SUFFICES ASSUME CInv, SyntaxOk,
                        \A i \in 1..Len(main) : main[i].hash \/ main[i].kw = "TrustedUserCAKeys"
                 PROVE  find_trusted_user_ca_keys(main) = Effective
      BY DEF FindIsEffective
    <2>0. Len(main) \in Nat /\ Settings(main) \subseteq 1..Len(main)
      BY DEF CInv, Types, Settings
    <2>1. Separated(main) = Settings(main)
      BY DEF SyntaxOk, Separated
    <2>2. \A i \in 1..Len(main) : ~Conditional(i) /\ \A n \in Dropins : ~Reaches(i, n)
      BY <2>0 DEF Conditional, Reaches
    <2>3. Reads = {<<i, 0>> : i \in Settings(main)}
      BY <2>0, <2>2 DEF Reads
    <2>4. CASE Settings(main) = {}
      BY <2>1, <2>3, <2>4 DEF find_trusted_user_ca_keys, Effective
    <2>5. CASE Settings(main) # {}
      <3>1. PICK m \in Settings(main) : \A k \in Settings(main) : m <= k
        BY <2>0, <2>5, Least
      <3>2. FirstOf(Settings(main)) = m /\ main[m].val # Empty
        BY <2>0, <3>1, FirstIsLeast DEF SyntaxOk
      <3>3. Effective = ValueAt(<<m, 0>>)
        <4>1. <<m, 0>> \in Reads /\ Reads \in SUBSET (Nat \X Nat)
          BY <2>0, <2>3
        <4>2. \A q \in Reads \ {<<m, 0>>} : Before(<<m, 0>>, q)
          BY <2>0, <2>3, <3>1 DEF Before
        <4> QED BY <4>1, <4>2, EarliestIsFirst DEF Effective
      <3> QED BY <2>1, <2>5, <3>2, <3>3 DEF find_trusted_user_ca_keys, ValueAt
    <2> QED BY <2>4, <2>5
  <1> QED BY <1>1, ConfigInv, PTL

\* For any number of lines and drop-ins: on a plain configuration an install
\* that was answered ok makes sshd trust the managed file.
THEOREM InstallTakesEffect == Spec => []PlainConfigTakesEffect
  <1>1. CInv => PlainConfigTakesEffect
    <2> SUFFICES ASSUME CInv, answer = "ok", ConfiguredDir = DropinDir,
                        \A i \in 1..Len(main) :
                            main[i].hash \/ (main[i].kw = "Include" /\ main[i].file = All),
                        \A n \in Dropins : n < Ours => dropin[n] = Nothing
                 PROVE  Effective = Managed
      BY DEF PlainConfigTakesEffect
    <2>0. Len(main) \in Nat /\ Dropins \subseteq Nat \ {0} /\ Ours \in Dropins
      BY ConfigAssumption DEF CInv, Types
    <2>1. Settings(main) = {} /\ \A i \in 1..Len(main) : ~Conditional(i)
      BY <2>0 DEF Settings, Conditional
    <2> DEFINE Included == {i \in 1..Len(main) : Reaches(i, Ours)}
    <2>2. Included # {} /\ Included \subseteq Nat
      BY <2>0 DEF CInv, Answered, includes_dropin_dir, IsInclude, Reaches
    <2>3. PICK m \in Included : \A k \in Included : m <= k
      BY <2>2, Least
    <2>4. \A q \in Reads : /\ q = <<q[1], q[2]>> /\ q[1] \in Included /\ q[2] \in Dropins
                           /\ dropin[q[2]] # Nothing
      BY <2>0, <2>1 DEF Reads, Reaches
    <2>5. <<m, Ours>> \in Reads
      BY <2>0, <2>1, <2>3 DEF Reads, CInv, Answered, Managed, Nothing
    <2>6. \A q \in Reads \ {<<m, Ours>>} : Before(<<m, Ours>>, q)
      <3> TAKE q \in Reads \ {<<m, Ours>>}
      <3>1. /\ q[1] \in Nat /\ m \in Nat /\ m <= q[1] /\ q[2] \in Nat /\ Ours \in Nat
            /\ ~(q[2] < Ours) /\ ~(q[1] = m /\ q[2] = Ours)
        BY <2>0, <2>2, <2>3, <2>4
      <3> QED BY <3>1 DEF Before
    <2>7. Effective = ValueAt(<<m, Ours>>)
      <3>1. Reads \in SUBSET (Nat \X Nat)
        <4>1. Reads \subseteq ((1..Len(main)) \X {0}) \cup ((1..Len(main)) \X Dropins)
          BY <2>1 DEF Reads
        <4> QED BY <2>0, <4>1, PlacesArePairs
      <3> QED BY <2>5, <2>6, <3>1, EarliestIsFirst DEF Effective
    <2> QED BY <2>0, <2>7 DEF ValueAt, CInv, Answered
  <1> QED BY <1>1, ConfigInv, PTL
=============================================================================
