----------------------------- MODULE SshdConfig ------------------------------
(***************************************************************************)
(* The drop-in and the configuration it is a part of                       *)
(* (src/src/ssh/sshd_config.rs and ensure_include_present in ops.rs): what *)
(* the helper concludes from the lines of the main sshd_config, against    *)
(* what sshd does with them.  An administrator edits the main file and the *)
(* drop-ins between the helper's installs.                                 *)
(***************************************************************************)
EXTENDS Naturals, SequencesExt

CONSTANTS
    Dropins,      \* the drop-in names of the directory, in lexical order
    Ours,         \* the managed one (90-mayfly.conf)
    DropinPathVar,\* the directory in MAYFLY_HELPER_DROPIN_PATH, Unset without it
    Unset,
    MaxLines      \* bound on the lines of the main file

ASSUME ConfigAssumption ==
    /\ Dropins \subseteq Nat \ {0} /\ Ours \in Dropins
    /\ DropinPathVar \in {"sshd_config.d", "elsewhere", Unset}
    /\ MaxLines \in Nat

DropinDir == "sshd_config.d"    \* DROPIN_DIR
\* OpsConfig: where the drop-in is written.
ConfiguredDir == IF DropinPathVar = Unset THEN DropinDir ELSE DropinPathVar
Managed == "managed"            \* trusted_ca_path
Nothing == "nothing"            \* None: no value
Empty == "empty"                \* the part of a line that is not there

\* A line: a keyword (in any case), what separates it from its value (blanks,
\* or = without any), and the value; or the same behind a #.  An Include has a pattern for a value, of
\* which a directory and a file name matter: All (*.conf) or one drop-in.
All == 0
Plain(kw) == [hash |-> FALSE, kw |-> kw, sep |-> "blank", dir |-> Empty, file |-> All, val |-> Empty]
IncludeLine(s, d, f) == [Plain("Include") EXCEPT !.sep = s, !.dir = d, !.file = f]
SettingLine(s, v) == [Plain("TrustedUserCAKeys") EXCEPT !.sep = s, !.val = v]
MatchLine(v) == [Plain("Match") EXCEPT !.val = v]
Commented(l) == [l EXCEPT !.hash = TRUE]
StockInclude == IncludeLine("blank", DropinDir, All)

Separators == {"blank", "="}
Lines ==
    {IncludeLine(s, d, f) : s \in Separators, d \in {DropinDir, "elsewhere"}, f \in {All} \cup Dropins}
    \cup {SettingLine(s, v) : s \in Separators, v \in {Managed, "site", Empty}}
    \cup {MatchLine(v) : v \in {"all", "some"}}
    \cup {Commented(StockInclude), Commented(SettingLine("blank", "site"))}

VARIABLES
    main,     \* the lines of main_sshd_config
    dropin,   \* what each drop-in of ConfiguredDir sets, Nothing when it is absent
    answer    \* how the last install_sshd_dropin ended, "none" once main or ours has changed

vars == <<main, dropin, answer>>

-----------------------------------------------------------------------------
(* The helper's reading of a configuration *)

\* mutated form: a comment that names the directory counts
AnyMention(l) == l.kw = "Include" /\ l.sep = "blank"
\* The keyword ends at white space: Include=<pattern> is not seen.
IsInclude(l) == ~l.hash /\ l.kw = "Include" /\ l.sep = "blank"

\* Only the directory of a pattern is compared.
includes_dropin_dir(text) ==
    \E i \in 1..Len(text) : IsInclude(text[i]) /\ text[i].dir = DropinDir

Settings(text) == {i \in 1..Len(text) : ~text[i].hash /\ text[i].kw = "TrustedUserCAKeys"}

\* mutated form: the last directive is taken
LastOf(S) == Max(S)
FirstOf(S) == Min(S)

\* A keyword alone on its line is passed over: nothing separates it from a value.
Separated(text) == {i \in Settings(text) : text[i].sep = "=" \/ text[i].val # Empty}

\* The first directive; None when it has no value.
find_trusted_user_ca_keys(text) ==
    IF Separated(text) = {} THEN Nothing
    ELSE LET v == text[FirstOf(Separated(text))].val IN IF v = Empty THEN Nothing ELSE v

render_directive == SettingLine("blank", Managed)
\* Two lines of banner, then the directive.
render_dropin == <<Commented(Plain("Managed")), Commented(Plain("Configures")), render_directive>>

-----------------------------------------------------------------------------
(* sshd's reading of it *)

\* A line below a Match that does not hold for every connection.
Conditional(i) ==
    LET before == {j \in 1..(i-1) : ~main[j].hash /\ main[j].kw = "Match"}
    IN  before # {} /\ main[Max(before)].val # "all"

\* An Include is read whatever its separator.
Reaches(i, n) ==
    /\ ~main[i].hash /\ main[i].kw = "Include"
    /\ main[i].dir = ConfiguredDir
    /\ main[i].file \in {All, n}

\* The places where the keyword is set for every connection, in reading order:
\* a line of main, or a drop-in at the line that includes it.
Reads ==
    {<<i, 0>> : i \in {j \in Settings(main) : ~Conditional(j)}}
    \cup {r \in (1..Len(main)) \X Dropins :
            Reaches(r[1], r[2]) /\ ~Conditional(r[1]) /\ dropin[r[2]] # Nothing}
Before(a, b) == a[1] < b[1] \/ (a[1] = b[1] /\ a[2] < b[2])
ValueAt(r) == IF r[2] = 0 THEN main[r[1]].val ELSE dropin[r[2]]

Earliest(S) == CHOOSE r \in S : \A q \in S \ {r} : Before(r, q)

\* The first value wins.
Effective == IF Reads = {} THEN Nothing ELSE ValueAt(Earliest(Reads))

\* sshd -t: a directive without a value is an error.
SyntaxOk == \A i \in Settings(main) : main[i].val # Empty

-----------------------------------------------------------------------------

Init ==
    /\ main = <<>>
    /\ dropin = [n \in Dropins |-> Nothing]
    /\ answer = "none"

Current == dropin[Ours] = Managed

\* mutated form: the rollback removes the drop-in
RemovedDropin == Nothing
\* rollback_path: the drop-in as it was before the write.
PreviousDropin == dropin[Ours]

\* install_sshd_dropin, as far as the configuration decides it (HelperOps has
\* the rest): ensure_include_present, then nothing more for a drop-in that is
\* current; else the write and sshd -t, or the rollback to what was there.
InstallSshdDropin ==
    /\ \/ /\ includes_dropin_dir(main)
          /\ Current \/ SyntaxOk
          /\ dropin' = [dropin EXCEPT ![Ours] = find_trusted_user_ca_keys(render_dropin)]
          /\ answer' = "ok"
       \/ /\ includes_dropin_dir(main)
          /\ ~Current /\ ~SyntaxOk
          /\ dropin' = [dropin EXCEPT ![Ours] = PreviousDropin]
          /\ answer' = "refused"
       \/ /\ ~includes_dropin_dir(main)
          /\ answer' = "refused"
          /\ UNCHANGED dropin
    /\ UNCHANGED main

\* A line is added at the end or taken out anywhere, an Include the helper has
\* seen among them.
EditMain ==
    /\ \/ Len(main) < MaxLines /\ \E l \in Lines : main' = Append(main, l)
       \/ \E i \in 1..Len(main) : main' = RemoveAt(main, i)
    /\ answer' = "none"
    /\ UNCHANGED dropin

EditDropin ==
    \E n \in Dropins, v \in {"site", Nothing} :
        /\ dropin' = [dropin EXCEPT ![n] = v]
        /\ answer' = IF n = Ours THEN "none" ELSE answer
        /\ UNCHANGED main

Next == InstallSshdDropin \/ EditMain \/ EditDropin

Spec == Init /\ [][Next]_vars

-----------------------------------------------------------------------------
(* Properties *)

\* On a plain configuration an install that was answered ok takes effect: sshd
\* trusts the managed file.  Plain means that nothing sets the keyword before
\* the drop-in is read, nothing is conditional, and every Include is of whole
\* directories (includes_dropin_dir, render_dropin).
PlainConfigTakesEffect ==
    /\ answer = "ok"
    /\ ConfiguredDir = DropinDir
    /\ \A i \in 1..Len(main) :
            main[i].hash \/ (main[i].kw = "Include" /\ main[i].file = All)
    /\ \A n \in Dropins : n < Ours => dropin[n] = Nothing
    => Effective = Managed

\* On a file that has no Include and no Match, find_trusted_user_ca_keys gives the
\* value sshd uses ("sshd applies the *first* matching directive").
FindIsEffective ==
    SyntaxOk /\ (\A i \in 1..Len(main) : main[i].hash \/ main[i].kw = "TrustedUserCAKeys")
        => find_trusted_user_ca_keys(main) = Effective

\* An install changes what sshd trusts to the managed file or not at all: on no
\* configuration, a drop-in edited by hand and a rollback included, does it bring
\* another file into force that was shadowed before (install_sshd_dropin).
InstallOnlyManages ==
    [][InstallSshdDropin => Effective' \in {Effective, Managed}]_vars

-----------------------------------------------------------------------------
(* What the repository's comments say and the code does not do. *)

\* ops.rs on a missing Include: "without it, the drop-in would be inert, which
\* we must not silently accept".
InertNotAccepted ==
    answer = "ok" => \E i \in 1..Len(main) : Reaches(i, Ours) /\ ~Conditional(i)

\* sshd_config.rs on 90-mayfly.conf: "The `90-` prefix orders it late so it
\* takes precedence over earlier drop-ins for the keyword it sets."
ManagedTakesPrecedence ==
    (answer = "ok" /\ main = <<StockInclude>>) => Effective = Managed
=============================================================================
