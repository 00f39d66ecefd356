----------------------------- MODULE MCTrustedCa -----------------------------
(***************************************************************************)
(* Files for TrustedCa: single characters, an algorithm, a blob, and a     *)
(* whole entry.  The bell is a control character that is not white space,  *)
(* the dash of an algorithm's name is no base64 character.                 *)
(***************************************************************************)
EXTENDS TrustedCa

MCAlgorithms == {<<"a", "-">>}
MCWhitespace == {" ", "\r", "\n"}
MCControl == {"\r", "\n", "bell"}
MCOthers == {"#", "-"} \cup MCWhitespace \cup MCControl
MCPieces ==
    {<<c>> : c \in Bytes \ {"-"}}
        \cup MCAlgorithms
        \cup {<<"a", "a", "a", "a">>, <<"a", "-", " ", "a", "a", "a", "a">>}
=============================================================================
