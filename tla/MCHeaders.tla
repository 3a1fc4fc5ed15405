----------------------------- MODULE MCHeaders -----------------------------
(***************************************************************************)
(* Instances of Headers for TLC: a plain header, content-type and, for the *)
(* splitting, set-cookie, with values that have blanks to be trimmed and   *)
(* commas that do and that do not separate two cookies.                    *)
(***************************************************************************)
EXTENDS Headers, TLC

CONSTANTS h1, h2

MCSymmetry == Permutations({h1, h2})

MCNames == {"content-type", "set-cookie"}
MCValues ==
  ("content-type" :> {<<Blank, "x">>}) @@
  ("set-cookie" :> {<<Equals, Comma, Semicolon, Comma, Equals>>})
MCBodyType == <<"x">>

\* The fields of a received message: two cookies, or a value for each name.
MCReceived ==
  {("content-type" :> <<>> @@ "set-cookie" :> <<<<Equals>>, <<Equals, Comma, Semicolon>>>>),
   ("content-type" :> <<<<"x">>>> @@ "set-cookie" :> <<<<Equals>>>>)}

=============================================================================
