--------------------------- MODULE MCScriptLoader ---------------------------
(***************************************************************************)
(* Instances of ScriptLoader for TLC: three files, every pattern of        *)
(* imports between them, and two specifiers for one of the files.          *)
(***************************************************************************)
EXTENDS ScriptLoader, TLC

MCFileOf ==
  ("/main" :> "main.js") @@ ("./a" :> "a.js") @@ ("./b" :> "b.js") @@ ("b" :> "b.js")
=============================================================================
