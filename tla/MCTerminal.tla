----------------------------- MODULE MCTerminal -----------------------------
(***************************************************************************)
(* Every command, with terminals and without, verbose and not, with and    *)
(* without --skip-confirmation.                                            *)
(***************************************************************************)
EXTENDS Terminal

MCRuns ==
  [command : {"plan", "apply", "destroy"}, in : BOOLEAN, out : BOOLEAN, verbose : BOOLEAN,
   skip : BOOLEAN]
=============================================================================
