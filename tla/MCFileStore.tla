------------------------------ MODULE MCFileStore ------------------------------
(***************************************************************************)
(* FileStore for TLC: a bot and a repl on one directory, two entries, one  *)
(* payload, saves that define one entry and that replace one by the other. *)
(***************************************************************************)
EXTENDS FileStore, TLC

CONSTANTS bot, repl, a, b, v, w

MCProcess == {bot, repl}
MCName == {a, b}
MCValue == {v, w}
MCEdits == {a :> w, b :> w, a :> None @@ b :> v}

Symmetry == Permutations(MCProcess)

=============================================================================
