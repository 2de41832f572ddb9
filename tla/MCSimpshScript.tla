--------------------------- MODULE MCSimpshScript ---------------------------
(***************************************************************************)
(* Scripts of up to two lines with up to two commands each, of every kind. *)
(***************************************************************************)
EXTENDS SimpshScript

Lines == UNION {[1..n -> Kind] : n \in 0..2}
MCScripts == UNION {[1..n -> Lines] : n \in 0..2}
MCModes == [file : BOOLEAN, tty : BOOLEAN, forks : BOOLEAN]

MCLists == {<<<<"builtin", "run">>>>, <<<<"pipeline", "run">>>>}
MCTerminal == [file : {TRUE}, tty : {TRUE}, forks : {TRUE}]
=============================================================================
