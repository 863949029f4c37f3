------------------------------- MODULE MCTty -------------------------------
(* Instances of module Tty for TLC. *)
EXTENDS Tty, TLC

MCGroup == [t \in Tasks |-> 1]
MCTexts == {<<"x", "nl">>, <<"x">>}
Perms   == Permutations(Tasks)
MCModes == {[c_lflag |-> {"ISIG", "ICANON"}, VMIN |-> 1], [c_lflag |-> {}, VMIN |-> 2]}
=============================================================================
