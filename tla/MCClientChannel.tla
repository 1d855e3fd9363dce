--------------------------- MODULE MCClientChannel ---------------------------
(* TLC instances of ClientChannel: the channels are model values that no    *)
(* property tells apart, so safety runs permute them.                       *)
EXTENDS ClientChannel, TLC

Symmetry == Permutations(Chans)
=============================================================================
