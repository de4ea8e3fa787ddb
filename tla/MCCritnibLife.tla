--------------------------- MODULE MCCritnibLife ---------------------------
(***************************************************************************)
(* CritnibLife for TLC, with keys of two binary digits.                    *)
(***************************************************************************)
EXTENDS CritnibLife

Key2(n) == [p \in 0 .. 1 |-> (n \div 2^p) % 2]
FourKeys  == {Key2(n) : n \in 0 .. 3}
=============================================================================
