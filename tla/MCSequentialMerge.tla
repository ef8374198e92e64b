------------------------- MODULE MCSequentialMerge --------------------------
(***************************************************************************)
(* An endpoint of three backends, counted from 1.  The second one uses     *)
(* Resp1_k1 and Resp1_k2; the third one uses them again, uses Resp1_k3 for *)
(* the first time, and asks for Resp2_k1, for the whole body of the second *)
(* response and for a response that does not exist yet.                    *)
(***************************************************************************)
EXTENDS SequentialMerge

CONSTANTS k1, k2, k3

Uses(b, s) == [backend |-> b, slot |-> s]

MCReplacements ==
    << <<>>,
       <<Uses(1, k1), Uses(1, k2)>>,
       <<Uses(1, k1), Uses(1, k2), Uses(1, k3), Uses(2, k1), Uses(2, Body),
         Uses(3, k1)>> >>

MCNoop == {2}

\* The first backend's k2 is the empty string: the registry does not pin it.
MCBlank == {<<1, k2>>}
=============================================================================
