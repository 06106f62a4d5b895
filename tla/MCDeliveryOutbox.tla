-------------------------- MODULE MCDeliveryOutbox --------------------------
(***************************************************************************)
(* Instances of DeliveryOutbox for TLC.                                    *)
(***************************************************************************)
EXTENDS DeliveryOutbox

here == 1
there == 2
BothTargets == {here, there}

Setup(alive, behind, aims, replaced) ==
  [live |-> alive, background |-> behind, targets |-> aims,
   rewrites |-> replaced]

(* Live objects with turns behind the server's back, while targets switch   *)
(* or the history is replaced; and copies, in any order, without.           *)
AllSetups == {Setup(TRUE, TRUE, BothTargets, 0),
              Setup(TRUE, TRUE, {here}, 1),
              Setup(FALSE, FALSE, {here}, 1)}
=============================================================================
