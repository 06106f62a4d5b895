--------------------------- MODULE MCObserverBus ---------------------------
(***************************************************************************)
(* Instances of ObserverBus for TLC.                                       *)
(***************************************************************************)
EXTENDS ObserverBus

CONSTANTS p, q

Both == {p, q}
TwoEvents == {"e1", "e2"}

Bus(names, changing, strictly, room) ==
  [named |-> names, change |-> changing, strict |-> strictly, capacity |-> room]

(* Named observers that come and go, over a store with room for everything; *)
(* unnamed ones that stay, over one that has to forget.                     *)
AllSetups == {Bus(TRUE, TRUE, TRUE, 4), Bus(FALSE, FALSE, FALSE, 1)}
=============================================================================
