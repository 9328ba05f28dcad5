--------------------------- MODULE MCBuddyResize ---------------------------
(***************************************************************************)
(* BuddyResize for TLC.                                                    *)
(***************************************************************************)
EXTENDS BuddyResize

\* Growing within an order, by one order and by two; giving back slots within
\* an order.
MCGrowing == {<<2, 3>>, <<2, 5>>, <<3, 4>>, <<3, 7>>, <<4, 6>>, <<5, 6>>, <<5, 7>>,
              <<7, 5>>, <<7, 6>>, <<6, 5>>}

\* The hypothesis of the theorems of BuddyResizeProofs.
ASSUME GrowingKeepsOrder == \A r \in MCGrowing : KeepsOrder(r)

\* Half of the arena is given back.
MCShrinking == {<<4, 2>>, <<2, 4>>, <<8, 4>>, <<4, 8>>}
=============================================================================
