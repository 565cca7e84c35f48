----------------------- MODULE MCOperatorEventReceipts -----------------------
(* Instances of OperatorEventReceipts for TLC. *)
EXTENDS OperatorEventReceipts, TLC

Symmetry ==
    Permutations(Client) \cup Permutations(EventId) \cup Permutations(ReceiptId)
    \cup Permutations(WatermarkId) \cup Permutations(Instant)
==============================================================================
