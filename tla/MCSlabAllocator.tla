-------------------------- MODULE MCSlabAllocator --------------------------
EXTENDS SlabAllocator, TLC

CONSTANTS small, big

MCClass == {small, big}
MCSlotCount == small :> 3 @@ big :> 1

=============================================================================
