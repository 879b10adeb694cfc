\* The derived TxStatus order against the order spec.md 4.4 prescribes.
CONSTANTS
    Addr = {1, 2}
    Height = {0, 1}
    Hash = {0, 1}
    Tx = {0, 1}

SPECIFICATION Spec
INVARIANT OrderMatchesSpec
