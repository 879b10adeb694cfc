\* The Display of every event variant against spec.md 4.3 and 6.
CONSTANTS
    Addr = {1, 2}
    Height = {0, 1}
    Hash = {0, 1}
    Tx = {0, 1}
    Text = {"ping", "connection reset"}
    Cmd = {"ping", "headers"}
    Services = {"ServiceFlags(NETWORK)", "ServiceFlags(NETWORK|COMPACT_FILTERS)"}

SPECIFICATION Spec
INVARIANT RenderMatchesSpec
INVARIANT RenderDeterminesVariant
