------------------------------ MODULE MCLoader ------------------------------
EXTENDS Loader

CONSTANTS l1, l2

MCProcs == {l1, l2}

=============================================================================
