SPECIFICATION SigSpec
INVARIANT EverySignatureParses
CHECK_DEADLOCK FALSE
