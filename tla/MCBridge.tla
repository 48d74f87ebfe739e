------------------------------ MODULE MCBridge ------------------------------
EXTENDS BridgeProperties
CONSTANTS a, b
Whole == <<a, Erased, b>>
TooLong == <<a, b, a, b, a>>
BothImages == {Whole, TooLong}
=============================================================================
