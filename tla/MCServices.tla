----------------------------- MODULE MCServices -----------------------------
EXTENDS Services, TLC
CONSTANTS g1, w1, w2
MCSessionOf == <<"a", "a", "b">>
MCDependencies == (g1 :> {})
=============================================================================
