--------------------------- MODULE MCPageResolver ---------------------------
EXTENDS PageResolver, TLC

CONSTANTS a, h0, h1

MCContents == {a}
MCHeaders == {h0, h1}
=============================================================================
