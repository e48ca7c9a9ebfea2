---------------------------- MODULE MCSecp256k1 -----------------------------
EXTENDS Secp256k1

MCBits4 == 0 .. 15
MCG13 == <<4, 3>>
=============================================================================
