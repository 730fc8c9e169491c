---------------------------- MODULE MCVerifyLoop ----------------------------
\* VerifyLoop on every map from some of five labels to three checksums.
EXTENDS VerifyLoop
=============================================================================
