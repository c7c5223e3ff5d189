---------------------------- MODULE MCBgHandoff -----------------------------
\* Instances of BgHandoff for TLC. No symmetry: Served is a liveness property.
EXTENDS BgHandoff
=============================================================================
