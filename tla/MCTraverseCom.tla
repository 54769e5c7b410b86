----------------------------- MODULE MCTraverseCom ----------------------------
EXTENDS TraverseCom
=============================================================================
