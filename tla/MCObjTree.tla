------------------------------ MODULE MCObjTree ------------------------------
EXTENDS ObjTree
MCId == {-1, 0, 5, 6}
=============================================================================
