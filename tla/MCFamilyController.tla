------------------------- MODULE MCFamilyController -------------------------
EXTENDS FamilyController
=============================================================================
