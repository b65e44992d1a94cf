---------------------------- MODULE MCWriteControls ----------------------------
EXTENDS WriteControlsProperties

\* A charge, standby, a discharge, and one beyond the ratings.
SomeValues == {-1, 0, 1, 2}
BothModels == {{123}, {704, 124}, {123, 704}}

ASSUME ServiceAndEntities == \A ms \in SUBSET {123, 124, 704} : ServiceMatchesEntities(ms)
=============================================================================
