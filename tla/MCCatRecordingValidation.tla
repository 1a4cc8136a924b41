---------------------- MODULE MCCatRecordingValidation ----------------------
\* The instance has no definitions of its own: artifacts, workers and tokens are
\* model values, without symmetry because WorkEnds is checked with the invariants.
EXTENDS CatRecordingValidation
=============================================================================
