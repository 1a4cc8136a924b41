------------------------- MODULE MCCatAutoRecording -------------------------
\* The instance has no definitions of its own: the profiles are model values.
EXTENDS CatAutoRecording
=============================================================================
