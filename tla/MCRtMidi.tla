------------------------------ MODULE MCRtMidi ------------------------------
EXTENDS RtMidi

=============================================================================
