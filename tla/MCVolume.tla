------------------------------ MODULE MCVolume ------------------------------
EXTENDS VolumeProperties

CONSTANTS Offsets, Lengths

\* Requests given by byte offsets and lengths.
MCRequests == Offsets \X Lengths
=============================================================================
