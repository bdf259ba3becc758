---------------------------- MODULE MCMuxerAudio ----------------------------
EXTENDS MuxerAudio
=============================================================================
