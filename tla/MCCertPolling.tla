--------------------------- MODULE MCCertPolling ---------------------------
EXTENDS CertPolling, TLC

CONSTANTS peer1, peer2, peer3
=============================================================================
