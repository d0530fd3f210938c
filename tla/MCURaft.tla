------------------------------ MODULE MCURaft ------------------------------
EXTENDS URaftElection
=============================================================================
