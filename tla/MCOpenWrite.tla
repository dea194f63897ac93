---------------------------- MODULE MCOpenWrite ----------------------------
EXTENDS OpenWrite

=============================================================================
