----------------------------- MODULE MCChannel -----------------------------
EXTENDS CTPChannel
=============================================================================
