------------------------------- MODULE MCRelay -------------------------------
\* The relay module has one constant, a model value of relay.cfg.
EXTENDS Relay
=============================================================================
