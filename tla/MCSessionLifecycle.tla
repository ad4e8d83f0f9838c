-------------------------- MODULE MCSessionLifecycle --------------------------
EXTENDS SessionLifecycle
=============================================================================
