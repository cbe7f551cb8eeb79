---------------------------- MODULE MCProxyLoop ----------------------------
EXTENDS ProxyLoop
=============================================================================
