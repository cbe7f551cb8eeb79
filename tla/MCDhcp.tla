------------------------------- MODULE MCDhcp -------------------------------
EXTENDS Dhcp
=============================================================================
