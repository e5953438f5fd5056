----------------------------- MODULE MCCockpit ------------------------------
EXTENDS Cockpit, MCAppThread
=============================================================================
