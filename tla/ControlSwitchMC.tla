-------------------------- MODULE ControlSwitchMC --------------------------
EXTENDS ControlSwitch, TLC
=============================================================================
