------------------------------ MODULE MCGoLive ------------------------------
\* Two runs, two attempts each, an operator who presses two buttons.
EXTENDS GoLive
=============================================================================
