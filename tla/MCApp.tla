------------------------------- MODULE MCApp -------------------------------
EXTENDS Application

CONSTANT scan

MCName == {scan}
MCProvisions == {<<scan>>}
=============================================================================
