------------------------------ MODULE MCServer ------------------------------
EXTENDS ServerProofs

CONSTANTS c1, c2    \* two clients

\* Both modes, with a ReadHandler only or without any handler.
ReadOnlyConfigs == [singlePort : BOOLEAN, registered : {{"RRQ"}, {}}]
=============================================================================
