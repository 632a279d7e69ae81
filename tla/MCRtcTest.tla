-------------------------------- MODULE MCRtcTest --------------------------------
(* A register of three whole seconds and a rest, watched over two wraps,    *)
(* and boots whose dates roll over while a line is read, in one field or   *)
(* in all.  A second has three milliseconds, a frame comes every two.      *)
EXTENDS DeviceTest

MCRadix == <<2, 2>>
=================================================================================
