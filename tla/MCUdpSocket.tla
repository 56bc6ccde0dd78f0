---------------------------- MODULE MCUdpSocket ----------------------------
(***************************************************************************)
(* Model checking of UdpSocket with short queues.                          *)
(***************************************************************************)
EXTENDS UdpSocket
=============================================================================
