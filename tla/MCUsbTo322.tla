----------------------------- MODULE MCUsbTo322 ------------------------------
(***************************************************************************)
(* Two ports with a slot, in place of four, and two without.               *)
(***************************************************************************)
EXTENDS UsbTo322

Ports == << <<"1-1.2">>, <<"1-1.3">> >>
Others == { <<"1-1.1">>, <<"1-1.6">> }
=============================================================================
