---- MODULE MCUsbControl ----
(* Instance of UsbControl for TLC. *)
EXTENDS UsbControl
====
