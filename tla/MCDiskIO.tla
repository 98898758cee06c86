------------------------------- MODULE MCDiskIO -------------------------------
(* DiskIO for TLC: a fixed disk and one that comes and goes. *)
EXTENDS DiskIOSampler

CONSTANTS sda, usb
=============================================================================
