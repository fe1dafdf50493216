--------------------------- MODULE MCDevicePlugin ---------------------------
(***************************************************************************)
(* One board whose provider entry lists any subset of SoC IDs 0..7, with   *)
(* the value scaled to 16 bits: 10^4 is the largest exact power of ten,    *)
(* so IDs 1..5 are carried, ID 0 lies below the start bit and IDs 6 and 7  *)
(* overflow, as IDs 0 and 20.. do at 64 bits.                             *)
(***************************************************************************)
EXTENDS DevicePlugin

MCSocIDs == 0..7

=============================================================================
