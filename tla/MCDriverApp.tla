----------------------------- MODULE MCDriverApp -----------------------------
(* A tab of the driver's application over a few offers.                      *)
EXTENDS DriverApp

=============================================================================
