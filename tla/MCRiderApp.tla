----------------------------- MODULE MCRiderApp -----------------------------
(* A tab of the rider's application over a few rides and addresses.          *)
EXTENDS RiderApp

Tour(faults, calls, devices) == [faults |-> faults, calls |-> calls, devices |-> devices]

\* A feedback call and a fault on a phone, two calls on a desktop.
MCTours == {Tour(1, 1, {TRUE}), Tour(0, 2, {FALSE})}

\* Neither, on a desktop.
MCPlain == {Tour(0, 0, {FALSE})}
=============================================================================
