---------------------------- MODULE MCAddressEntry ----------------------------
(* A text that finds two places, with and without a space behind it, and the   *)
(* names of the two, one of which the geocoder does not find again.            *)
EXTENDS AddressEntry

MCPlace == {"park", "pier"}
MCLong == MCPlace \cup {"pa"}
MCText == MCLong \cup {"", "pa "}
MCTrim == [t \in MCText |-> IF t = "pa " THEN "pa" ELSE t]
MCFinds == [pa |-> MCPlace, park |-> {"park"}, pier |-> {}]

Tour(phone, keys, faults, visits) == [phone |-> phone, keys |-> keys, faults |-> faults, visits |-> visits]

\* Keys with a fault, and keys with a visit of another page.
MCTours == UNION {{Tour(p, 2, 1, 0), Tour(p, 1, 0, 1)} : p \in BOOLEAN}
=============================================================================
