--------------------------- MODULE RequestPromise ---------------------------
(***************************************************************************)
(* What ride creation promises the rider who sends an Idempotency-Key: a   *)
(* key stands for at most one request and one ride for ever, and every     *)
(* answer sent for the key names exactly that ride.  The promise does not  *)
(* say that an answer is sent.                                             *)
(***************************************************************************)
CONSTANTS Key, Body, Ride, NoKey

VARIABLES
    bound,  \* the pairs of a request and a ride that a key stands for
    sent    \* the answers sent so far

vars == <<bound, sent>>

Init ==
    /\ bound = [k \in Key |-> {}]
    /\ sent = {}

\* The key is given its ride, by a request that may never be answered.
Bind(k, b, r) ==
    /\ bound[k] = {}
    /\ bound' = [bound EXCEPT ![k] = {<<b, r>>}]
    /\ UNCHANGED sent

\* An answer, which gives the key its ride unless it has one.
Reply(k, b, r) ==
    /\ bound[k] \subseteq {<<b, r>>}
    /\ bound' = [bound EXCEPT ![k] = {<<b, r>>}]
    /\ sent' = sent \cup {[key |-> k, body |-> b, ride |-> r]}

\* A request without a key is promised nothing.
ReplyUnkeyed(b, r) ==
    /\ sent' = sent \cup {[key |-> NoKey, body |-> b, ride |-> r]}
    /\ UNCHANGED bound

Next ==
    \E b \in Body, r \in Ride :
        \/ \E k \in Key : Bind(k, b, r) \/ Reply(k, b, r)
        \/ ReplyUnkeyed(b, r)

Spec == Init /\ [][Next]_vars
=============================================================================
