------------------------------- MODULE Calls -------------------------------
(* A caller of pure functions: a call makes one computation on enumerated    *)
(* inputs, possibly in several versions; the answers and the expected one    *)
(* stay until it returns.                                                    *)
VARIABLES call, answers, expected
vars == <<call, answers, expected>>

Idle == [kind |-> "none"]
Init == call = Idle /\ answers = {} /\ expected = <<>>

Returns(c, as, e) == call' = c /\ answers' = as /\ expected' = e
Return == call # Idle /\ call' = Idle /\ answers' = {} /\ expected' = <<>>

Agrees(kinds) == call.kind \in kinds => \A a \in answers : a = expected
=============================================================================
