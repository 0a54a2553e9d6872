----------------------------- MODULE MCWakeQueue -----------------------------
(* WakeQueue with two cookies for three callbacks, so that a cookie is     *)
(* used again while its last owner may still cancel it.                    *)
EXTENDS WakeQueue

CONSTANTS r1, r2, r3
ThreeReasons == {r1, r2, r3}

(* One time is overdue or of the current bucket, one lies ahead. *)
OverdueOrAhead == {0, 3}
=============================================================================
