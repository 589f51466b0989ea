------------------------------ MODULE MCMotors ------------------------------
(* One speed in each direction, and zero. *)
EXTENDS Motors

MCSpeeds == {-1, 0, 1}

=============================================================================
