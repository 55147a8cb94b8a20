------------------------------ MODULE MCAdmission ------------------------------
(* Admission for TLC; each .cfg gives it its addresses, devices and mode.    *)
EXTENDS Admission, TLC

=============================================================================
