----------------------------- MODULE MCEventLog -----------------------------
(* Instances of EventLog for TLC.                                          *)
EXTENDS EventLog

\* The error report interrupt is never masked.
AnyPlace == Places

\* Everywhere but where the pointers of the ring are being reset.
SafePlaces == Places \ {"reset"}
=============================================================================
