------------------------------ MODULE MCMetering ------------------------------
(* Small instances of Metering and, in it, of TaskClaim.                      *)
EXTENDS Metering, TLC

Use(metric, api, subject, sound) ==
    [metric |-> metric, api |-> api, subject |-> subject, sound |-> sound]

\* One use per way through the validation; the last four are refused.
UsesDef ==
    {Use("orders", "RecordWithID", "", TRUE),
     Use("orders", "Record", "", TRUE),
     Use("orders", "RecordObservation", "user", TRUE),
     Use("orders", "RecordObservation", "", FALSE),
     Use("infra", "RecordWithID", "", TRUE),
     Use("undeclared", "RecordWithID", "", TRUE)}

=============================================================================
