-------------------------- MODULE MCTemporalCanary --------------------------
(* Instances of TemporalCanary for TLC.  Besides the retryable failure invoke  *)
(* makes of any exception, a delegate may raise one that is not retried.       *)
EXTENDS TemporalCanary

CredentialNotFound == Failure("CREDENTIAL_NOT_FOUND", "CONFIGURATION", FALSE)
Refusals == {CredentialNotFound}
=============================================================================
