------------------------------- MODULE MCDial -------------------------------
(* Dial for TLC.                                                           *)
EXTENDS Dial

\* An error for each return of IsRetryable: the first is that of the failed
\* health check, which is made Retryable; the last is a port that is not mapped.
ErrorClasses == {{"refused"}, {"deadline", "timeout"}, {"timeout"}}

=============================================================================
