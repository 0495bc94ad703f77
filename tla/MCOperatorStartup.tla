--------------------------- MODULE MCOperatorStartup ---------------------------
(***************************************************************************)
(* Two instances of the operator, on OpenShift and elsewhere.              *)
(***************************************************************************)
EXTENDS OperatorStartup

\* A configuration for any platform, with AppWrappers and leader election, and
\* three ways to get it wrong; the defaults have none of them, nor a domain.
Full == [DefaultConfig EXCEPT !.domain = "custom", !.appWrapper = TRUE,
                              !.election = "on"]

SomeConfigs ==
    {Full, [Full EXCEPT !.parses = FALSE], [Full EXCEPT !.complete = FALSE],
     [Full EXCEPT !.election = "noTimes"]}
=============================================================================
