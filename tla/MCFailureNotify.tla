--------------------------- MODULE MCFailureNotify ---------------------------
(***************************************************************************)
(* Two replicas, two runs of a flow with an address of its own, an owner's *)
(* address and a webhook.                                                  *)
(***************************************************************************)
EXTENDS FailureNotify

TwoMails == <<"flow", "owner">>
==============================================================================
