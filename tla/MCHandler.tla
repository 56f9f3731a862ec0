----------------------------- MODULE MCHandler ------------------------------
(***************************************************************************)
(* Handler on small instances: payloads at and above the limit.             *)
(***************************************************************************)
EXTENDS HandlerProperties, TLC

CONSTANTS atLimit, aboveLimit

MCData == {atLimit, aboveLimit}
MCLength == atLimit :> MAX_DATA_LENGTH @@ aboveLimit :> MAX_DATA_LENGTH + 1

=============================================================================
