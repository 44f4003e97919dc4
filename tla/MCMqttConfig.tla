---------------------------- MODULE MCMqttConfig ----------------------------
(* Two of the seven NVS entries of config_values (address, then user),    *)
(* each with its default and one other value, and two certificates.      *)
EXTENDS MqttConfig, TLC

CONSTANTS address, user, defAddr, newAddr, defUser, newUser

MCEntries == <<address, user>>
MCValues == address :> {defAddr, newAddr} @@ user :> {defUser, newUser}
MCDefault == address :> defAddr @@ user :> defUser
=============================================================================
