------------------------------ MODULE MCVault -------------------------------
(* Small tables for the checks of Vault. *)
EXTENDS Vault

(* Two agents, two expiries, two limits: any two columns can differ alone. *)
AwarePayloads == [agent : Agent, exp : [aware : {TRUE}, at : {1, 3}], max : {1}]
                 \cup [agent : Agent, exp : [aware : {TRUE}, at : {1}], max : {2}]
=============================================================================
