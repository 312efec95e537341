----------------------------- MODULE Settlement -----------------------------
(***************************************************************************)
(* Turning a payment commitment into money: the payment configuration of a *)
(* relay, the settlement contract it picks (mdrn-cli/src/relay.rs), and    *)
(* what that contract does with a commitment                               *)
(* (mdrn-core/src/payment/settlement.rs).  The contracts are stand-ins for *)
(* chains: a settlement succeeds or fails by its configuration alone, and  *)
(* what it returns depends on the commitment.  Nothing in the programs     *)
(* calls verify_settlement, which is left out.                             *)
(***************************************************************************)
EXTENDS Integers

Method == {"Free", "EvmL2", "Lightning", "Superfluid"}

(* contract: whether settlement_contract is given.                         *)
PaymentConfig == [method : Method, contract : BOOLEAN]

NoConfig == [method |-> "None", contract |-> FALSE]

OnChain == {"EvmL2", "Superfluid"}

(* The contract process_payment_settlement builds; a relay without a       *)
(* payment configuration settles as a free one.                            *)
ContractFor(config) ==
    [method  |-> IF config = NoConfig THEN "Free" ELSE config.method,
     address |-> config.method \in OnChain /\ config.contract]

(* settle_payment returns Ok.                                              *)
Settles(contract) == contract.method = "EvmL2" => contract.address

(* The amount settle_payment returns, with a transaction hash.             *)
SettledAmount(contract, c) == IF contract.method = "Free" THEN 0 ELSE c.amount
=============================================================================
