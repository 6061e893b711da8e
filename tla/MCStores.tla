-------------------------------- MODULE MCStores --------------------------------
(***************************************************************************)
(* Instances of the stores that share no state: accounts and the ledgers   *)
(* of users and of organisations.  A behaviour is of one of them, so that  *)
(* their states add up and do not multiply.                                *)
(***************************************************************************)
EXTENDS MCAccounts, UserLedger, OrgLedger

VARIABLE store

allVars == <<vars, ledgerVars, orgVars, store>>

StoresInit ==
  /\ store \in {"accounts", "user ledger", "org ledger"}
  /\ Init /\ LedgerInit /\ OrgInit

StoresNext ==
  /\ UNCHANGED store
  /\ \/ store = "accounts" /\ Next /\ UNCHANGED <<ledgerVars, orgVars>>
     \/ store = "user ledger" /\ LedgerNext /\ UNCHANGED <<vars, orgVars>>
     \/ store = "org ledger" /\ OrgNext /\ UNCHANGED <<vars, ledgerVars>>

StoresSpec == StoresInit /\ [][StoresNext]_allVars

\* Every store is of its type.
StoresTypeOK == TypeOK /\ LedgerTypeOK /\ OrgTypeOK
=============================================================================
