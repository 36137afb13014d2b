-------------------------- MODULE MCClientContracts --------------------------
(* The client and the contracts of records share nothing, side by side: a       *)
(* behaviour makes calls, or writes, edits and derives records.                 *)
EXTENDS ApiClient, Contracts

VARIABLE subject    \* which of the two this behaviour does

CONSTANTS c1, c2, k

\* Calls meet in an idempotency key and nowhere else: while the first call is
\* any call, the second is the submission the caller made again.
SecondIsResubmission == call[c2].kind # None => call[c2].key = k

NoRecord == record = (Root :> "{}") /\ contract = "none" /\ edits = 0

ClientContractsInit ==
  /\ Init
  /\ \/ subject = "calls" /\ NoRecord
     \/ subject = "contracts" /\ ContractInit

ClientContractsNext ==
  /\ UNCHANGED subject
  /\ \/ subject = "calls" /\ Next /\ UNCHANGED contractVars
     \/ subject = "contracts" /\ ContractNext /\ UNCHANGED vars

ClientContractsSpec ==
  /\ ClientContractsInit /\ [][ClientContractsNext]_<<subject, vars, contractVars>>
  /\ \A c \in Calls : WF_vars(GiveUp(c)) /\ WF_vars(Retry(c))

\* The contracts agree (Contracts), in the behaviours that write, edit and derive records.
ContractsAgree == subject = "contracts" => ContractsHold
=============================================================================
