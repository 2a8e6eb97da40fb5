------------------------------ MODULE MCAccounts ------------------------------
(* SignIn and SigningKeys for TLC.  Which of three instances it is is      *)
(* chosen initially: the tokens of an account without two-step             *)
(* verification, the codes of one whose org may require it, or the keys    *)
(* that sign.                                                              *)
EXTENDS SignIn, SigningKeys

VARIABLE part

(* One session fewer, no reset.                                            *)
Codes == SignInNext /\ reset' = reset /\ session'[MaxSession] = NoSession

AccountsInit ==
  /\ SignInInit /\ KeysInit /\ part \in {"tokens", "codes", "keys"}
  /\ part # "codes" => ~required

AccountsNext ==
  /\ CASE part = "tokens" -> SignInNext /\ required' = required
       [] part = "codes"  -> Codes
       [] part = "keys"   -> KeysNext
  /\ IF part = "keys" THEN UNCHANGED signInVars ELSE UNCHANGED keyVars
  /\ UNCHANGED part

AccountsSpec == AccountsInit /\ [][AccountsNext]_<<signInVars, keyVars, part>>
=============================================================================
