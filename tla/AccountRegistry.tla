--------------------------- MODULE AccountRegistry ---------------------------
(***************************************************************************)
(* What the identity context promises, without handlers, channels or       *)
(* queues: accounts are only ever added, one per address; a token is given *)
(* for an account that exists, to a call that has none yet; and at most    *)
(* one letter is sent for a token, to the address of its account.          *)
(***************************************************************************)
EXTENDS Sequences

CONSTANTS
  Calls,     \* the calls that may be given a token
  Accounts,  \* records with an email
  Null       \* no token

VARIABLES
  accounts,  \* the accounts opened so far
  tokens,    \* call -> the account its token is for, or Null
  letters    \* call -> the addresses of the letters sent for its token

registryVars == <<accounts, tokens, letters>>

RegistryInit ==
  /\ accounts = {}
  /\ tokens = [c \in Calls |-> Null]
  /\ letters = [c \in Calls |-> << >>]

OpenAccount(account) ==
  /\ accounts' = accounts \cup {account}
  /\ \A other \in accounts : other.email # account.email
  /\ UNCHANGED <<tokens, letters>>

GiveToken(c, account) ==
  /\ tokens[c] = Null
  /\ tokens' = [tokens EXCEPT ![c] = account]
  /\ UNCHANGED <<accounts, letters>>

SendLetter(c) ==
  /\ tokens[c] # Null
  /\ letters[c] = << >>
  /\ letters' = [letters EXCEPT ![c] = <<tokens[c].email>>]
  /\ UNCHANGED <<accounts, tokens>>

RegistryNext ==
  \/ \E account \in Accounts : OpenAccount(account)
  \/ \E c \in Calls, account \in accounts : GiveToken(c, account)
  \/ \E c \in Calls : SendLetter(c)

RegistrySpec == RegistryInit /\ [][RegistryNext]_registryVars
=============================================================================
