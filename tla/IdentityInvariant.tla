------------------------- MODULE IdentityInvariant -------------------------
(***************************************************************************)
(* The inductive invariant behind the safety properties of Identity.       *)
(*                                                                         *)
(* The argument: a call that is about to publish, or has been given a      *)
(* token, holds an account that is in the table, and the table has one     *)
(* account per id and per address.  An event that waits or is handled is   *)
(* the event of a token that has not been mailed yet, so the lookup of the *)
(* subscriber finds the account of the call, and finds it once.            *)
(***************************************************************************)
EXTENDS Identity

\* What the fields of a call say at each of its stages.
CallsWellFormed ==
  \A c \in Calls :
    /\ call[c].reply # "none" => call[c].stage = "replied"
    /\ call[c].stage = "save" => call[c].account # Null /\ call[c].account.id = c
    /\ Active(c) \/ Token(c) => /\ call[c].account.email = call[c].email
                                /\ call[c].account.password = call[c].sent
    /\ call[c].stage = "publish" \/ Token(c) => call[c].account \in users

\* The primary key, which register draws afresh, and UNIQUE (email).
AccountsApart ==
  /\ \A u, v \in users : u.id = v.id \/ u.email = v.email => u = v
  /\ \A u \in users : call[u.id].stage \notin {"idle", "save"}

\* An event on its way is that of a token whose mail is still to be sent.
EventsAwaitMail ==
  /\ queued \cap handling = {}
  /\ \A event \in queued \cup handling :
       /\ Token(event.id)
       /\ event = EventOf(event.id)
       /\ mails[event.id] = << >>

MailsFollowTokens ==
  \A c \in Calls :
    mails[c] # << >> => Token(c) /\ mails[c] = <<call[c].email>>

\* What register, login and the subscriber keep true together: accounts are
\* apart, tokens name them, and an event on its way is of a token not yet mailed,
\* whichever store or connection fails and whenever the process stops.
IdentityInv ==
  /\ IdentityTypeOK
  /\ CallsWellFormed
  /\ AccountsApart
  /\ EventsAwaitMail
  /\ MailsFollowTokens
=============================================================================
