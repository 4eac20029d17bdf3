------------------------------ MODULE Identity ------------------------------
(***************************************************************************)
(* The identity context: POST /auth/register (RegisterUserHandler) and     *)
(* POST /auth/login (LoginUserHandler) over the users table, and the       *)
(* subscriber that mails what they publish (IdentityEventsSubscriber).     *)
(*                                                                         *)
(* Awaits that neither read nor write shared state (bcrypt, the read of    *)
(* the seeded roles, the signature of the token) are joined with the call  *)
(* that follows: what they can do is fail, and then so can that call.      *)
(***************************************************************************)
EXTENDS EventBus

CONSTANTS
  Emails,         \* the addresses clients register
  Passwords,      \* the passwords they give
  StoresMayFail   \* TRUE: a call to the database may fail

ASSUME StoresAssumption == StoresMayFail \in BOOLEAN

Roles == {"HOST", "GUEST"}  \* @IsEnum of RegisterDto

\* The rows of the users table.
Accounts == [id : Calls, email : Emails, password : Passwords, role : Roles]

\* null is neither an address nor an account.
ASSUME NullIsNoData == Null \notin Emails /\ Null \notin Accounts

VARIABLES
  users,  \* the users table, the password standing for its hash
  call,   \* the locals of the handler that serves each call
  mails   \* call -> addresses the event of the call was mailed to, in order;
          \* Null for the empty address of a user that is not found

identityVars == <<busVars, users, call, mails>>

-----------------------------------------------------------------------------
Replies == {"TOKEN", "EMAIL_EXISTS", "USER_NOT_FOUND", "INVALID_CREDENTIALS",
            "INTERNAL"}

\* account is the row a register is about to save or has saved, or the row a
\* login has found; sent is the password the client sent.
CallRecords ==
  [op      : {"none", "register", "login"},
   stage   : {"idle", "save", "publish", "replied", "lost"},
   account : Accounts \cup {Null},
   email   : Emails \cup {Null},
   sent    : Passwords \cup {Null},
   reply   : Replies \cup {"none"}]

NoCall == [op |-> "none", stage |-> "idle", account |-> Null, email |-> Null,
           sent |-> Null, reply |-> "none"]

IdentityTypeOK ==
  /\ BusTypeOK
  /\ users \subseteq Accounts
  /\ call \in [Calls -> CallRecords]
  /\ mails \in [Calls -> Seq(Emails \cup {Null})]

Active(c) == call[c].stage \in {"save", "publish"}

WithEmail(email) == {u \in users : u.email = email}

Answer(c, reply) ==
  call' = [call EXCEPT ![c].stage = "replied", ![c].reply = reply]

Begin(c, op, stage, account, email, password, reply) ==
  call' = [call EXCEPT ![c] =
    [op |-> op, stage |-> stage, account |-> account, email |-> email,
     sent |-> password, reply |-> reply]]

-----------------------------------------------------------------------------
(* RegisterUserHandler.execute *)

\* users.findByEmail answers.
StartRegister(c, email, password, role) ==
  LET account == [id |-> c, email |-> email, password |-> password, role |-> role]
  IN /\ channel # "none"
     /\ call[c].stage = "idle"
     /\ \/ /\ WithEmail(email) # {}
           /\ Begin(c, "register", "replied", Null, email, password, "EMAIL_EXISTS")
        \/ /\ WithEmail(email) = {}
           /\ Begin(c, "register", "save", account, email, password, "none")
     /\ UNCHANGED <<busVars, users, mails>>

\* Faulty variant: email is not UNIQUE.
SaveAnyAccount(c) ==
  /\ call[c].stage = "save"
  /\ users' = users \cup {call[c].account}
  /\ call' = [call EXCEPT ![c].stage = "publish"]
  /\ UNCHANGED <<busVars, mails>>

\* Faulty variant: the save replaces the account of the address.
SaveReplacing(c) ==
  /\ call[c].stage = "save"
  /\ users' = (users \ WithEmail(call[c].account.email)) \cup {call[c].account}
  /\ call' = [call EXCEPT ![c].stage = "publish"]
  /\ UNCHANGED <<busVars, mails>>

\* Faulty variant: the handler goes on when the save is refused.
SaveSwallowed(c) ==
  /\ call[c].stage = "save"
  /\ users' = IF WithEmail(call[c].account.email) = {}
              THEN users \cup {call[c].account} ELSE users
  /\ call' = [call EXCEPT ![c].stage = "publish"]
  /\ UNCHANGED <<busVars, mails>>

\* users.save: the INSERT, with email UNIQUE.  No catch: a refusal is INTERNAL,
\* and so is a commit whose outcome is lost with the connection.
SaveAccount(c) ==
  /\ call[c].stage = "save"
  /\ \/ /\ WithEmail(call[c].account.email) = {}
        /\ users' = users \cup {call[c].account}
        /\ \/ call' = [call EXCEPT ![c].stage = "publish"]
           \/ StoresMayFail /\ Answer(c, "INTERNAL")
     \/ /\ WithEmail(call[c].account.email) # {}
        /\ Answer(c, "INTERNAL")
        /\ UNCHANGED users
  /\ UNCHANGED <<busVars, mails>>

-----------------------------------------------------------------------------
(* LoginUserHandler.execute *)

\* users.findByEmail answers, and the password is compared.
StartLogin(c, email, password) ==
  /\ channel # "none"
  /\ call[c].stage = "idle"
  /\ \/ /\ WithEmail(email) = {}
        /\ Begin(c, "login", "replied", Null, email, password, "USER_NOT_FOUND")
     \/ \E user \in WithEmail(email) :
          \/ /\ user.password # password
             /\ Begin(c, "login", "replied", Null, email, password, "INVALID_CREDENTIALS")
          \/ /\ user.password = password
             /\ Begin(c, "login", "publish", user, email, password, "none")
  /\ UNCHANGED <<busVars, users, mails>>

-----------------------------------------------------------------------------
(* The end of both *)

EventOf(c) ==
  [key    |-> IF call[c].op = "register" THEN "identity.user.registered"
              ELSE "identity.user.logged_in",
   id     |-> c,
   userId |-> call[c].account.id]

\* Faulty variant: publish waits for an open channel.
PublishWhenOpen(c) ==
  /\ call[c].stage = "publish"
  /\ Publish(EventOf(c))
  /\ Answer(c, "TOKEN")
  /\ UNCHANGED <<users, mails>>

\* bus.publish, then the answer.  A closed channel throws, after the row of a
\* register has been saved.
PublishAndAnswer(c) ==
  /\ call[c].stage = "publish"
  /\ \/ Publish(EventOf(c)) /\ Answer(c, "TOKEN")
     \/ channel = "closed" /\ Answer(c, "INTERNAL") /\ UNCHANGED busVars
  /\ UNCHANGED <<users, mails>>

\* The awaited call fails without effect.
CallRejected(c) ==
  /\ StoresMayFail
  /\ Active(c)
  /\ Answer(c, "INTERNAL")
  /\ UNCHANGED <<busVars, users, mails>>

-----------------------------------------------------------------------------
(* IdentityEventsSubscriber *)

ProcessEnds ==
  /\ StopProcess
  /\ call' = [c \in Calls |->
                IF Active(c) THEN [call[c] EXCEPT !.stage = "lost"] ELSE call[c]]
  /\ UNCHANGED users

\* Faulty variant: the id of the user is taken for his address.
AddressIsId(userId) == userId

\* What getUserEmail finds.
AddressOf(userId) ==
  IF \E u \in users : u.id = userId
  THEN (CHOOSE u \in users : u.id = userId).email ELSE Null

\* getUserEmail answers: the mail goes out (the mailer never fails) and the
\* event is acknowledged.  On a closed channel ack throws, so does the nack of
\* the catch, and a rejection that nobody handles ends the process.
MailEvent(event) ==
  /\ event \in handling
  /\ mails' = [mails EXCEPT ![event.id] = Append(@, AddressOf(event.userId))]
  /\ \/ Ack(event) /\ UNCHANGED <<users, call>>
     \/ channel = "closed" /\ ProcessEnds

\* getUserEmail fails: it is called outside the try of the subscriber.
LookupFails(event) ==
  /\ StoresMayFail
  /\ event \in handling
  /\ \/ Nack(event) /\ UNCHANGED <<users, call>>
     \/ channel = "closed" /\ ProcessEnds
  /\ UNCHANGED mails

\* The broker's and the connection's steps.
DeliverEvent(event) == Deliver(event) /\ UNCHANGED <<users, call, mails>>

ConnectionStep ==
  (StartProcess \/ LoseConnection) /\ UNCHANGED <<users, call, mails>>

Crash == BrokerMayFail /\ ProcessEnds /\ UNCHANGED mails

-----------------------------------------------------------------------------
(* The specification *)

Init ==
  /\ BusInit
  /\ users = {}
  /\ call = [c \in Calls |-> NoCall]
  /\ mails = [c \in Calls |-> << >>]

Proceed(c) == SaveAccount(c) \/ PublishAndAnswer(c)

Next ==
  \/ \E c \in Calls, email \in Emails, password \in Passwords, role \in Roles :
       StartRegister(c, email, password, role)
  \/ \E c \in Calls, email \in Emails, password \in Passwords :
       StartLogin(c, email, password)
  \/ \E c \in Calls : Proceed(c) \/ CallRejected(c)
  \/ \E event \in Events :
       DeliverEvent(event) \/ MailEvent(event) \/ LookupFails(event)
  \/ ConnectionStep
  \/ Crash

Spec == Init /\ [][Next]_identityVars

\* The handlers and the broker get on with their work.  A lookup that is tried
\* again and again succeeds in the end: the database comes back.
Fairness ==
  /\ \A c \in Calls : WF_identityVars(Proceed(c))
  /\ \A event \in Events :
       /\ WF_identityVars(DeliverEvent(event))
       /\ SF_identityVars(MailEvent(event))

FairSpec == Spec /\ Fairness

-----------------------------------------------------------------------------
(* Safety *)

Token(c) == call[c].reply = "TOKEN"

\* A token names an account that exists, of the address and with the password
\* the client gave, and no other account has that address: also for the winner
\* of two registers that both found the address free.
TokenNamesAccount ==
  \A c \in Calls :
    Token(c) => /\ WithEmail(call[c].email) = {call[c].account}
                /\ call[c].account.password = call[c].sent

\* A mail goes to the owner of the account the event is about, never to the
\* empty address getUserEmail returns for a user that is not there.
MailsReachOwners ==
  \A c \in Calls : \A i \in DOMAIN mails[c] : mails[c][i] = call[c].email

\* Nobody is mailed twice for one register or login, for all that is requeued,
\* redelivered, or cut off between the mail and its ack.
MailedOnce == \A c \in Calls : Len(mails[c]) <= 1

-----------------------------------------------------------------------------
(* Liveness *)

\* The event of an answered register or login is mailed, however often the
\* database fails the subscriber, unless connection or process is lost meanwhile.
AnsweredIsMailed ==
  \A c \in Calls :
    Token(c) /\ EventOf(c) \in queued \cup handling
      ~> (mails[c] # << >> \/ channel # "open")

\* Every call ends, with an answer or with the process: also the calls of a
\* process that has lost its channel and goes on without one.
CallsEnd == \A c \in Calls : Active(c) ~> ~Active(c)

-----------------------------------------------------------------------------
(* The registry the identity context implements *)

Registry ==
  INSTANCE AccountRegistry
    WITH accounts <- users,
         tokens   <- [c \in Calls |-> IF Token(c) THEN call[c].account ELSE Null],
         letters  <- mails

\* Every behaviour of the handlers and the subscriber is one of the registry:
\* accounts stay, with the address and the password they were opened with, each
\* token is for an account that exists when it is given, and a mail follows a
\* token, once, to the address of its account.
ImplementsRegistry == Registry!RegistrySpec

-----------------------------------------------------------------------------
(* What auth.controller.ts says: POST /auth/register answers 400 to a duplicate *)
(* email.  Refuted without any failing call.                                    *)

DuplicateEmailIsBadRequest ==
  \A c \in Calls :
    call[c].op = "register" /\ call[c].stage = "replied"
      => call[c].reply \in {"TOKEN", "EMAIL_EXISTS"}
=============================================================================
