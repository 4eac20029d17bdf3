--------------------------- MODULE IdentityProofs ---------------------------
(***************************************************************************)
(* Proofs about the identity context for every set of calls, addresses and *)
(* passwords, with failing stores, a lost connection, crashes and restarts *)
(* or without: type correctness, the safety properties, and that the       *)
(* handlers and the subscriber implement AccountRegistry.                  *)
(***************************************************************************)
EXTENDS IdentityInvariant, TLAPS

-----------------------------------------------------------------------------
(* Type correctness *)

\* The moves of a call keep it a call.
LEMMA CallTypes ==
  ASSUME IdentityTypeOK, NEW c \in Calls
  PROVE  /\ \A reply \in Replies :
              Answer(c, reply) => call' \in [Calls -> CallRecords]
         /\ \A op \in {"register", "login"}, stage \in {"save", "publish", "replied"},
               account \in Accounts \cup {Null}, email \in Emails,
               password \in Passwords, reply \in Replies \cup {"none"} :
              Begin(c, op, stage, account, email, password, reply)
                => call' \in [Calls -> CallRecords]
<1> USE DEF IdentityTypeOK, CallRecords
<1>1. \A reply \in Replies : Answer(c, reply) => call' \in [Calls -> CallRecords]
  <2> TAKE reply \in Replies
  <2>1. [call[c] EXCEPT !.stage = "replied", !.reply = reply] \in CallRecords
    OBVIOUS
  <2> QED
    BY <2>1 DEF Answer
<1>2. \A op \in {"register", "login"}, stage \in {"save", "publish", "replied"},
         account \in Accounts \cup {Null}, email \in Emails,
         password \in Passwords, reply \in Replies \cup {"none"} :
        Begin(c, op, stage, account, email, password, reply)
          => call' \in [Calls -> CallRecords]
  BY DEF Begin
<1> QED
  BY <1>1, <1>2

\* The process ends: calls that were active are lost, all else of them stays.
LEMMA CallsLost ==
  ASSUME IdentityTypeOK, ProcessEnds
  PROVE  /\ call' \in [Calls -> CallRecords]
         /\ \A c \in Calls :
              /\ call'[c] = IF Active(c) THEN [call[c] EXCEPT !.stage = "lost"]
                            ELSE call[c]
              /\ call'[c].op = call[c].op /\ call'[c].account = call[c].account
              /\ call'[c].email = call[c].email /\ call'[c].sent = call[c].sent
              /\ call'[c].reply = call[c].reply
              /\ ~Active(c)'
BY DEF IdentityTypeOK, CallRecords, ProcessEnds, Active

\* An address that is looked up is an address, or Null.
LEMMA AddressTypes ==
  ASSUME IdentityTypeOK, NEW userId
  PROVE  AddressOf(userId) \in Emails \cup {Null}
BY DEF AddressOf, IdentityTypeOK, Accounts

LEMMA TypeOKStep ==
  ASSUME IdentityInv, [Next]_identityVars
  PROVE  IdentityTypeOK'
<1> USE DEF IdentityInv, IdentityTypeOK, BusTypeOK
<1>1. ASSUME NEW c \in Calls, NEW email \in Emails, NEW password \in Passwords,
             NEW role \in Roles, StartRegister(c, email, password, role)
      PROVE  IdentityTypeOK'
  <2>1. [id |-> c, email |-> email, password |-> password, role |-> role] \in Accounts
    BY DEF Accounts
  <2> QED
    BY <1>1, <2>1, CallTypes DEF StartRegister, busVars, Replies
<1>2. ASSUME NEW c \in Calls, NEW email \in Emails, NEW password \in Passwords,
             StartLogin(c, email, password)
      PROVE  IdentityTypeOK'
  <2>1. \A user \in WithEmail(email) : user \in Accounts
    BY DEF WithEmail
  <2> QED
    BY <1>2, <2>1, CallTypes DEF StartLogin, busVars, Replies
<1>3. ASSUME NEW c \in Calls, SaveAccount(c)
      PROVE  IdentityTypeOK'
  <2>1. call[c].account \in Accounts
    BY <1>3 DEF SaveAccount, CallsWellFormed, CallRecords
  <2>2. users' \subseteq Accounts /\ UNCHANGED <<channel, queued, handling, mails>>
    BY <1>3, <2>1 DEF SaveAccount, busVars
  <2>3. CASE call' = [call EXCEPT ![c].stage = "publish"]
    BY <2>2, <2>3 DEF CallRecords
  <2>4. CASE Answer(c, "INTERNAL")
    BY <2>2, <2>4, CallTypes DEF Replies
  <2> QED
    BY <1>3, <2>3, <2>4 DEF SaveAccount
<1>4. ASSUME NEW c \in Calls, PublishAndAnswer(c)
      PROVE  IdentityTypeOK'
  <2>1. EventOf(c) \in Events
    BY <1>4 DEF PublishAndAnswer, CallsWellFormed, EventOf, Events, RoutingKeys,
       Accounts
  <2> QED
    BY <1>4, <2>1, CallTypes DEF PublishAndAnswer, Publish, busVars, Replies
<1>5. ASSUME NEW c \in Calls, CallRejected(c)
      PROVE  IdentityTypeOK'
  BY <1>5, CallTypes DEF CallRejected, busVars, Replies
<1>6. ASSUME NEW event \in Events, DeliverEvent(event)
      PROVE  IdentityTypeOK'
  BY <1>6 DEF DeliverEvent, Deliver
<1>7. ASSUME ProcessEnds, mails' \in [Calls -> Seq(Emails \cup {Null})]
      PROVE  IdentityTypeOK'
  BY <1>7, CallsLost DEF ProcessEnds, StopProcess, QueuesGone
<1>8. ASSUME NEW event \in Events, MailEvent(event)
      PROVE  IdentityTypeOK'
  <2>1. Append(mails[event.id], AddressOf(event.userId)) \in Seq(Emails \cup {Null})
    BY AddressTypes DEF Events
  <2>2. mails' \in [Calls -> Seq(Emails \cup {Null})]
    BY <1>8, <2>1 DEF MailEvent, Events
  <2> QED
    BY <1>7, <1>8, <2>2 DEF MailEvent, Ack
<1>9. ASSUME NEW event \in Events, LookupFails(event)
      PROVE  IdentityTypeOK'
  BY <1>7, <1>9 DEF LookupFails, Nack
<1>10. CASE ConnectionStep
  BY <1>10 DEF ConnectionStep, StartProcess, LoseConnection, QueuesGone
<1>11. CASE Crash
  BY <1>7, <1>11 DEF Crash
<1>12. CASE UNCHANGED identityVars
  BY <1>12 DEF identityVars, busVars
<1>13. ASSUME NEW c \in Calls, Proceed(c)
       PROVE  IdentityTypeOK'
  BY <1>3, <1>4, <1>13 DEF Proceed
<1> QED
  BY <1>1, <1>2, <1>5, <1>6, <1>8, <1>9, <1>10, <1>11, <1>12, <1>13 DEF Next

-----------------------------------------------------------------------------
(* The inductive invariant, action by action *)

\* The invariant but for its types.
StateInv ==
  /\ CallsWellFormed
  /\ AccountsApart
  /\ EventsAwaitMail
  /\ MailsFollowTokens

\* Nobody but c moves, and c is given no token.
NoTokenTo(c) ==
  /\ \A d \in Calls : d # c => call'[d] = call[d]
  /\ ~Token(c)'

\* A call that has no token yet is given none by a step that publishes nothing
\* and leaves the table alone.
LEMMA UntokenedStep ==
  ASSUME IdentityInv, NEW c \in Calls, ~Token(c), NoTokenTo(c),
         UNCHANGED <<queued, handling, users, mails>>,
         \A u \in users : u.id = c => call'[c].stage \notin {"idle", "save"},
         call'[c].reply # "none" => call'[c].stage = "replied",
         call'[c].stage = "save" => call'[c].account # Null /\ call'[c].account.id = c,
         Active(c)' => /\ call'[c].account.email = call'[c].email
                       /\ call'[c].account.password = call'[c].sent,
         call'[c].stage = "publish" => call'[c].account \in users
  PROVE  StateInv'
<1> USE DEF IdentityInv, NoTokenTo
<1>1. \A d \in Calls : d # c => /\ Token(d)' = Token(d) /\ Active(d)' = Active(d)
                                /\ EventOf(d)' = EventOf(d)
  BY DEF Token, Active, EventOf
<1>2. CallsWellFormed'
  BY <1>1 DEF CallsWellFormed
<1>3. AccountsApart'
  BY DEF AccountsApart, IdentityTypeOK, Accounts
<1>4. EventsAwaitMail'
  BY <1>1 DEF EventsAwaitMail, IdentityTypeOK, BusTypeOK, Events
<1>5. MailsFollowTokens'
  BY <1>1 DEF MailsFollowTokens
<1> QED
  BY <1>2, <1>3, <1>4, <1>5 DEF StateInv

LEMMA StartRegisterStep ==
  ASSUME IdentityInv, NEW c \in Calls, NEW email \in Emails,
         NEW password \in Passwords, NEW role \in Roles,
         StartRegister(c, email, password, role)
  PROVE  StateInv'
<1> DEFINE account == [id |-> c, email |-> email, password |-> password, role |-> role]
<1>1. account \in Accounts /\ account # Null
  BY NullIsNoData DEF Accounts
<1>2. \A u \in users : u.id # c
  BY DEF StartRegister, IdentityInv, AccountsApart
<1>3. call[c].stage = "idle" /\ ~Token(c)
  BY DEF StartRegister, IdentityInv, CallsWellFormed, Token
<1>4. UNCHANGED <<queued, handling, users, mails>>
  BY DEF StartRegister, busVars
<1>5. call \in [Calls -> CallRecords]
  BY DEF IdentityInv, IdentityTypeOK
<1>6. CASE Begin(c, "register", "replied", Null, email, password, "EMAIL_EXISTS")
  BY <1>2, <1>3, <1>4, <1>5, <1>6, UntokenedStep DEF Begin, NoTokenTo, Token, Active
<1>7. CASE Begin(c, "register", "save", account, email, password, "none")
  BY <1>1, <1>2, <1>3, <1>4, <1>5, <1>7, UntokenedStep
     DEF Begin, NoTokenTo, Token, Active
<1> QED
  BY <1>6, <1>7 DEF StartRegister

LEMMA StartLoginStep ==
  ASSUME IdentityInv, NEW c \in Calls, NEW email \in Emails,
         NEW password \in Passwords, StartLogin(c, email, password)
  PROVE  StateInv'
<1>1. \A u \in users : u.id # c
  BY DEF StartLogin, IdentityInv, AccountsApart
<1>2. call[c].stage = "idle" /\ ~Token(c)
  BY DEF StartLogin, IdentityInv, CallsWellFormed, Token
<1>3. UNCHANGED <<queued, handling, users, mails>>
  BY DEF StartLogin, busVars
<1>4. call \in [Calls -> CallRecords]
  BY DEF IdentityInv, IdentityTypeOK
<1>5. ASSUME NEW reply \in {"USER_NOT_FOUND", "INVALID_CREDENTIALS"},
             Begin(c, "login", "replied", Null, email, password, reply)
      PROVE  StateInv'
  BY <1>1, <1>2, <1>3, <1>4, <1>5, UntokenedStep DEF Begin, NoTokenTo, Token, Active
<1>6. ASSUME NEW user \in WithEmail(email), user.password = password,
             Begin(c, "login", "publish", user, email, password, "none")
      PROVE  StateInv'
  <2>1. user \in users /\ user.email = email
    BY DEF WithEmail
  <2> QED
    BY <1>1, <1>2, <1>3, <1>4, <1>6, <2>1, UntokenedStep
       DEF Begin, NoTokenTo, Token, Active
<1> QED
  BY <1>5, <1>6 DEF StartLogin

LEMMA CallRejectedStep ==
  ASSUME IdentityInv, NEW c \in Calls, CallRejected(c)
  PROVE  StateInv'
<1>1. ~Token(c) /\ call \in [Calls -> CallRecords]
  BY DEF CallRejected, Active, Token, IdentityInv, CallsWellFormed, IdentityTypeOK
<1>2. call' = [call EXCEPT ![c].stage = "replied", ![c].reply = "INTERNAL"]
  BY DEF CallRejected, Answer
<1>3. /\ \A d \in Calls : d # c => call'[d] = call[d]
      /\ call'[c].stage = "replied" /\ call'[c].reply = "INTERNAL"
  BY <1>1, <1>2 DEF CallRecords
<1> QED
  BY <1>1, <1>3, UntokenedStep DEF CallRejected, busVars, NoTokenTo, Token, Active

LEMMA SaveAccountStep ==
  ASSUME IdentityInv, NEW c \in Calls, SaveAccount(c)
  PROVE  StateInv'
<1> DEFINE account == call[c].account
<1> USE DEF IdentityInv
<1>1. /\ account \in Accounts /\ account.id = c
      /\ account.email = call[c].email /\ account.password = call[c].sent
      /\ call[c].stage = "save" /\ ~Token(c)
      /\ call \in [Calls -> CallRecords]
      /\ \A u \in users : u.id # c
  BY DEF SaveAccount, CallsWellFormed, Active, Token, IdentityTypeOK, CallRecords,
         AccountsApart
<1>2. UNCHANGED <<queued, handling, mails>>
  BY DEF SaveAccount, busVars
<1>3. /\ \A d \in Calls : d # c => call'[d] = call[d]
      /\ call'[c].account = account /\ call'[c].email = call[c].email
      /\ call'[c].sent = call[c].sent
      /\ \/ call'[c].stage = "publish" /\ call'[c].reply = "none"
         \/ call'[c].stage = "replied" /\ call'[c].reply = "INTERNAL"
  <2>1. CASE call' = [call EXCEPT ![c].stage = "publish"]
    BY <1>1, <2>1 DEF CallRecords, CallsWellFormed
  <2>2. CASE Answer(c, "INTERNAL")
    BY <1>1, <2>2 DEF Answer, CallRecords
  <2> QED
    BY <2>1, <2>2 DEF SaveAccount
<1>4. CASE UNCHANGED users /\ Answer(c, "INTERNAL")
  <2>1. call'[c].stage = "replied" /\ call'[c].reply = "INTERNAL"
    BY <1>1, <1>4 DEF Answer, CallRecords
  <2> QED
    BY <1>1, <1>2, <1>3, <1>4, <2>1, UntokenedStep DEF NoTokenTo, Token, Active
<1>5. CASE WithEmail(account.email) = {} /\ users' = users \cup {account}
  <2>1. \A d \in Calls : d # c => /\ Token(d)' = Token(d) /\ Active(d)' = Active(d)
                                  /\ EventOf(d)' = EventOf(d)
    BY <1>3 DEF Token, Active, EventOf
  <2>2. ~Token(c)'
    BY <1>3 DEF Token
  <2>3. CallsWellFormed'
    BY <1>1, <1>3, <1>5, <2>1, <2>2 DEF CallsWellFormed
  <2>4. AccountsApart'
    <3>1. \A u \in users : u.id # account.id /\ u.email # account.email
      BY <1>1, <1>5 DEF WithEmail
    <3>2. \A u \in users' : call'[u.id].stage \notin {"idle", "save"}
      BY <1>1, <1>3, <1>5 DEF AccountsApart, IdentityTypeOK, Accounts
    <3> QED
      BY <1>5, <3>1, <3>2 DEF AccountsApart
  <2>5. EventsAwaitMail'
    BY <1>1, <1>2, <2>1 DEF EventsAwaitMail, IdentityTypeOK, BusTypeOK, Events
  <2>6. MailsFollowTokens'
    BY <1>1, <1>2, <1>3, <2>1 DEF MailsFollowTokens
  <2> QED
    BY <2>3, <2>4, <2>5, <2>6 DEF StateInv
<1> QED
  BY <1>4, <1>5 DEF SaveAccount

LEMMA PublishAndAnswerStep ==
  ASSUME IdentityInv, NEW c \in Calls, PublishAndAnswer(c)
  PROVE  StateInv'
<1> USE DEF IdentityInv
<1>1. /\ call[c].stage = "publish" /\ call[c].account \in users /\ ~Token(c)
      /\ call[c].account.email = call[c].email
      /\ call[c].account.password = call[c].sent
      /\ call \in [Calls -> CallRecords]
      /\ UNCHANGED <<users, mails>>
  BY DEF PublishAndAnswer, CallsWellFormed, Active, Token, IdentityTypeOK
<1>2. CASE Answer(c, "INTERNAL") /\ UNCHANGED busVars
  <2>1. /\ \A d \in Calls : d # c => call'[d] = call[d]
        /\ call'[c].stage = "replied" /\ call'[c].reply = "INTERNAL"
    BY <1>1, <1>2 DEF Answer, CallRecords
  <2> QED
    BY <1>1, <1>2, <2>1, UntokenedStep DEF NoTokenTo, Token, Active, busVars
<1>3. CASE Publish(EventOf(c)) /\ Answer(c, "TOKEN")
  <2>1. /\ \A d \in Calls : d # c => call'[d] = call[d]
        /\ call'[c].stage = "replied" /\ call'[c].reply = "TOKEN"
        /\ call'[c].account = call[c].account /\ call'[c].email = call[c].email
        /\ call'[c].sent = call[c].sent /\ call'[c].op = call[c].op
    BY <1>1, <1>3 DEF Answer, CallRecords
  <2>2. \A d \in Calls : d # c => /\ Token(d)' = Token(d) /\ Active(d)' = Active(d)
    BY <2>1 DEF Token, Active
  <2>3. \A d \in Calls : EventOf(d)' = EventOf(d)
    BY <2>1 DEF EventOf
  <2>4. Token(c)' /\ ~Active(c)'
    BY <2>1 DEF Token, Active
  <2>5. EventOf(c).id = c
    BY DEF EventOf
  <2>6. \A event \in queued \cup handling : event.id \in Calls /\ event.id # c
    BY <1>1 DEF EventsAwaitMail, IdentityTypeOK, BusTypeOK, Events
  <2>7. mails[c] = << >>
    BY <1>1 DEF MailsFollowTokens
  <2>8. CallsWellFormed'
    BY <1>1, <2>1, <2>2, <2>4 DEF CallsWellFormed
  <2>9. AccountsApart'
    BY <1>1, <2>1 DEF AccountsApart, IdentityTypeOK, Accounts
  <2>10. EventsAwaitMail'
    <3>1. queued' = queued \cup {EventOf(c)} /\ handling' = handling
      BY <1>3 DEF Publish
    <3>2. EventOf(c) \notin handling
      BY <2>5, <2>6
    <3>3. \A event \in queued \cup handling :
            Token(event.id)' /\ event = EventOf(event.id)' /\ mails'[event.id] = << >>
      BY <1>1, <2>2, <2>3, <2>6 DEF EventsAwaitMail
    <3> QED
      BY <1>1, <2>3, <2>4, <2>5, <2>7, <3>1, <3>2, <3>3 DEF EventsAwaitMail
  <2>11. MailsFollowTokens'
    BY <1>1, <2>1, <2>2, <2>7 DEF MailsFollowTokens
  <2> QED
    BY <2>8, <2>9, <2>10, <2>11 DEF StateInv
<1> QED
  BY <1>2, <1>3 DEF PublishAndAnswer

\* The subscriber finds the account of the call whose event it handles, and his
\* mail is the first and only one of that call.
LEMMA MailIsRight ==
  ASSUME IdentityInv, NEW event \in Events, MailEvent(event)
  PROVE  /\ Token(event.id) /\ mails[event.id] = << >>
         /\ call[event.id].account \in users
         /\ call[event.id].account.email = call[event.id].email
         /\ mails' = [mails EXCEPT ![event.id] = <<call[event.id].email>>]
<1> DEFINE account == call[event.id].account
<1> USE DEF IdentityInv
<1>1. event \in handling /\ event.id \in Calls
  BY DEF MailEvent, Events
<1>2. Token(event.id) /\ event = EventOf(event.id) /\ mails[event.id] = << >>
  BY <1>1 DEF EventsAwaitMail
<1>3. account \in users /\ account.email = call[event.id].email
  BY <1>1, <1>2 DEF CallsWellFormed
<1>4. event.userId = account.id
  BY <1>2 DEF EventOf
<1>5. \A u \in users : u.id = event.userId => u = account
  BY <1>3, <1>4 DEF AccountsApart
<1>6. AddressOf(event.userId) = call[event.id].email
  BY <1>3, <1>4, <1>5 DEF AddressOf
<1>7. Append(mails[event.id], AddressOf(event.userId)) = <<call[event.id].email>>
  BY <1>2, <1>6
<1> QED
  BY <1>2, <1>3, <1>7 DEF MailEvent

LEMMA ProcessEndsStep ==
  ASSUME IdentityInv, ProcessEnds,
         \A c \in Calls :
           mails'[c] # << >> => Token(c) /\ mails'[c] = <<call[c].email>>
  PROVE  StateInv'
<1> USE DEF IdentityInv
<1>1. queued' = {} /\ handling' = {} /\ users' = users
  BY DEF ProcessEnds, StopProcess, QueuesGone
<1>2. \A c \in Calls : Token(c)' = Token(c)
  BY CallsLost DEF Token
<1>3. CallsWellFormed'
  BY <1>1, <1>2, CallsLost DEF CallsWellFormed, Token, Active
<1>4. AccountsApart'
  <2>1. \A u \in users : u.id \in Calls
    BY DEF IdentityTypeOK, Accounts
  <2>2. \A c \in Calls : call'[c].stage \in {call[c].stage, "lost"}
    BY CallsLost DEF IdentityTypeOK, CallRecords
  <2> QED
    BY <1>1, <2>1, <2>2 DEF AccountsApart
<1>5. EventsAwaitMail'
  BY <1>1 DEF EventsAwaitMail
<1>6. MailsFollowTokens'
  BY <1>2, CallsLost DEF MailsFollowTokens
<1> QED
  BY <1>3, <1>4, <1>5, <1>6 DEF StateInv

\* The bus moves events it has: the events on their way may become fewer.
LEMMA BusStep ==
  ASSUME IdentityInv, UNCHANGED <<users, call, mails>>,
         queued' \cap handling' = {},
         queued' \cup handling' \subseteq queued \cup handling
  PROVE  StateInv'
<1> USE DEF IdentityInv
<1>1. \A c : /\ Token(c)' = Token(c) /\ Active(c)' = Active(c)
             /\ EventOf(c)' = EventOf(c)
  BY DEF Token, Active, EventOf
<1>2. CallsWellFormed' /\ AccountsApart' /\ MailsFollowTokens'
  BY <1>1 DEF CallsWellFormed, AccountsApart, MailsFollowTokens
<1>3. EventsAwaitMail'
  BY <1>1 DEF EventsAwaitMail
<1> QED
  BY <1>2, <1>3 DEF StateInv

LEMMA MailEventStep ==
  ASSUME IdentityInv, NEW event \in Events, MailEvent(event)
  PROVE  StateInv'
<1> USE DEF IdentityInv
<1>1. mails \in [Calls -> Seq(Emails \cup {Null})] /\ event.id \in Calls
  BY DEF IdentityTypeOK, Events
<1>2. \A c \in Calls :
        mails'[c] # << >> => Token(c) /\ mails'[c] = <<call[c].email>>
  BY <1>1, MailIsRight DEF MailsFollowTokens
<1>3. CASE Ack(event) /\ UNCHANGED <<users, call>>
  <2>1. queued' = queued /\ handling' = handling \ {event}
    BY <1>3 DEF Ack
  <2>2. \A c : /\ Token(c)' = Token(c) /\ Active(c)' = Active(c)
               /\ EventOf(c)' = EventOf(c)
    BY <1>3 DEF Token, Active, EventOf
  <2>3. CallsWellFormed' /\ AccountsApart'
    BY <1>3, <2>2 DEF CallsWellFormed, AccountsApart
  <2>4. MailsFollowTokens'
    BY <1>2, <1>3, <2>2 DEF MailsFollowTokens
  <2>5. EventsAwaitMail'
    <3>1. event \in handling /\ event = EventOf(event.id)
      BY DEF MailEvent, EventsAwaitMail
    <3>2. \A other \in queued' \cup handling' : other.id # event.id
      <4>1. \A other \in queued' \cup handling' :
              other \in queued \cup handling /\ other # event
        BY <2>1, <3>1 DEF EventsAwaitMail
      <4> QED
        BY <3>1, <4>1 DEF EventsAwaitMail
    <3>3. \A other \in queued' \cup handling' : mails'[other.id] = << >>
      BY <1>1, <2>1, <3>2, MailIsRight
         DEF EventsAwaitMail, IdentityTypeOK, BusTypeOK, Events
    <3> QED
      BY <2>1, <2>2, <3>3 DEF EventsAwaitMail
  <2> QED
    BY <2>3, <2>4, <2>5 DEF StateInv
<1> QED
  BY <1>2, <1>3, ProcessEndsStep DEF MailEvent

LEMMA InvStep == IdentityInv /\ [Next]_identityVars => IdentityInv'
<1> SUFFICES ASSUME IdentityInv, [Next]_identityVars
             PROVE  StateInv'
  BY TypeOKStep DEF IdentityInv, StateInv
<1>1. ASSUME NEW c \in Calls, Proceed(c) \/ CallRejected(c)
      PROVE  StateInv'
  BY <1>1, SaveAccountStep, PublishAndAnswerStep, CallRejectedStep DEF Proceed
<1>2. ASSUME NEW event \in Events, DeliverEvent(event)
      PROVE  StateInv'
  <2>1. event \in queued /\ queued' = queued \ {event}
        /\ handling' = handling \cup {event} /\ UNCHANGED <<users, call, mails>>
    BY <1>2 DEF DeliverEvent, Deliver
  <2> QED
    BY <2>1, BusStep DEF IdentityInv, EventsAwaitMail
<1>3. ASSUME ProcessEnds, UNCHANGED mails
      PROVE  StateInv'
  BY <1>3, ProcessEndsStep DEF IdentityInv, MailsFollowTokens
<1>4. ASSUME NEW event \in Events, LookupFails(event)
      PROVE  StateInv'
  <2>1. CASE Nack(event) /\ UNCHANGED <<users, call, mails>>
    <3>1. event \in handling /\ queued' = queued \cup {event}
          /\ handling' = handling \ {event}
      BY <1>4, <2>1 DEF LookupFails, Nack
    <3> QED
      BY <2>1, <3>1, BusStep DEF IdentityInv, EventsAwaitMail
  <2> QED
    BY <1>3, <1>4, <2>1 DEF LookupFails
<1>5. CASE ConnectionStep
  <2>1. /\ UNCHANGED <<users, call, mails>> /\ handling' = handling
        /\ queued' = queued \/ queued' = {}
    BY <1>5 DEF ConnectionStep, StartProcess, LoseConnection, QueuesGone
  <2> QED
    BY <2>1, BusStep DEF IdentityInv, EventsAwaitMail
<1>6. CASE Crash
  BY <1>3, <1>6 DEF Crash
<1>7. CASE UNCHANGED identityVars
  BY <1>7, BusStep DEF identityVars, busVars, IdentityInv, EventsAwaitMail
<1> QED
  BY <1>1, <1>2, <1>4, <1>5, <1>6, <1>7, StartRegisterStep, StartLoginStep,
     MailEventStep DEF Next

\* The strengthening behind the theorems below: whatever calls, subscriber and
\* faults interleave, accounts stay apart and events belong to unmailed tokens.
THEOREM IdentityInvariance == Spec => []IdentityInv
<1>1. Init => IdentityInv
  BY DEF Init, BusInit, IdentityInv, IdentityTypeOK, BusTypeOK, CallRecords, NoCall,
         CallsWellFormed, AccountsApart, EventsAwaitMail, MailsFollowTokens, Active,
         Token
<1> QED
  BY <1>1, InvStep, PTL DEF Spec

-----------------------------------------------------------------------------
(* Safety *)

\* The locals of the handlers, the users table, the queues and the mails stay
\* within their types.
THEOREM IdentityTypes == Spec => []IdentityTypeOK
<1>1. IdentityInv => IdentityTypeOK
  BY DEF IdentityInv
<1> QED
  BY <1>1, IdentityInvariance, PTL

\* A token is for the one account of the address its client gave, whichever of
\* two racing registers he sent.
THEOREM TokensNameAccounts == Spec => []TokenNamesAccount
<1>1. IdentityInv => TokenNamesAccount
  BY DEF IdentityInv, CallsWellFormed, AccountsApart, TokenNamesAccount, WithEmail
<1> QED
  BY <1>1, IdentityInvariance, PTL

\* Every mail goes to the address of the call it is about.
THEOREM MailsReachTheirOwners == Spec => []MailsReachOwners
<1>1. IdentityInv => MailsReachOwners
  <2> SUFFICES ASSUME IdentityInv, NEW c \in Calls, NEW i \in DOMAIN mails[c]
               PROVE  mails[c][i] = call[c].email
    BY DEF MailsReachOwners
  <2>1. mails[c] # << >>
    OBVIOUS
  <2>2. mails[c] = <<call[c].email>>
    BY <2>1 DEF IdentityInv, MailsFollowTokens
  <2> QED
    BY <2>2
<1> QED
  BY <1>1, IdentityInvariance, PTL

\* No call is mailed about twice.
THEOREM MailsAreSentOnce == Spec => []MailedOnce
<1>1. IdentityInv => MailedOnce
  <2> SUFFICES ASSUME IdentityInv, NEW c \in Calls
               PROVE  Len(mails[c]) <= 1
    BY DEF MailedOnce
  <2>1. mails[c] = << >> \/ mails[c] = <<call[c].email>>
    BY DEF IdentityInv, MailsFollowTokens
  <2>2. CASE mails[c] = << >>
    BY <2>2
  <2>3. CASE mails[c] = <<call[c].email>>
    BY <2>3
  <2> QED
    BY <2>1, <2>2, <2>3
<1> QED
  BY <1>1, IdentityInvariance, PTL

-----------------------------------------------------------------------------
(* The registry *)

\* The accounts that the tokens of a state are for.
tokensOf == [c \in Calls |-> IF Token(c) THEN call[c].account ELSE Null]

\* Every step of the handlers, the bus and the subscriber is a step of the
\* registry or leaves it alone.
LEMMA RegistryStep ==
  ASSUME IdentityInv, [Next]_identityVars
  PROVE  [Registry!RegistryNext]_(Registry!registryVars)
<1> USE DEF IdentityInv
<1>0. call \in [Calls -> CallRecords]
  BY DEF IdentityTypeOK
<1>1. ASSUME UNCHANGED <<users, mails>>, tokensOf' = tokensOf
      PROVE  UNCHANGED Registry!registryVars
  BY <1>1 DEF Registry!registryVars, tokensOf
<1>2. ASSUME NEW c \in Calls, ~Token(c), NoTokenTo(c)
      PROVE  tokensOf' = tokensOf
  BY <1>2 DEF NoTokenTo, tokensOf, Token
<1>3. ASSUME NEW c \in Calls, NEW email \in Emails, NEW password \in Passwords,
             \/ \E role \in Roles : StartRegister(c, email, password, role)
             \/ StartLogin(c, email, password)
      PROVE  UNCHANGED Registry!registryVars
  <2>1. ~Token(c) /\ UNCHANGED <<users, mails>>
    BY <1>3 DEF StartRegister, StartLogin, CallsWellFormed, Token
  <2>2. NoTokenTo(c)
    BY <1>0, <1>3 DEF StartRegister, StartLogin, Begin, NoTokenTo, Token
  <2> QED
    BY <1>1, <1>2, <2>1, <2>2
<1>4. ASSUME NEW c \in Calls, Active(c), Answer(c, "INTERNAL")
      PROVE  tokensOf' = tokensOf
  <2>1. ~Token(c)
    BY <1>4 DEF Active, CallsWellFormed, Token
  <2>2. NoTokenTo(c)
    BY <1>0, <1>4 DEF Answer, NoTokenTo, Token, CallRecords
  <2> QED
    BY <1>2, <2>1, <2>2
<1>5. ASSUME NEW c \in Calls, SaveAccount(c)
      PROVE  [Registry!RegistryNext]_(Registry!registryVars)
  <2>1. call[c].account \in Accounts /\ Active(c) /\ UNCHANGED mails
    BY <1>0, <1>5 DEF SaveAccount, CallsWellFormed, CallRecords, Active
  <2>2. tokensOf' = tokensOf
    <3>1. CASE call' = [call EXCEPT ![c].stage = "publish"]
      BY <1>0, <3>1 DEF tokensOf, Token, CallRecords
    <3> QED
      BY <1>4, <1>5, <2>1, <3>1 DEF SaveAccount
  <2>3. CASE UNCHANGED users
    BY <1>1, <2>1, <2>2, <2>3
  <2>4. CASE /\ WithEmail(call[c].account.email) = {}
             /\ users' = users \cup {call[c].account}
    <3>1. Registry!OpenAccount(call[c].account)
      BY <2>1, <2>2, <2>4 DEF Registry!OpenAccount, WithEmail, tokensOf
    <3> QED
      BY <2>1, <3>1 DEF Registry!RegistryNext
  <2> QED
    BY <1>5, <2>3, <2>4 DEF SaveAccount
<1>6. ASSUME NEW c \in Calls, PublishAndAnswer(c)
      PROVE  [Registry!RegistryNext]_(Registry!registryVars)
  <2>1. /\ call[c].account \in users /\ ~Token(c) /\ Active(c)
        /\ UNCHANGED <<users, mails>>
    BY <1>6 DEF PublishAndAnswer, CallsWellFormed, Active, Token
  <2>2. CASE Answer(c, "INTERNAL")
    BY <1>1, <1>4, <2>1, <2>2
  <2>3. CASE Answer(c, "TOKEN")
    <3>1. /\ \A d \in Calls : d # c => call'[d] = call[d]
          /\ call'[c].reply = "TOKEN" /\ call'[c].account = call[c].account
      BY <1>0, <2>3 DEF Answer, CallRecords
    <3>2. tokensOf' = [tokensOf EXCEPT ![c] = call[c].account]
      BY <3>1 DEF tokensOf, Token
    <3>3. PICK account \in users : account = call[c].account
      BY <2>1
    <3>4. Registry!GiveToken(c, account)
      BY <2>1, <3>2, <3>3 DEF Registry!GiveToken, tokensOf
    <3> QED
      BY <3>4 DEF Registry!RegistryNext
  <2> QED
    BY <1>6, <2>2, <2>3 DEF PublishAndAnswer
<1>7. ASSUME NEW c \in Calls, CallRejected(c)
      PROVE  UNCHANGED Registry!registryVars
  BY <1>1, <1>4, <1>7 DEF CallRejected
<1>8. ASSUME ProcessEnds
      PROVE  tokensOf' = tokensOf /\ UNCHANGED users
  BY <1>8, CallsLost DEF tokensOf, Token, ProcessEnds
<1>9. ASSUME UNCHANGED call
      PROVE  tokensOf' = tokensOf
  BY <1>9 DEF tokensOf, Token
<1>10. ASSUME NEW event \in Events, MailEvent(event)
       PROVE  Registry!RegistryNext
  <2>1. event.id \in Calls
    BY DEF Events
  <2>2. tokensOf' = tokensOf /\ UNCHANGED users
    BY <1>8, <1>9, <1>10 DEF MailEvent
  <2>3. tokensOf[event.id] = call[event.id].account
    BY <1>10, <2>1, MailIsRight DEF tokensOf
  <2>4. tokensOf[event.id] # Null
    BY <1>10, <2>3, MailIsRight, NullIsNoData DEF IdentityTypeOK
  <2>5. Registry!SendLetter(event.id)
    BY <1>10, <2>2, <2>3, <2>4, MailIsRight DEF Registry!SendLetter, tokensOf
  <2> QED
    BY <2>1, <2>5 DEF Registry!RegistryNext
<1>11. ASSUME NEW event \in Events, DeliverEvent(event) \/ LookupFails(event)
       PROVE  UNCHANGED Registry!registryVars
  BY <1>1, <1>8, <1>9, <1>11 DEF DeliverEvent, LookupFails
<1>12. CASE ConnectionStep \/ Crash \/ UNCHANGED identityVars
  BY <1>1, <1>8, <1>9, <1>12 DEF ConnectionStep, Crash, identityVars
<1> QED
  BY <1>3, <1>5, <1>6, <1>7, <1>10, <1>11, <1>12 DEF Next, Proceed

\* The identity context is a registry: accounts are added one per address,
\* tokens are for accounts there are, and letters follow tokens, once each.
THEOREM IdentityImplementsRegistry == Spec => ImplementsRegistry
<1>1. Init => Registry!RegistryInit
  BY DEF Init, Registry!RegistryInit, NoCall, Token
<1>2. IdentityInv /\ [Next]_identityVars
        => [Registry!RegistryNext]_(Registry!registryVars)
  BY RegistryStep
<1> QED
  BY <1>1, <1>2, IdentityInvariance, PTL
     DEF Spec, ImplementsRegistry, Registry!RegistrySpec
=============================================================================
