--------------------------- MODULE AccountsProofs ---------------------------
(***************************************************************************)
(* The account of a wallet, for any number of requests in any order: a     *)
(* deletion is final and nobody is deleted unasked, access ends soon after *)
(* its session, and exports keep their distance.                           *)
(***************************************************************************)
EXTENDS Accounts, TLAPS

(* The age of a timestamp that may be missing.                             *)
Age(limit) == (0..limit) \cup {Never}

Row == [id : Nat, user : Nat, asked : Age(CoolingOff), anonymized : BOOLEAN,
        exported : Age(ExportCooldown), answered : Age(ExportCooldown)]

Call == [op : {"none", "login", "refresh", "ask", "anonymize", "erase", "export", "chain"},
         at : {"new", "ok", "refused", "user", "found", "expired", "read", "fanGone",
               "stamped", "fan"},
         user : Nat, fan : Nat, token : Tokens, waited : Nat, gone : Nat, gap : Nat]

TableTypes ==
  /\ user \in Nat /\ users \in Nat
  /\ sessions \in [Tokens -> [user : Nat, age : Nat]]
  /\ access \in SUBSET [token : Tokens, age : Nat, gone : Nat]
  /\ fan \in Row /\ fans \in Nat
  /\ hasPass \in BOOLEAN /\ hasGift \in BOOLEAN
  /\ creator \in {"none", "plain", "sells"}
  /\ faults \in Nat

(* The rows hang together: foreign keys, ids that are never given out      *)
(* again, and the timestamps of a fan, which come in the order in which    *)
(* they are written.                                                       *)
RowsSound ==
  /\ user <= users /\ fan.id <= fans
  /\ fan = NoFan \/ (fan.id # None /\ user # None /\ fan.user = user)
  /\ \A t \in Tokens : sessions[t].user \in {None, user}
  /\ fan.anonymized => fan.asked # Never
  /\ fan.answered # Never =>
       /\ fan.exported # Never
       /\ fan.exported <= fan.answered + MaxLatency

(* What a request has read, compared with what the rows are now.           *)
CallSound(c) ==
  /\ c.user <= users /\ c.fan <= fans
  /\ c.gone <= c.waited /\ c.waited <= MaxLatency
  /\ c.at \in {"read", "fanGone", "stamped"} \/ c.op = "erase" => c.fan # None
  /\ c.op = "erase" => c.user # None
  /\ c.op = "ask" /\ c.at = "read" /\ c.fan = fan.id =>
       fan.asked = Never \/ fan.asked <= c.waited
  /\ c.op = "anonymize" /\ c.at = "read" /\ c.fan = fan.id => fan.asked # Never
  /\ c.op = "erase" /\ c.at = "read" /\ c.fan = fan.id => CanFinalizeDeletion(fan)
  /\ c.op = "erase" /\ c.at \in {"fanGone", "ok"} => fan.id # c.fan
  /\ c.op = "erase" /\ c.at = "ok" => user # c.user
  /\ c.op = "export" => c.gap + MaxLatency >= ExportCooldown
  /\ c.op = "export" /\ c.at = "stamped" /\ c.fan = fan.id =>
       fan.exported # Never /\ fan.exported <= c.waited

AccessSound ==
  \A k \in access : k.age < AccessTtl /\ k.gone <= k.age + MaxLatency

AccountsInv ==
  /\ TableTypes /\ RowsSound /\ AccessSound
  /\ req \in [Requests -> Call]
  /\ \A r \in Requests : CallSound(req[r])

-----------------------------------------------------------------------------
(* Requests: one of them moves, and the others' readings stay sound.       *)
Kept == \A c \in Call : CallSound(c) => CallSound(c)'

LEMMA RequestStep ==
  ASSUME AccountsInv, NEW r \in Requests, NEW c \in Call,
         req' = [req EXCEPT ![r] = c], CallSound(c)', Kept,
         TableTypes', RowsSound', AccessSound'
  PROVE  AccountsInv'
<1>1. req \in [Requests -> Call]
  BY DEF AccountsInv
<1>2. req' \in [Requests -> Call] /\ req'[r] = c
      /\ \A q \in Requests : q # r => req'[q] = req[q]
  BY <1>1
<1>3. ASSUME NEW q \in Requests PROVE CallSound(req[q])'
  <2>1. PICK d \in Call : d = req'[q]
    BY <1>2
  <2>2. CallSound(d)'
    <3>1. CASE q = r
      BY <1>2, <2>1, <3>1
    <3>2. CASE q # r
      BY <1>2, <2>1, <3>2 DEF AccountsInv, Kept
    <3>3. QED
      BY <3>1, <3>2
  <2>3. QED
    BY <2>1, <2>2
<1>4. QED
  BY <1>2, <1>3 DEF AccountsInv

(* A step that moves no request.                                           *)
LEMMA NoRequestStep ==
  ASSUME AccountsInv, UNCHANGED req, Kept, TableTypes', RowsSound', AccessSound'
  PROVE  AccountsInv'
<1>1. ASSUME NEW q \in Requests PROVE CallSound(req[q])'
  <2>1. PICK d \in Call : d = req[q] /\ d = req'[q]
    BY DEF AccountsInv
  <2>2. CallSound(d)'
    BY <2>1 DEF AccountsInv, Kept
  <2>3. QED
    BY <2>1, <2>2
<1>2. QED
  BY <1>1 DEF AccountsInv

(* An answer that leaves nothing to remember.                              *)
Answers == {[Unused EXCEPT !.at = a] : a \in {"ok", "refused"}}

LEMMA AnswerTypes ==
  ASSUME NEW c \in Answers, TableTypes'
  PROVE  c \in Call /\ CallSound(c)'
<1>1. c \in Call /\ c.op = "none" /\ c.at \in {"ok", "refused"}
      /\ c.user = 0 /\ c.fan = 0 /\ c.waited = 0 /\ c.gone = 0
  BY DEF Answers, Unused, Call, None, Tokens
<1>2. users' \in Nat /\ fans' \in Nat /\ MaxLatency \in Nat
  BY AccountAssumption DEF TableTypes
<1>3. QED
  BY <1>1, <1>2 DEF CallSound

LEMMA AnswerGiven ==
  ASSUME AccountsInv, NEW r \in Requests,
         \/ Throw(r) \/ BeginEnd(r, "ok") \/ Refuse(r)
         \/ Succeed(r) /\ req[r].op \notin {"erase", "export"}
  PROVE  \E c \in Answers : req' = [req EXCEPT ![r] = c]
<1>1. CASE Throw(r)
  BY <1>1 DEF Throw, Answers
<1>2. CASE Succeed(r) /\ req[r].op \notin {"erase", "export"}
  BY <1>2 DEF Succeed, Ended, Answers
<1>3. CASE BeginEnd(r, "ok") \/ Refuse(r)
  <2>1. PICK a \in {"ok", "refused"} : req[r] = Unused /\ req' = [req EXCEPT ![r].at = a]
    BY <1>3 DEF BeginEnd, Refuse
  <2>2. req' = [req EXCEPT ![r] = [Unused EXCEPT !.at = a]]
    BY <2>1
  <2>3. QED
    BY <2>2 DEF Answers
<1>4. QED
  BY <1>1, <1>2, <1>3

LEMMA AnswerStep ==
  ASSUME AccountsInv, NEW r \in Requests,
         \/ Throw(r) \/ BeginEnd(r, "ok") \/ Refuse(r)
         \/ Succeed(r) /\ req[r].op \notin {"erase", "export"},
         Kept, TableTypes', RowsSound', AccessSound'
  PROVE  AccountsInv'
<1>1. PICK c \in Answers : req' = [req EXCEPT ![r] = c]
  BY AnswerGiven
<1>2. c \in Call /\ CallSound(c)'
  BY AnswerTypes
<1>3. QED
  BY <1>1, <1>2, RequestStep

-----------------------------------------------------------------------------
(* What the changes of the rows do to the readings of requests.            *)
LEMMA KeptSame ==
  ASSUME UNCHANGED <<user, users, fan, fans>>
  PROVE  Kept
BY DEF Kept, CallSound, CanFinalizeDeletion

LEMMA KeptByUpserts ==
  ASSUME AccountsInv, user' \in Nat, users' \in Nat, fans' \in Nat,
         (user' = user /\ users' = users) \/ (user' = users + 1 /\ users' = users + 1),
         (fan' = fan /\ fans' = fans) \/ (fan'.id = fans + 1 /\ fans' = fans + 1)
  PROVE  Kept
<1>1. user \in Nat /\ users \in Nat /\ fans \in Nat /\ fan.id \in Nat /\ fan.id <= fans
  BY DEF AccountsInv, TableTypes, RowsSound, Row
<1>2. SUFFICES ASSUME NEW c \in Call, CallSound(c) PROVE CallSound(c)'
  BY DEF Kept
<1>3. c.user \in Nat /\ c.fan \in Nat
  BY DEF Call
<1>4. c.user <= users' /\ c.fan <= fans'
  BY <1>1, <1>2, <1>3 DEF CallSound
<1>5. (user' = user \/ user' > c.user) /\ (fan' = fan \/ fan'.id > c.fan)
  BY <1>1, <1>2, <1>3 DEF CallSound
<1>6. user' = c.user => user = c.user
  BY <1>1, <1>3, <1>5
<1>7. c.fan = fan'.id => fan' = fan
  BY <1>1, <1>3, <1>5
<1>8. QED
  BY <1>2, <1>4, <1>6, <1>7 DEF CallSound, CanFinalizeDeletion

LEMMA KeptByRemoval ==
  ASSUME AccountsInv, fan' = NoFan, fans' = fans, users' = users,
         user' = user \/ user' = None
  PROVE  Kept
<1>1. SUFFICES ASSUME NEW c \in Call, CallSound(c) PROVE CallSound(c)'
  BY DEF Kept
<1>2. fan'.id = None
  BY DEF NoFan
<1>3. QED
  BY <1>1, <1>2 DEF CallSound, CanFinalizeDeletion

LEMMA KeptByEdit ==
  ASSUME AccountsInv,
         UNCHANGED <<user, users, fans>>,
         fan'.id = fan.id, fan'.asked = fan.asked,
         fan'.exported = fan.exported \/ fan'.exported = 0
  PROVE  Kept
<1>1. SUFFICES ASSUME NEW c \in Call, CallSound(c) PROVE CallSound(c)'
  BY DEF Kept
<1>2. c.waited \in Nat
  BY DEF Call
<1>3. QED
  BY <1>1, <1>2 DEF CallSound, CanFinalizeDeletion, Never

-----------------------------------------------------------------------------
(* The steps, one by one.  Those of the session tables first.              *)
LEMMA RowsSame ==
  ASSUME AccountsInv, UNCHANGED <<user, users, sessions, fan, fans>>
  PROVE  RowsSound'
BY DEF AccountsInv, RowsSound

(* The wallet's user row is found or made.                                 *)
LEMMA UserUpserted ==
  ASSUME AccountsInv, UpsertUser
  PROVE  /\ user' \in Nat /\ users' \in Nat /\ user' <= users' /\ user' # None
         /\ (user' = user /\ users' = users) \/ (user' = users + 1 /\ users' = users + 1)
         /\ user # None => user' = user
<1>1. user \in Nat /\ users \in Nat /\ user <= users
  BY DEF AccountsInv, TableTypes, RowsSound
<1>2. CASE user = None
  BY <1>1, <1>2 DEF UpsertUser, None
<1>3. CASE user # None
  BY <1>1, <1>3 DEF UpsertUser
<1>4. QED
  BY <1>2, <1>3

LEMMA LoginUserStep ==
  ASSUME AccountsInv, NEW r \in Requests, LoginUser(r), UNCHANGED <<fanVars, faults>>
  PROVE  AccountsInv'
<1>1. /\ user' \in Nat /\ users' \in Nat /\ user' <= users' /\ user' # None
      /\ (user' = user /\ users' = users) \/ (user' = users + 1 /\ users' = users + 1)
      /\ user # None => user' = user
  BY UserUpserted DEF LoginUser
<1>2. UNCHANGED <<sessions, access, fan, fans, hasPass, hasGift, creator, faults>>
  BY DEF LoginUser, fanVars
<1>3. TableTypes' /\ AccessSound'
  BY <1>1, <1>2 DEF AccountsInv, TableTypes, AccessSound
<1>4. Kept
  <2>1. fans' \in Nat
    BY <1>3 DEF TableTypes
  <2>2. QED
    BY <1>1, <1>2, <2>1, KeptByUpserts
<1>5. RowsSound'
  <2>1. \A t \in Tokens : sessions[t].user \in {None, user}
    BY DEF AccountsInv, RowsSound
  <2>2. \A t \in Tokens : sessions'[t].user \in {None, user'}
    BY <1>1, <1>2, <2>1
  <2>3. QED
    BY <1>1, <1>2, <2>2 DEF AccountsInv, RowsSound
<1>6. PICK c : /\ c = [Unused EXCEPT !.op = "login", !.at = "user", !.user = user']
               /\ req' = [req EXCEPT ![r] = c]
  BY DEF LoginUser, Begin
<1>7. /\ c \in Call /\ c.op = "login" /\ c.at = "user" /\ c.user = user' /\ c.fan = 0
      /\ c.waited = 0 /\ c.gone = 0
  BY <1>1, <1>6 DEF Unused, Call, None, Tokens
<1>8. fans' \in Nat /\ MaxLatency \in Nat
  BY <1>3, AccountAssumption DEF TableTypes
<1>9. CallSound(c)'
  BY <1>1, <1>7, <1>8 DEF CallSound
<1>10. QED
  BY <1>3, <1>4, <1>5, <1>6, <1>7, <1>9, RequestStep

LEMMA SessionEnds ==
  ASSUME AccountsInv, NEW r \in Requests, NEW t \in Tokens,
         sessions' = [sessions EXCEPT ![t] = NoSession],
         UNCHANGED <<user, users, access, fanVars, faults>>,
         Throw(r) \/ BeginEnd(r, "ok")
  PROVE  AccountsInv'
<1>1. sessions' \in [Tokens -> [user : Nat, age : Nat]]
  BY DEF AccountsInv, TableTypes, NoSession, None
<1>2. TableTypes' /\ AccessSound' /\ Kept
  BY <1>1, KeptSame DEF AccountsInv, TableTypes, AccessSound, fanVars
<1>3. \A s \in Tokens : sessions'[s].user \in {None, user}
  BY DEF AccountsInv, TableTypes, RowsSound, NoSession
<1>4. RowsSound'
  BY <1>3 DEF AccountsInv, RowsSound, fanVars
<1>5. QED
  BY <1>2, <1>4, AnswerStep

LEMMA LoginSessionStep ==
  ASSUME AccountsInv, NEW r \in Requests, LoginSession(r), UNCHANGED <<fanVars, faults>>
  PROVE  AccountsInv'
<1>1. req[r] \in Call /\ CallSound(req[r]) /\ r \in Tokens /\ req[r].op = "login"
  BY DEF AccountsInv, LoginSession, Tokens
<1>2. UNCHANGED <<user, users, fan, fans>> /\ Kept
  BY KeptSame DEF LoginSession, fanVars
<1>3. CASE req[r].user = user
  <2>. DEFINE k == [token |-> r, age |-> req[r].waited, gone |-> 0]
              row == [user |-> user, age |-> 0]
  <2>1. /\ sessions' = [sessions EXCEPT ![r] = row]
        /\ access' = {l \in access \union {k} : Accepted(l)}
        /\ Succeed(r)
    BY <1>3 DEF LoginSession
  <2>2. row \in [user : Nat, age : Nat] /\ row.user = user
    BY DEF AccountsInv, TableTypes
  <2>3. k \in [token : Tokens, age : Nat, gone : Nat] /\ k.gone <= k.age + MaxLatency
    BY <1>1, AccountAssumption DEF Call
  <2>. HIDE DEF k, row
  <2>4. TableTypes' /\ AccessSound'
    BY <1>2, <2>1, <2>2, <2>3
       DEF AccountsInv, TableTypes, AccessSound, Accepted, fanVars
  <2>5. \A s \in Tokens : sessions'[s].user \in {None, user}
    BY <1>1, <2>1, <2>2 DEF AccountsInv, TableTypes, RowsSound
  <2>6. RowsSound'
    BY <1>2, <2>5 DEF AccountsInv, RowsSound
  <2>7. QED
    BY <1>1, <1>2, <2>1, <2>4, <2>6, AnswerStep
<1>4. CASE req[r].user # user
  <2>1. Throw(r) /\ UNCHANGED <<sessions, access>>
    BY <1>4 DEF LoginSession
  <2>2. TableTypes' /\ AccessSound' /\ RowsSound'
    BY <1>2, <2>1, RowsSame DEF AccountsInv, TableTypes, AccessSound, fanVars
  <2>3. QED
    BY <1>2, <2>1, <2>2, AnswerStep
<1>5. QED
  BY <1>3, <1>4

LEMMA RefreshUserStep ==
  ASSUME AccountsInv, NEW r \in Requests, RefreshUser(r), UNCHANGED <<fanVars, faults>>
  PROVE  AccountsInv'
<1>1. req[r] \in Call /\ CallSound(req[r]) /\ req[r].op = "refresh"
  BY DEF AccountsInv, RefreshUser
<1>2. UNCHANGED <<user, users, sessions, fan, fans>> /\ Kept /\ RowsSound'
  BY KeptSame, RowsSame DEF RefreshUser, fanVars
<1>3. CASE req[r].user = user
  <2>. DEFINE k == [token |-> req[r].token, age |-> 0, gone |-> req[r].gone]
  <2>1. access' = access \union {k} /\ Succeed(r)
    BY <1>3 DEF RefreshUser
  <2>2. /\ k \in [token : Tokens, age : Nat, gone : Nat]
        /\ k.age < AccessTtl /\ k.gone <= k.age + MaxLatency
    BY <1>1, AccountAssumption DEF Call, CallSound
  <2>. HIDE DEF k
  <2>3. TableTypes' /\ AccessSound'
    BY <1>2, <2>1, <2>2 DEF AccountsInv, TableTypes, AccessSound, fanVars
  <2>4. QED
    BY <1>1, <1>2, <2>1, <2>3, AnswerStep
<1>4. CASE req[r].user # user
  <2>1. Throw(r) /\ UNCHANGED access
    BY <1>4 DEF RefreshUser
  <2>2. TableTypes' /\ AccessSound'
    BY <1>2, <2>1 DEF AccountsInv, TableTypes, AccessSound, fanVars
  <2>3. QED
    BY <1>2, <2>1, <2>2, AnswerStep
<1>5. QED
  BY <1>3, <1>4

LEMMA RefreshReadStep ==
  ASSUME AccountsInv, NEW r \in Requests, NEW t \in Tokens, RefreshRead(r, t),
         UNCHANGED <<fanVars, faults>>
  PROVE  AccountsInv'
<1>1. /\ UNCHANGED <<user, users, sessions, access, fan, fans>> /\ Kept /\ RowsSound'
      /\ TableTypes' /\ AccessSound'
  BY KeptSame, RowsSame DEF RefreshRead, fanVars, AccountsInv, TableTypes, AccessSound
<1>2. CASE Refuse(r)
  BY <1>1, <1>2, AnswerStep
<1>3. ASSUME NEW c \in Call, req' = [req EXCEPT ![r] = c], c.op = "refresh",
             c.at \in {"found", "expired"}, c.user <= users, c.fan = 0,
             c.waited = 0, c.gone = 0
      PROVE  AccountsInv'
  <2>1. fans \in Nat /\ MaxLatency \in Nat
    BY AccountAssumption DEF AccountsInv, TableTypes
  <2>2. CallSound(c)'
    BY <1>1, <1>3, <2>1 DEF CallSound
  <2>3. QED
    BY <1>1, <1>3, <2>2, RequestStep
<1>4. CASE Live(t) /\ Begin(r, Found(t))
  <2>1. Gone(t, 0) = 0
    BY <1>4 DEF Gone
  <2>2. sessions[t].user \in Nat /\ sessions[t].user <= users
    BY DEF AccountsInv, TableTypes, RowsSound, None
  <2>3. PICK c : /\ c = [Unused EXCEPT !.op = "refresh", !.at = "found", !.token = t,
                                      !.user = sessions[t].user, !.gone = 0]
                 /\ req' = [req EXCEPT ![r] = c]
    BY <1>4, <2>1 DEF Begin, Found
  <2>4. /\ c \in Call /\ c.op = "refresh" /\ c.at = "found" /\ c.user = sessions[t].user
        /\ c.fan = 0 /\ c.waited = 0 /\ c.gone = 0
    BY <2>2, <2>3 DEF Unused, Call, None
  <2>5. QED
    BY <1>3, <2>2, <2>3, <2>4
<1>5. CASE Begin(r, [Unused EXCEPT !.op = "refresh", !.at = "expired", !.token = t])
  <2>1. PICK c : /\ c = [Unused EXCEPT !.op = "refresh", !.at = "expired", !.token = t]
                 /\ req' = [req EXCEPT ![r] = c]
    BY <1>5 DEF Begin
  <2>2. /\ c \in Call /\ c.op = "refresh" /\ c.at = "expired" /\ c.user = 0
        /\ c.fan = 0 /\ c.waited = 0 /\ c.gone = 0
    BY <2>1 DEF Unused, Call, None
  <2>3. c.user <= users
    BY <2>2 DEF AccountsInv, TableTypes
  <2>4. QED
    BY <1>3, <2>1, <2>2, <2>3
<1>6. QED
  BY <1>2, <1>4, <1>5 DEF RefreshRead

-----------------------------------------------------------------------------
(* The steps of the fan row.                                               *)
LEMMA QuietRows ==
  ASSUME AccountsInv, UNCHANGED <<sessionVars, fanVars>>, faults' \in Nat
  PROVE  Kept /\ TableTypes' /\ RowsSound' /\ AccessSound'
<1>1. /\ UNCHANGED <<user, users, sessions, access>>
      /\ UNCHANGED <<fan, fans, hasPass, hasGift, creator>>
  BY DEF sessionVars, fanVars
<1>2. Kept /\ RowsSound'
  BY <1>1, KeptSame, RowsSame
<1>3. TableTypes' /\ AccessSound'
  BY <1>1 DEF AccountsInv, TableTypes, AccessSound
<1>4. QED
  BY <1>2, <1>3

(* A request that begins with what it reads of the fan row.                *)
LEMMA BeginStep ==
  ASSUME AccountsInv, NEW r \in Requests, UNCHANGED <<sessionVars, fanVars, faults>>,
         NEW c \in Call, Begin(r, c), CallSound(c)
  PROVE  AccountsInv'
<1>1. Kept /\ TableTypes' /\ RowsSound' /\ AccessSound'
  BY QuietRows DEF AccountsInv, TableTypes
<1>2. CallSound(c)'
  BY <1>1 DEF Kept
<1>3. QED
  BY <1>1, <1>2, RequestStep DEF Begin

LEMMA QuietStep ==
  ASSUME AccountsInv, NEW r \in Requests, UNCHANGED <<sessionVars, fanVars>>, faults' \in Nat,
         \/ Throw(r) \/ BeginEnd(r, "ok") \/ Refuse(r)
         \/ Succeed(r) /\ req[r].op \notin {"erase", "export"}
  PROVE  AccountsInv'
BY QuietRows, AnswerStep

(* Nothing read yet: what every new request has in common.                 *)
LEMMA FanIsTyped ==
  ASSUME AccountsInv
  PROVE  /\ fan \in Row /\ fan.id <= fans /\ fans \in Nat /\ users \in Nat /\ user \in Nat
         /\ fan # NoFan => fan.id # None /\ fan.user = user /\ user # None /\ fan.user <= users
         /\ MaxLatency \in Nat /\ faults \in Nat
BY AccountAssumption DEF AccountsInv, TableTypes, RowsSound

LEMMA AskDeletionStep ==
  ASSUME AccountsInv, NEW r \in Requests, AskDeletion(r)
  PROVE  AccountsInv'
<1>1. UNCHANGED <<sessionVars, fanVars, faults>> /\ faults' \in Nat
  BY FanIsTyped DEF AskDeletion
<1>2. CASE Refuse(r)
  BY <1>1, <1>2, QuietStep
<1>3. CASE ~ Refuse(r)
  <2>1. PICK c : c = [Unused EXCEPT !.op = "ask", !.at = "read", !.fan = fan.id]
    OBVIOUS
  <2>2. fan # NoFan /\ fan.asked = Never /\ Begin(r, c)
    BY <1>3, <2>1 DEF AskDeletion
  <2>3. /\ c \in Call /\ c.op = "ask" /\ c.at = "read" /\ c.fan = fan.id /\ c.user = 0
        /\ c.waited = 0 /\ c.gone = 0
    BY <2>1, FanIsTyped DEF Unused, Call, None, Tokens, Row
  <2>4. CallSound(c)
    BY <2>2, <2>3, FanIsTyped DEF CallSound
  <2>5. QED
    BY <1>1, <2>2, <2>3, <2>4, BeginStep
<1>4. QED
  BY <1>2, <1>3

LEMMA AnonymizeReadStep ==
  ASSUME AccountsInv, NEW r \in Requests, AnonymizeRead(r)
  PROVE  AccountsInv'
<1>1. UNCHANGED <<sessionVars, fanVars, faults>> /\ faults' \in Nat
  BY FanIsTyped DEF AnonymizeRead
<1>2. CASE Refuse(r) \/ BeginEnd(r, "ok")
  BY <1>1, <1>2, QuietStep
<1>3. CASE ~ Refuse(r) /\ ~ BeginEnd(r, "ok")
  <2>1. PICK c : c = [Unused EXCEPT !.op = "anonymize", !.at = "read", !.fan = fan.id]
    OBVIOUS
  <2>2. fan # NoFan /\ fan.asked # Never /\ Begin(r, c)
    BY <1>3, <2>1 DEF AnonymizeRead
  <2>3. /\ c \in Call /\ c.op = "anonymize" /\ c.at = "read" /\ c.fan = fan.id /\ c.user = 0
        /\ c.waited = 0 /\ c.gone = 0
    BY <2>1, FanIsTyped DEF Unused, Call, None, Tokens, Row
  <2>4. CallSound(c)
    BY <2>2, <2>3, FanIsTyped DEF CallSound
  <2>5. QED
    BY <1>1, <2>2, <2>3, <2>4, BeginStep
<1>4. QED
  BY <1>2, <1>3

LEMMA EraseReadStep ==
  ASSUME AccountsInv, NEW r \in Requests, EraseRead(r)
  PROVE  AccountsInv'
<1>1. UNCHANGED <<sessionVars, fanVars, faults>> /\ faults' \in Nat
  BY FanIsTyped DEF EraseRead
<1>2. CASE Refuse(r)
  BY <1>1, <1>2, QuietStep
<1>3. CASE ~ Refuse(r)
  <2>1. PICK c : c = [Unused EXCEPT !.op = "erase", !.at = "read", !.fan = fan.id, !.user = fan.user]
    OBVIOUS
  <2>2. fan # NoFan /\ CanFinalizeDeletion(fan) /\ Begin(r, c)
    BY <1>3, <2>1 DEF EraseRead
  <2>3. /\ c \in Call /\ c.op = "erase" /\ c.at = "read" /\ c.fan = fan.id /\ c.user = fan.user
        /\ c.waited = 0 /\ c.gone = 0
    BY <2>1, FanIsTyped DEF Unused, Call, None, Tokens, Row
  <2>4. CallSound(c)
    BY <2>2, <2>3, FanIsTyped DEF CallSound
  <2>5. QED
    BY <1>1, <2>2, <2>3, <2>4, BeginStep
<1>4. QED
  BY <1>2, <1>3

(* Who may ask for an export had none answered lately.                     *)
LEMMA ExportReadStep ==
  ASSUME AccountsInv, NEW r \in Requests, ExportRead(r)
  PROVE  AccountsInv'
<1>1. UNCHANGED <<sessionVars, fanVars, faults>> /\ faults' \in Nat
  BY FanIsTyped DEF ExportRead
<1>2. CASE Refuse(r)
  BY <1>1, <1>2, QuietStep
<1>3. CASE ~ Refuse(r)
  <2>1. PICK c : c = [Unused EXCEPT !.op = "export", !.at = "read", !.fan = fan.id, !.gap = fan.answered]
    OBVIOUS
  <2>2. fan # NoFan /\ (fan.exported = Never \/ fan.exported >= ExportCooldown) /\ Begin(r, c)
    BY <1>3, <2>1 DEF ExportRead
  <2>3. fan.answered \in Nat /\ fan.exported \in Nat /\ Never = 99 /\ Never \in Nat
    BY FanIsTyped, AccountAssumption DEF Row, Age, Never
  <2>4. /\ c \in Call /\ c.op = "export" /\ c.at = "read" /\ c.fan = fan.id /\ c.user = 0
        /\ c.waited = 0 /\ c.gone = 0 /\ c.gap = fan.answered
    BY <2>1, <2>3, FanIsTyped DEF Unused, Call, None, Tokens, Row
  <2>5. c.gap + MaxLatency >= ExportCooldown
    <3>1. CASE fan.answered = Never
      BY <2>3, <2>4, <3>1, AccountAssumption
    <3>2. CASE fan.answered # Never
      <4>1. fan.exported # Never /\ fan.exported <= fan.answered + MaxLatency
        BY <3>2 DEF AccountsInv, RowsSound
      <4>2. QED
        BY <2>2, <2>3, <2>4, <4>1, AccountAssumption
    <3>3. QED
      BY <3>1, <3>2
  <2>6. CallSound(c)
    BY <2>2, <2>4, <2>5, FanIsTyped DEF CallSound
  <2>7. QED
    BY <1>1, <2>2, <2>4, <2>6, BeginStep
<1>4. QED
  BY <1>2, <1>3

(* The fan row is changed in place.                                        *)
LEMMA FanEdited ==
  ASSUME AccountsInv, fan' \in Row, fan'.id = fan.id, fan'.user = fan.user, fan' # NoFan,
         fan # NoFan, fan'.anonymized => fan'.asked # Never,
         fan'.answered # Never =>
           fan'.exported # Never /\ fan'.exported <= fan'.answered + MaxLatency,
         UNCHANGED <<sessionVars, fans, hasPass, hasGift, creator, faults>>
  PROVE  TableTypes' /\ RowsSound' /\ AccessSound'
<1>1. UNCHANGED <<user, users, sessions, access>>
  BY DEF sessionVars
<1>2. TableTypes' /\ AccessSound'
  BY <1>1 DEF AccountsInv, TableTypes, AccessSound
<1>3. RowsSound'
  BY <1>1 DEF AccountsInv, RowsSound
<1>4. QED
  BY <1>2, <1>3

(* A request that holds the id of the fan row holds that of a row.         *)
LEMMA HoldsFan ==
  ASSUME AccountsInv, NEW r \in Requests, fan.id = req[r].fan, req[r].fan # None
  PROVE  fan # NoFan
BY DEF NoFan

(* Asking again late in a transaction does not shorten the wait of a       *)
(* deletion: the other request has asked within this one's latency.        *)
LEMMA AskCommitStep ==
  ASSUME AccountsInv, NEW r \in Requests, AskCommit(r)
  PROVE  AccountsInv'
<1>1. req[r] \in Call /\ CallSound(req[r]) /\ req[r].op = "ask" /\ req[r].at = "read"
  BY DEF AccountsInv, AskCommit
<1>2. CASE fan.id = req[r].fan
  <2>1. fan' = [fan EXCEPT !.asked = 0] /\ Succeed(r)
        /\ UNCHANGED <<sessionVars, fans, hasPass, hasGift, creator, faults>>
    BY <1>2 DEF AskCommit
  <2>2. fan # NoFan /\ fan \in Row /\ fan.id # None
    BY <1>1, <1>2, HoldsFan, FanIsTyped DEF CallSound
  <2>3. /\ fan' \in Row /\ fan'.id = fan.id /\ fan'.user = fan.user
        /\ fan'.asked = 0 /\ fan'.exported = fan.exported /\ fan'.answered = fan.answered
        /\ fan' # NoFan
    BY <2>1, <2>2, AccountAssumption DEF Row, Age, NoFan, None
  <2>4. TableTypes' /\ RowsSound' /\ AccessSound'
    BY <2>1, <2>2, <2>3, FanEdited DEF Never, AccountsInv, RowsSound
  <2>5. fan.asked = Never \/ fan.asked <= MaxLatency
    <3>1. fan.asked = Never \/ fan.asked <= req[r].waited
      BY <1>1, <1>2 DEF CallSound
    <3>2. req[r].waited <= MaxLatency /\ req[r].waited \in Nat
      BY <1>1 DEF CallSound, Call
    <3>3. QED
      BY <2>2, <3>1, <3>2, AccountAssumption DEF Row, Age, Never
  <2>6. ~ CanFinalizeDeletion(fan)
    BY <2>2, <2>5, AccountAssumption DEF CanFinalizeDeletion, Row, Age, Never
  <2>7. UNCHANGED <<user, users, fans>>
    BY <2>1 DEF sessionVars
  <2>8. Kept
    <3>1. SUFFICES ASSUME NEW c \in Call, CallSound(c) PROVE CallSound(c)'
      BY DEF Kept
    <3>2. c.waited \in Nat /\ 0 # Never
      BY DEF Call, Never
    <3>3. QED
      BY <2>3, <2>6, <2>7, <3>1, <3>2 DEF CallSound
  <2>9. QED
    BY <1>1, <2>1, <2>4, <2>8, AnswerStep
<1>3. CASE fan.id # req[r].fan
  <2>1. Throw(r) /\ UNCHANGED <<sessionVars, fanVars>> /\ faults' \in Nat
    BY <1>3, FanIsTyped DEF AskCommit, fanVars
  <2>2. QED
    BY <2>1, QuietStep
<1>4. QED
  BY <1>2, <1>3

LEMMA AnonymizeWriteStep ==
  ASSUME AccountsInv, NEW r \in Requests, AnonymizeWrite(r)
  PROVE  AccountsInv'
<1>1. req[r] \in Call /\ CallSound(req[r]) /\ req[r].op = "anonymize" /\ req[r].at = "read"
  BY DEF AccountsInv, AnonymizeWrite
<1>2. CASE fan.id = req[r].fan
  <2>1. fan' = [fan EXCEPT !.anonymized = TRUE] /\ Succeed(r)
        /\ UNCHANGED <<sessionVars, fans, hasPass, hasGift, creator, faults>>
    BY <1>2 DEF AnonymizeWrite
  <2>2. fan # NoFan /\ fan \in Row /\ fan.id # None /\ fan.asked # Never
    BY <1>1, <1>2, HoldsFan, FanIsTyped DEF CallSound
  <2>3. /\ fan' \in Row /\ fan'.id = fan.id /\ fan'.user = fan.user /\ fan'.asked = fan.asked
        /\ fan'.exported = fan.exported /\ fan'.answered = fan.answered
        /\ fan' # NoFan
    BY <2>1, <2>2 DEF Row, NoFan
  <2>4. fan'.answered # Never =>
          fan'.exported # Never /\ fan'.exported <= fan'.answered + MaxLatency
    BY <2>3 DEF AccountsInv, RowsSound
  <2>5. TableTypes' /\ RowsSound' /\ AccessSound'
    BY <2>1, <2>2, <2>3, <2>4, FanEdited
  <2>6. Kept
    BY <2>1, <2>3, KeptByEdit DEF sessionVars
  <2>7. QED
    BY <1>1, <2>1, <2>5, <2>6, AnswerStep
<1>3. CASE fan.id # req[r].fan
  <2>1. Throw(r) /\ UNCHANGED <<sessionVars, fanVars>> /\ faults' \in Nat
    BY <1>3, FanIsTyped DEF AnonymizeWrite, fanVars
  <2>2. QED
    BY <2>1, QuietStep
<1>4. QED
  BY <1>2, <1>3

LEMMA NoFanIsRow == NoFan \in Row /\ NoFan.id = None /\ NoFan.answered = Never /\ ~ NoFan.anonymized
BY AccountAssumption DEF NoFan, Row, Age, None

LEMMA EraseFanStep ==
  ASSUME AccountsInv, NEW r \in Requests, EraseFan(r)
  PROVE  AccountsInv'
<1>1. req[r] \in Call /\ CallSound(req[r]) /\ req[r].op = "erase" /\ req[r].at = "read"
  BY DEF AccountsInv, EraseFan
<1>2. CASE fan.id = req[r].fan /\ ~hasPass
  <2>1. /\ fan' = NoFan /\ hasGift' = FALSE /\ Goto(r, "fanGone")
        /\ UNCHANGED <<user, users, sessions, access, fans, hasPass, creator, faults>>
    BY <1>2 DEF EraseFan, sessionVars
  <2>2. TableTypes' /\ AccessSound'
    BY <2>1, NoFanIsRow DEF AccountsInv, TableTypes, AccessSound
  <2>3. RowsSound'
    BY <2>1, NoFanIsRow, FanIsTyped DEF AccountsInv, RowsSound, None
  <2>4. Kept
    BY <2>1, KeptByRemoval
  <2>5. PICK c : c = [req[r] EXCEPT !.at = "fanGone"]
    OBVIOUS
  <2>6. /\ c \in Call /\ c.op = "erase" /\ c.at = "fanGone" /\ c.user = req[r].user
        /\ c.fan = req[r].fan /\ c.waited = req[r].waited /\ c.gone = req[r].gone
    BY <1>1, <2>5 DEF Call
  <2>7. req' = [req EXCEPT ![r] = c]
    BY <2>1, <2>5 DEF Goto
  <2>8. CallSound(c)'
    BY <1>1, <2>1, <2>6, NoFanIsRow DEF CallSound
  <2>9. QED
    BY <2>2, <2>3, <2>4, <2>6, <2>7, <2>8, RequestStep
<1>3. CASE ~ (fan.id = req[r].fan /\ ~hasPass)
  <2>1. Throw(r) /\ UNCHANGED <<sessionVars, fanVars>> /\ faults' \in Nat
    BY <1>3, FanIsTyped DEF EraseFan, fanVars
  <2>2. QED
    BY <2>1, QuietStep
<1>4. QED
  BY <1>2, <1>3

LEMMA EraseUserStep ==
  ASSUME AccountsInv, NEW r \in Requests, EraseUser(r)
  PROVE  AccountsInv'
<1>1. req[r] \in Call /\ CallSound(req[r]) /\ req[r].op = "erase" /\ req[r].at = "fanGone"
  BY DEF AccountsInv, EraseUser
<1>2. CASE user = req[r].user /\ ~hasPass /\ creator # "sells"
  <2>1. /\ user' = None /\ sessions' = WithoutUser(user)
        /\ fan' = NoFan /\ hasGift' = FALSE /\ creator' = "none" /\ Succeed(r)
        /\ UNCHANGED <<users, access, fans, hasPass, faults>>
    BY <1>2 DEF EraseUser
  <2>2. sessions' \in [Tokens -> [user : Nat, age : Nat]]
    <3>1. sessions' = [t \in Tokens |-> IF sessions[t].user = user THEN NoSession ELSE sessions[t]]
      BY <2>1 DEF WithoutUser
    <3>2. NoSession \in [user : Nat, age : Nat]
      BY DEF NoSession, None
    <3>3. \A t \in Tokens : sessions[t] \in [user : Nat, age : Nat]
      BY DEF AccountsInv, TableTypes
    <3>4. QED
      BY <3>1, <3>2, <3>3
  <2>3. TableTypes' /\ AccessSound'
    BY <2>1, <2>2, NoFanIsRow DEF AccountsInv, TableTypes, AccessSound, None
  <2>4. \A t \in Tokens : sessions'[t].user = None
    BY <2>1 DEF WithoutUser, NoSession, AccountsInv, RowsSound
  <2>5. RowsSound'
    BY <2>1, <2>4, NoFanIsRow, FanIsTyped DEF RowsSound, None
  <2>6. Kept
    BY <2>1, KeptByRemoval
  <2>7. PICK c : c = Ended(req[r].op, req[r])
    OBVIOUS
  <2>8. /\ c \in Call /\ c.op = "erase" /\ c.at = "ok" /\ c.user = req[r].user
        /\ c.fan = req[r].fan /\ c.waited = 0 /\ c.gone = 0
    BY <1>1, <2>7 DEF Ended, Unused, Call, Tokens, None
  <2>9. CallSound(c)'
    BY <1>1, <2>1, <2>8, NoFanIsRow, FanIsTyped DEF CallSound
  <2>10. QED
    BY <2>1, <2>3, <2>5, <2>6, <2>7, <2>8, <2>9, RequestStep DEF Succeed
<1>3. CASE ~ (user = req[r].user /\ ~hasPass /\ creator # "sells")
  <2>1. Throw(r) /\ UNCHANGED <<sessionVars, fanVars>> /\ faults' \in Nat
    BY <1>3, FanIsTyped DEF EraseUser, fanVars, sessionVars
  <2>2. QED
    BY <2>1, QuietStep
<1>4. QED
  BY <1>2, <1>3

LEMMA ExportStampStep ==
  ASSUME AccountsInv, NEW r \in Requests, ExportStamp(r)
  PROVE  AccountsInv'
<1>1. req[r] \in Call /\ CallSound(req[r]) /\ req[r].op = "export" /\ req[r].at = "read"
  BY DEF AccountsInv, ExportStamp
<1>2. CASE fan.id = req[r].fan
  <2>1. fan' = [fan EXCEPT !.exported = 0] /\ Goto(r, "stamped")
        /\ UNCHANGED <<sessionVars, fans, hasPass, hasGift, creator, faults>>
    BY <1>2 DEF ExportStamp
  <2>2. fan # NoFan /\ fan \in Row /\ fan.id # None
    BY <1>1, <1>2, HoldsFan, FanIsTyped DEF CallSound
  <2>3. /\ fan' \in Row /\ fan'.id = fan.id /\ fan'.user = fan.user /\ fan'.asked = fan.asked
        /\ fan'.exported = 0 /\ fan'.answered = fan.answered /\ fan'.anonymized = fan.anonymized
        /\ fan' # NoFan
    BY <2>1, <2>2, AccountAssumption DEF Row, Age, NoFan, None
  <2>4. fan'.answered # Never =>
          fan'.exported # Never /\ fan'.exported <= fan'.answered + MaxLatency
    BY <2>2, <2>3, AccountAssumption DEF Row, Age, Never
  <2>5. fan'.anonymized => fan'.asked # Never
    BY <2>3 DEF AccountsInv, RowsSound
  <2>6. TableTypes' /\ RowsSound' /\ AccessSound'
    BY <2>1, <2>2, <2>3, <2>4, <2>5, FanEdited
  <2>7. Kept
    BY <2>1, <2>3, KeptByEdit DEF sessionVars
  <2>8. PICK c : c = [req[r] EXCEPT !.at = "stamped"]
    OBVIOUS
  <2>9. /\ c \in Call /\ c.op = "export" /\ c.at = "stamped" /\ c.user = req[r].user
        /\ c.fan = req[r].fan /\ c.waited = req[r].waited /\ c.gone = req[r].gone /\ c.gap = req[r].gap
    BY <1>1, <2>8 DEF Call
  <2>10. req' = [req EXCEPT ![r] = c]
    BY <2>1, <2>8 DEF Goto
  <2>11. /\ user' = user /\ users' = users /\ fans' = fans /\ c.waited \in Nat
    BY <2>1, <2>9 DEF Call, sessionVars
  <2>12. CallSound(c)'
    BY <1>1, <2>3, <2>9, <2>11 DEF CallSound, Never
  <2>13. QED
    BY <2>6, <2>7, <2>9, <2>10, <2>12, RequestStep
<1>3. CASE fan.id # req[r].fan
  <2>1. Throw(r) /\ UNCHANGED <<sessionVars, fanVars>> /\ faults' \in Nat
    BY <1>3, FanIsTyped DEF ExportStamp, fanVars
  <2>2. QED
    BY <2>1, QuietStep
<1>4. QED
  BY <1>2, <1>3

(* The answer comes at most one latency after the timestamp, so that the   *)
(* timestamp tells how long ago it was, up to that.                        *)
LEMMA ExportAnswerStep ==
  ASSUME AccountsInv, NEW r \in Requests, ExportAnswer(r)
  PROVE  AccountsInv'
<1>1. req[r] \in Call /\ CallSound(req[r]) /\ req[r].op = "export" /\ req[r].at = "stamped"
  BY DEF AccountsInv, ExportAnswer
<1>2. Succeed(r) /\ UNCHANGED <<sessionVars, fans, hasPass, hasGift, creator, faults>>
  BY DEF ExportAnswer
<1>3. Kept /\ TableTypes' /\ RowsSound' /\ AccessSound'
      /\ fan'.id = fan.id
  <2>1. CASE fan.id = req[r].fan
    <3>1. fan' = [fan EXCEPT !.answered = 0]
      BY <2>1 DEF ExportAnswer
    <3>2. fan # NoFan /\ fan \in Row /\ fan.id # None
      BY <1>1, <2>1, HoldsFan, FanIsTyped DEF CallSound
    <3>3. /\ fan' \in Row /\ fan'.id = fan.id /\ fan'.user = fan.user /\ fan'.asked = fan.asked
          /\ fan'.exported = fan.exported /\ fan'.answered = 0 /\ fan'.anonymized = fan.anonymized
          /\ fan' # NoFan
      BY <3>1, <3>2, AccountAssumption DEF Row, Age, NoFan, None
    <3>4. fan.exported # Never /\ fan.exported <= MaxLatency
      <4>1. fan.exported # Never /\ fan.exported <= req[r].waited /\ req[r].waited <= MaxLatency
        BY <1>1, <2>1 DEF CallSound
      <4>2. fan.exported \in Nat /\ req[r].waited \in Nat
        BY <1>1, <3>2, AccountAssumption DEF Row, Age, Never, Call
      <4>3. QED
        BY <4>1, <4>2, AccountAssumption
    <3>5. fan'.exported # Never /\ fan'.exported <= fan'.answered + MaxLatency
      BY <3>3, <3>4, AccountAssumption
    <3>6. fan'.anonymized => fan'.asked # Never
      BY <3>3 DEF AccountsInv, RowsSound
    <3>7. TableTypes' /\ RowsSound' /\ AccessSound'
      BY <1>2, <3>2, <3>3, <3>5, <3>6, FanEdited
    <3>8. Kept
      BY <1>2, <3>3, KeptByEdit DEF sessionVars
    <3>9. QED
      BY <3>3, <3>7, <3>8
  <2>2. CASE fan.id # req[r].fan
    <3>1. UNCHANGED <<sessionVars, fanVars>> /\ faults' \in Nat
      BY <1>2, <2>2, FanIsTyped DEF ExportAnswer, fanVars
    <3>2. QED
      BY <3>1, QuietRows DEF fanVars
  <2>3. QED
    BY <2>1, <2>2
<1>4. PICK c : c = Ended(req[r].op, req[r])
  OBVIOUS
<1>5. /\ c \in Call /\ c.op = "export" /\ c.at = "ok" /\ c.gap = req[r].gap /\ c.user = 0
      /\ c.fan = 0 /\ c.waited = 0 /\ c.gone = 0
  BY <1>1, <1>4 DEF Ended, Unused, Call, Tokens, None
<1>6. users' \in Nat /\ fans' \in Nat /\ MaxLatency \in Nat
  BY <1>3, AccountAssumption DEF TableTypes
<1>7. CallSound(c)'
  BY <1>1, <1>5, <1>6 DEF CallSound
<1>8. QED
  BY <1>2, <1>3, <1>4, <1>5, <1>7, RequestStep DEF Succeed

(* A sale finds the fan row of the wallet or makes one, with a new id.     *)
LEMMA FanUpserted ==
  ASSUME AccountsInv, UpsertFan, UNCHANGED <<sessions, access, creator, faults>>,
         hasPass' \in BOOLEAN, hasGift' \in BOOLEAN
  PROVE  Kept /\ TableTypes' /\ RowsSound' /\ AccessSound' /\ fan' \in Row /\ fan'.id <= fans'
<1>1. CASE fan = NoFan
  <2>1. UpsertUser /\ fans' = fans + 1 /\ fan' = [NoFan EXCEPT !.id = fans + 1, !.user = user']
    BY <1>1 DEF UpsertFan
  <2>2. /\ user' \in Nat /\ users' \in Nat /\ user' <= users' /\ user' # None
        /\ (user' = user /\ users' = users) \/ (user' = users + 1 /\ users' = users + 1)
        /\ user # None => user' = user
    BY <2>1, UserUpserted
  <2>3. fans \in Nat /\ fans' \in Nat
    BY <2>1, FanIsTyped
  <2>4. /\ fan' \in Row /\ fan'.id = fans + 1 /\ fan'.user = user' /\ fan'.answered = Never
        /\ ~ fan'.anonymized /\ fan'.id # None
    <3>1. PICK n \in Nat : n = fans + 1 /\ n # None
      BY <2>3 DEF None
    <3>2. fan' = [NoFan EXCEPT !.id = n, !.user = user']
      BY <2>1, <3>1
    <3>3. fan' \in Row /\ fan'.id = n /\ fan'.user = user' /\ fan'.answered = Never
      BY <2>2, <3>2, NoFanIsRow DEF Row
    <3>4. fan'.anonymized = NoFan.anonymized
      BY <3>2, NoFanIsRow DEF Row
    <3>5. QED
      BY <3>1, <3>3, <3>4, NoFanIsRow
  <2>5. Kept
    BY <2>1, <2>2, <2>3, <2>4, KeptByUpserts
  <2>6. TableTypes' /\ AccessSound'
    BY <2>2, <2>3, <2>4 DEF AccountsInv, TableTypes, AccessSound
  <2>7. \A t \in Tokens : sessions'[t].user \in {None, user'}
    <3>1. \A t \in Tokens : sessions[t].user \in {None, user}
      BY DEF AccountsInv, RowsSound
    <3>2. QED
      BY <2>2, <3>1
  <2>8. RowsSound'
    BY <2>1, <2>2, <2>3, <2>4, <2>7 DEF RowsSound
  <2>9. fan'.id <= fans'
    BY <2>1, <2>3, <2>4
  <2>10. QED
    BY <2>4, <2>5, <2>6, <2>8, <2>9
<1>2. CASE fan # NoFan
  <2>1. UNCHANGED <<user, users, fan, fans>>
    BY <1>2 DEF UpsertFan
  <2>2. Kept /\ RowsSound'
    BY <2>1, KeptSame, RowsSame
  <2>3. TableTypes' /\ AccessSound'
    BY <2>1 DEF AccountsInv, TableTypes, AccessSound
  <2>4. QED
    BY <2>1, <2>2, <2>3, FanIsTyped
<1>3. QED
  BY <1>1, <1>2

LEMMA SaleStep ==
  ASSUME AccountsInv, Bought \/ Gave
  PROVE  AccountsInv'
<1>1. UpsertFan /\ UNCHANGED <<sessions, access, req, creator, faults>>
  BY DEF Bought, Gave
<1>2. hasPass' \in BOOLEAN /\ hasGift' \in BOOLEAN
  BY DEF Bought, Gave, AccountsInv, TableTypes
<1>3. Kept /\ TableTypes' /\ RowsSound' /\ AccessSound'
  BY <1>1, <1>2, FanUpserted
<1>4. QED
  BY <1>1, <1>3, NoRequestStep

LEMMA ChainFanStep ==
  ASSUME AccountsInv, NEW r \in Requests, ChainFan(r)
  PROVE  AccountsInv'
<1>1. UpsertFan /\ UNCHANGED <<sessions, access, creator, faults>>
  BY DEF ChainFan
<1>2. hasPass' \in BOOLEAN /\ hasGift' \in BOOLEAN
  BY DEF ChainFan, AccountsInv, TableTypes
<1>3. Kept /\ TableTypes' /\ RowsSound' /\ AccessSound' /\ fan' \in Row /\ fan'.id <= fans'
  BY <1>1, <1>2, FanUpserted
<1>4. PICK c : /\ c = [Unused EXCEPT !.op = "chain", !.at = "fan", !.fan = fan'.id]
               /\ req' = [req EXCEPT ![r] = c]
  BY DEF ChainFan, Begin
<1>5. /\ c \in Call /\ c.op = "chain" /\ c.at = "fan" /\ c.user = 0 /\ c.fan = fan'.id
      /\ c.waited = 0 /\ c.gone = 0
  BY <1>3, <1>4 DEF Unused, Call, None, Tokens, Row
<1>6. users' \in Nat /\ MaxLatency \in Nat
  BY <1>3, AccountAssumption DEF TableTypes
<1>7. CallSound(c)'
  BY <1>3, <1>5, <1>6 DEF CallSound
<1>8. QED
  BY <1>3, <1>4, <1>5, <1>7, RequestStep

LEMMA ChainPassStep ==
  ASSUME AccountsInv, NEW r \in Requests, ChainPass(r)
  PROVE  AccountsInv'
<1>1. UNCHANGED <<user, users, sessions, access, fan, fans, hasGift, creator, faults>>
      /\ hasPass' \in BOOLEAN
  BY DEF ChainPass, sessionVars, AccountsInv, TableTypes
<1>2. Throw(r) \/ (Succeed(r) /\ req[r].op \notin {"erase", "export"})
  BY DEF ChainPass
<1>3. Kept /\ RowsSound'
  BY <1>1, KeptSame, RowsSame
<1>4. TableTypes' /\ AccessSound'
  BY <1>1 DEF AccountsInv, TableTypes, AccessSound
<1>5. QED
  BY <1>2, <1>3, <1>4, AnswerStep

LEMMA RegisterStep ==
  ASSUME AccountsInv, NEW r \in Requests, Register(r)
  PROVE  AccountsInv'
<1>1. UNCHANGED <<user, users, sessions, access, fan, fans, hasPass, hasGift, faults>>
      /\ creator' \in {"none", "plain", "sells"}
  BY DEF Register, sessionVars, AccountsInv, TableTypes
<1>2. BeginEnd(r, "ok") \/ Refuse(r)
  BY DEF Register
<1>3. Kept /\ RowsSound'
  BY <1>1, KeptSame, RowsSame
<1>4. TableTypes' /\ AccessSound'
  BY <1>1 DEF AccountsInv, TableTypes, AccessSound
<1>5. QED
  BY <1>2, <1>3, <1>4, AnswerStep

LEMMA RequestFailsStep ==
  ASSUME AccountsInv, NEW r \in Requests, RequestFails(r)
  PROVE  AccountsInv'
<1>1. Throw(r) /\ UNCHANGED <<sessionVars, fanVars>> /\ faults' \in Nat
  BY FanIsTyped DEF RequestFails
<1>2. QED
  BY <1>1, QuietStep

-----------------------------------------------------------------------------
(* A tick: everything grows older, at most up to its limit.                *)
Aged(age, limit) == IF age = Never THEN Never ELSE Older(age, limit)

LEMMA AgedBounds ==
  ASSUME NEW limit \in Nat, limit < Never, NEW a \in Age(limit)
  PROVE  /\ Aged(a, limit) \in Age(limit)
         /\ a = Never <=> Aged(a, limit) = Never
         /\ a # Never => /\ a \in Nat /\ Aged(a, limit) \in Nat
                         /\ a <= Aged(a, limit) /\ Aged(a, limit) <= a + 1
                         /\ a < limit => Aged(a, limit) = a + 1
                         /\ a <= limit
BY DEF Aged, Older, Age, Never

LEMMA FanAges ==
  ASSUME AccountsInv, FanTick
  PROVE  /\ fan' \in Row /\ fan'.id = fan.id /\ fan'.user = fan.user
         /\ fan'.anonymized = fan.anonymized
         /\ fan'.asked = Aged(fan.asked, CoolingOff)
         /\ fan'.exported = Aged(fan.exported, ExportCooldown)
         /\ fan'.answered = Aged(fan.answered, ExportCooldown)
         /\ fan = NoFan => fan' = NoFan
<1>1. fan \in Row
  BY FanIsTyped
<1>2. CASE fan = NoFan
  <2>1. fan' = fan
    BY <1>2 DEF FanTick
  <2>2. fan.asked = Never /\ fan.exported = Never /\ fan.answered = Never
    BY <1>2 DEF NoFan
  <2>3. QED
    BY <1>1, <2>1, <2>2 DEF Aged
<1>3. CASE fan # NoFan
  <2>1. fan' = [fan EXCEPT !.asked = Aged(fan.asked, CoolingOff),
                           !.exported = Aged(fan.exported, ExportCooldown),
                           !.answered = Aged(fan.answered, ExportCooldown)]
    BY <1>3 DEF FanTick, Aged
  <2>2. /\ fan.asked \in Age(CoolingOff) /\ fan.exported \in Age(ExportCooldown)
        /\ fan.answered \in Age(ExportCooldown)
    BY <1>1 DEF Row
  <2>3. /\ Aged(fan.asked, CoolingOff) \in Age(CoolingOff)
        /\ Aged(fan.exported, ExportCooldown) \in Age(ExportCooldown)
        /\ Aged(fan.answered, ExportCooldown) \in Age(ExportCooldown)
    BY <2>2, AgedBounds, AccountAssumption
  <2>4. fan'.anonymized = fan.anonymized
    BY <1>1, <2>1 DEF Row
  <2>5. QED
    BY <1>1, <1>3, <2>1, <2>3, <2>4 DEF Row
<1>4. QED
  BY <1>2, <1>3

LEMMA AgesKeepOrder ==
  ASSUME AccountsInv, FanTick
  PROVE  /\ fan'.asked = Never <=> fan.asked = Never
         /\ fan'.exported = Never <=> fan.exported = Never
         /\ fan.asked # Never => fan.asked <= fan'.asked /\ fan'.asked <= fan.asked + 1
         /\ fan.exported # Never => fan'.exported <= fan.exported + 1
         /\ fan'.answered # Never =>
              fan'.exported # Never /\ fan'.exported <= fan'.answered + MaxLatency
         /\ fan.asked \in Nat /\ fan'.asked \in Nat /\ fan.exported \in Nat /\ fan'.exported \in Nat
<1>1. /\ fan.asked \in Age(CoolingOff) /\ fan.exported \in Age(ExportCooldown)
      /\ fan.answered \in Age(ExportCooldown)
      /\ fan'.asked = Aged(fan.asked, CoolingOff)
      /\ fan'.exported = Aged(fan.exported, ExportCooldown)
      /\ fan'.answered = Aged(fan.answered, ExportCooldown)
  BY FanIsTyped, FanAges DEF Row
<1>2. /\ CoolingOff \in Nat /\ CoolingOff < Never /\ ExportCooldown \in Nat /\ ExportCooldown < Never
      /\ MaxLatency \in Nat /\ Never \in Nat
  BY AccountAssumption DEF Never
<1>3. fan.answered # Never =>
        fan.exported # Never /\ fan.exported <= fan.answered + MaxLatency
  BY DEF AccountsInv, RowsSound
<1>4. /\ fan'.asked = Never <=> fan.asked = Never
      /\ fan.asked # Never => fan.asked <= fan'.asked /\ fan'.asked <= fan.asked + 1
      /\ fan.asked \in Nat /\ fan'.asked \in Nat
  BY <1>1, <1>2, AgedBounds
<1>5. /\ fan'.exported = Never <=> fan.exported = Never
      /\ fan.exported # Never => /\ fan'.exported <= fan.exported + 1
                                 /\ fan'.exported <= ExportCooldown
      /\ fan.exported \in Nat /\ fan'.exported \in Nat
  BY <1>1, <1>2, AgedBounds DEF Age
<1>6. /\ fan'.answered = Never <=> fan.answered = Never
      /\ fan.answered # Never => /\ fan.answered \in Nat /\ fan'.answered \in Nat
                                 /\ fan.answered < ExportCooldown => fan'.answered = fan.answered + 1
                                 /\ fan.answered <= fan'.answered /\ fan.answered <= ExportCooldown
  BY <1>1, <1>2, AgedBounds
<1>7. fan'.answered # Never =>
        fan'.exported # Never /\ fan'.exported <= fan'.answered + MaxLatency
  <2>1. SUFFICES ASSUME fan.answered # Never
                 PROVE  fan'.exported # Never /\ fan'.exported <= fan'.answered + MaxLatency
    BY <1>6
  <2>2. CASE fan.answered < ExportCooldown
    BY <1>2, <1>3, <1>5, <1>6, <2>1, <2>2
  <2>3. CASE ~ fan.answered < ExportCooldown
    BY <1>2, <1>3, <1>5, <1>6, <2>1, <2>3
  <2>4. QED
    BY <2>2, <2>3
<1>8. QED
  BY <1>4, <1>5, <1>7

(* A request in progress counts the ticks, and knows its session's end.    *)
LEMMA CallAges ==
  ASSUME AccountsInv, Tick, NEW r \in Requests
  PROVE  req'[r] \in Call /\ CallSound(req[r])'
<1>1. req \in [Requests -> Call] /\ req[r] \in Call /\ CallSound(req[r]) /\ MaxLatency \in Nat
  BY AccountAssumption DEF AccountsInv
<1>2. FanTick /\ SessionsTick /\ UNCHANGED <<user, users, fans>> /\ fan'.id = fan.id
  BY FanAges DEF Tick, FanTick, SessionsTick
<1>3. PICK c \in Call : c = req[r]
  BY <1>1
<1>4. PICK d : d = req'[r]
  OBVIOUS
<1>5. CallSound(c)
  BY <1>1, <1>3
<1>6. CASE InProgress(r)
  <2>. DEFINE g == IF c.op = "refresh" THEN Gone(c.token, c.gone) ELSE c.gone
  <2>1. d = [c EXCEPT !.waited = c.waited + 1, !.gone = g] /\ c.waited < MaxLatency
    BY <1>1, <1>2, <1>3, <1>4, <1>6 DEF SessionsTick
  <2>2. c.waited + 1 \in Nat /\ g \in Nat /\ g <= c.gone + 1
        /\ c.waited \in Nat /\ c.gone \in Nat
    BY DEF Call, Gone
  <2>3. c.gone <= c.waited
    BY <1>5 DEF CallSound
  <2>. HIDE DEF g
  <2>4. /\ d \in Call /\ d.op = c.op /\ d.at = c.at /\ d.user = c.user /\ d.fan = c.fan
        /\ d.gap = c.gap /\ d.waited = c.waited + 1 /\ d.gone = g
    BY <2>1, <2>2 DEF Call
  <2>5. d.gone <= d.waited /\ d.waited <= MaxLatency
    BY <1>1, <2>1, <2>2, <2>3, <2>4
  <2>6. CallSound(d)'
    <3>1. c.op # "erase" \/ c.at # "ok" \/ user' # c.user
      BY <1>2, <1>5 DEF CallSound
    <3>2. c.op = "ask" /\ c.at = "read" /\ c.fan = fan.id =>
            fan'.asked = Never \/ fan'.asked <= c.waited + 1
      BY <1>2, <1>5, <2>2, AgesKeepOrder DEF CallSound
    <3>3. c.op = "export" /\ c.at = "stamped" /\ c.fan = fan.id =>
            fan'.exported # Never /\ fan'.exported <= c.waited + 1
      BY <1>2, <1>5, <2>2, AgesKeepOrder DEF CallSound
    <3>4. c.op = "erase" /\ c.at = "read" /\ c.fan = fan.id =>
            fan'.asked # Never /\ fan'.asked >= CoolingOff
      BY <1>2, <1>5, AgesKeepOrder, AccountAssumption DEF CallSound, CanFinalizeDeletion
    <3>5. c.op = "anonymize" /\ c.at = "read" /\ c.fan = fan.id => fan'.asked # Never
      BY <1>2, <1>5, AgesKeepOrder DEF CallSound
    <3>6. QED
      BY <1>2, <1>5, <2>4, <2>5, <3>1, <3>2, <3>3, <3>4, <3>5 DEF CallSound, CanFinalizeDeletion
  <2>7. QED
    BY <1>4, <2>4, <2>6
<1>7. CASE ~ InProgress(r)
  <2>1. d = c /\ c.at \in {"new", "ok", "refused"}
    BY <1>1, <1>2, <1>3, <1>4, <1>7 DEF SessionsTick, InProgress, Call
  <2>2. CallSound(d)'
    BY <1>2, <1>5, <2>1 DEF CallSound
  <2>3. QED
    BY <1>4, <2>1, <2>2
<1>8. QED
  BY <1>6, <1>7

LEMMA TickStep ==
  ASSUME AccountsInv, Tick
  PROVE  AccountsInv'
<1>1. FanTick /\ SessionsTick /\ UNCHANGED <<user, users, fans, hasPass, hasGift, creator, faults>>
  BY DEF Tick, FanTick, SessionsTick
<1>2. sessions' \in [Tokens -> [user : Nat, age : Nat]]
      /\ \A t \in Tokens : sessions'[t].user \in {None, user}
  <2>1. ASSUME NEW t \in Tokens
        PROVE  sessions'[t] \in [user : Nat, age : Nat] /\ sessions'[t].user \in {None, user}
    <3>1. sessions[t] \in [user : Nat, age : Nat] /\ sessions[t].user \in {None, user}
      BY DEF AccountsInv, TableTypes, RowsSound
    <3>2. CASE sessions[t].user = None
      BY <1>1, <3>2 DEF SessionsTick, NoSession, None
    <3>3. CASE sessions[t].user # None
      <4>1. sessions'[t] = [sessions[t] EXCEPT !.age = Older(sessions[t].age, SessionTtl + 1)]
        BY <1>1, <3>3 DEF SessionsTick
      <4>2. Older(sessions[t].age, SessionTtl + 1) \in Nat
        BY <3>1 DEF Older
      <4>3. QED
        BY <3>1, <4>1, <4>2
    <3>4. QED
      BY <3>2, <3>3
  <2>2. sessions' = [t \in Tokens |-> sessions'[t]]
    BY <1>1 DEF SessionsTick
  <2>3. QED
    BY <2>1, <2>2
<1>3. access' \in SUBSET [token : Tokens, age : Nat, gone : Nat] /\ AccessSound'
  <2>1. ASSUME NEW l \in access'
        PROVE  /\ l \in [token : Tokens, age : Nat, gone : Nat]
               /\ l.age < AccessTtl /\ l.gone <= l.age + MaxLatency
    <3>1. PICK k \in access :
            l = [k EXCEPT !.age = k.age + 1, !.gone = Gone(k.token, k.gone)] /\ Accepted(l)
      BY <1>1 DEF SessionsTick
    <3>2. k \in [token : Tokens, age : Nat, gone : Nat] /\ k.gone <= k.age + MaxLatency
      BY DEF AccountsInv, TableTypes, AccessSound
    <3>3. k.age + 1 \in Nat /\ Gone(k.token, k.gone) \in Nat /\ Gone(k.token, k.gone) <= k.gone + 1
      BY <3>2 DEF Gone
    <3>4. /\ l \in [token : Tokens, age : Nat, gone : Nat]
          /\ l.age = k.age + 1 /\ l.gone = Gone(k.token, k.gone)
      BY <3>1, <3>2, <3>3
    <3>5. QED
      BY <3>1, <3>2, <3>3, <3>4, AccountAssumption DEF Accepted
  <2>2. QED
    BY <2>1 DEF AccessSound
<1>4. TableTypes'
  BY <1>1, <1>2, <1>3, FanAges DEF AccountsInv, TableTypes
<1>5. RowsSound'
  <2>1. fan' = NoFan \/ (fan'.id # None /\ user' # None /\ fan'.user = user')
    BY <1>1, FanAges DEF AccountsInv, RowsSound
  <2>2. fan'.anonymized => fan'.asked # Never
    <3>1. fan.anonymized => fan.asked # Never
      BY DEF AccountsInv, RowsSound
    <3>2. fan'.asked = Never <=> fan.asked = Never
      BY <1>1, AgesKeepOrder
    <3>3. fan'.anonymized = fan.anonymized
      BY <1>1, FanAges
    <3>4. QED
      BY <3>1, <3>2, <3>3, Zenon
  <2>3. fan'.answered # Never =>
          fan'.exported # Never /\ fan'.exported <= fan'.answered + MaxLatency
    BY <1>1, AgesKeepOrder
  <2>4. user' <= users' /\ fan'.id <= fans'
    BY <1>1, FanAges DEF AccountsInv, RowsSound
  <2>5. \A t \in Tokens : sessions'[t].user \in {None, user'}
    BY <1>1, <1>2
  <2>6. QED
    BY <2>1, <2>2, <2>3, <2>4, <2>5 DEF RowsSound
<1>6. req' \in [Requests -> Call] /\ \A r \in Requests : CallSound(req[r])'
  <2>1. \A r \in Requests : req'[r] \in Call /\ CallSound(req[r])'
    BY CallAges
  <2>2. req' = [r \in Requests |-> req'[r]]
    BY <1>1 DEF SessionsTick
  <2>3. QED
    BY <2>1, <2>2
<1>7. QED
  BY <1>3, <1>4, <1>5, <1>6 DEF AccountsInv

-----------------------------------------------------------------------------
(* The invariant is one.                                                   *)
LEMMA AccountsStart == Init => AccountsInv
<1>. SUFFICES ASSUME Init PROVE AccountsInv
  OBVIOUS
<1>1. /\ user = 1 /\ users = 1 /\ access = {} /\ req = [r \in Requests |-> Unused]
      /\ sessions = [t \in Tokens |-> IF t = FirstToken THEN [user |-> 1, age |-> 0] ELSE NoSession]
      /\ fans = 1 /\ hasPass = FALSE /\ hasGift = FALSE
      /\ creator \in {"none", "plain", "sells"} /\ faults = 0
  BY DEF Init, SessionsInit, FanInit
<1>2. PICK a \in {Never, 0} : fan = [NoFan EXCEPT !.id = 1, !.user = 1, !.asked = a]
  BY DEF Init, FanInit
<1>3. a \in Age(CoolingOff)
  BY <1>2, AccountAssumption DEF Age
<1>4. fan \in Row /\ fan.id = 1 /\ fan.user = 1 /\ fan.answered = Never
  BY <1>2, <1>3, NoFanIsRow DEF Row
<1>5. ~ fan.anonymized
  BY <1>2, NoFanIsRow DEF NoFan
<1>6. /\ Unused \in Call /\ Unused.op = "none" /\ Unused.at = "new" /\ Unused.user = 0
      /\ Unused.fan = 0 /\ Unused.waited = 0 /\ Unused.gone = 0
  BY DEF Unused, Call, None, Tokens
<1>7. sessions \in [Tokens -> [user : Nat, age : Nat]] /\ \A t \in Tokens : sessions[t].user \in {None, user}
  BY <1>1 DEF NoSession, None
<1>8. TableTypes /\ AccessSound
  BY <1>1, <1>4, <1>7 DEF TableTypes, AccessSound
<1>9. RowsSound
  BY <1>1, <1>4, <1>5, <1>7 DEF RowsSound, None
<1>10. CallSound(Unused)
  BY <1>1, <1>6, AccountAssumption DEF CallSound
<1>11. req \in [Requests -> Call] /\ \A r \in Requests : req[r] = Unused
  BY <1>1, <1>6
<1>12. QED
  BY <1>8, <1>9, <1>10, <1>11 DEF AccountsInv

LEMMA AccountsStep == AccountsInv /\ [Next]_accountVars => AccountsInv'
<1>. SUFFICES ASSUME AccountsInv, [Next]_accountVars PROVE AccountsInv'
  OBVIOUS
<1>1. CASE UNCHANGED accountVars
  <2>1. UNCHANGED <<user, users, sessions, access, req, fan, fans, hasPass, hasGift, creator, faults>>
    BY <1>1 DEF accountVars
  <2>2. UNCHANGED <<sessionVars, fanVars>> /\ faults' \in Nat
    BY <2>1, FanIsTyped DEF sessionVars, fanVars
  <2>3. QED
    BY <2>1, <2>2, QuietRows, NoRequestStep
<1>2. CASE Tick
  BY <1>2, TickStep
<1>3. CASE Bought \/ Gave
  BY <1>3, SaleStep
<1>4. ASSUME NEW r \in Requests, FanSteps(r) PROVE AccountsInv'
  BY <1>4, AskCommitStep, AnonymizeWriteStep, EraseFanStep, EraseUserStep, ExportStampStep,
     ExportAnswerStep, ChainPassStep, RequestFailsStep DEF FanSteps
<1>5. ASSUME NEW r \in Requests, FanRequests(r) PROVE AccountsInv'
  BY <1>5, AskDeletionStep, AnonymizeReadStep, EraseReadStep, ExportReadStep, ChainFanStep,
     RegisterStep DEF FanRequests
<1>6. ASSUME NEW r \in Requests, SessionSteps(r), UNCHANGED <<fanVars, faults>>
      PROVE  AccountsInv'
  <2>1. CASE RefreshExpired(r)
    <3>1. req[r].token \in Tokens
      BY DEF AccountsInv, Call
    <3>2. QED
      BY <1>6, <2>1, <3>1, SessionEnds DEF RefreshExpired
  <2>2. QED
    BY <1>6, <2>1, LoginSessionStep, RefreshUserStep DEF SessionSteps
<1>7. ASSUME NEW r \in Requests, SessionRequests(r), UNCHANGED <<fanVars, faults>>
      PROVE  AccountsInv'
  <2>1. ASSUME NEW t \in Tokens, Logout(r, t) PROVE AccountsInv'
    BY <1>7, <2>1, SessionEnds DEF Logout
  <2>2. QED
    BY <1>7, <2>1, LoginUserStep, RefreshReadStep DEF SessionRequests
<1>8. QED
  BY <1>1, <1>2, <1>3, <1>4, <1>5, <1>6, <1>7 DEF Next, Step, Arrive

THEOREM AccountsSafe == Spec => []AccountsInv
<1>1. Init => AccountsInv
  BY AccountsStart
<1>2. AccountsInv /\ [Next]_accountVars => AccountsInv'
  BY AccountsStep
<1>3. QED
  BY <1>1, <1>2, PTL DEF Spec

-----------------------------------------------------------------------------
(* An account that was reported deleted stays deleted: the ids of its rows *)
(* are not given out again, and what was read of them before is compared   *)
(* with the rows when it is used.                                          *)
THEOREM ErasedForGoodSound == Spec => []ErasedForGood
<1>1. AccountsInv => ErasedForGood
  <2>. SUFFICES ASSUME AccountsInv, NEW r \in Requests, Erased(r)
                PROVE  /\ user # req[r].user /\ fan.id # req[r].fan
                       /\ \A t \in Tokens : sessions[t].user # req[r].user
    BY DEF ErasedForGood
  <2>1. CallSound(req[r]) /\ req[r].op = "erase" /\ req[r].at = "ok"
    BY DEF AccountsInv, Erased
  <2>2. user # req[r].user /\ fan.id # req[r].fan /\ req[r].user # None
    BY <2>1 DEF CallSound
  <2>3. \A t \in Tokens : sessions[t].user \in {None, user}
    BY DEF AccountsInv, RowsSound
  <2>4. QED
    BY <2>2, <2>3
<1>2. QED
  BY <1>1, AccountsSafe, PTL

(* No access token outlives its session by more than its lifetime and the  *)
(* time its request took, whatever ended the session.                      *)
THEOREM AccessEndsSoonSound == Spec => []AccessEndsSoon
<1>1. AccountsInv => AccessEndsSoon
  <2>. SUFFICES ASSUME AccountsInv, NEW k \in access PROVE k.gone < AccessTtl + MaxLatency
    BY DEF AccessEndsSoon
  <2>1. k.age \in Nat /\ k.gone \in Nat /\ k.age < AccessTtl /\ k.gone <= k.age + MaxLatency
    BY DEF AccountsInv, TableTypes, AccessSound
  <2>2. QED
    BY <2>1, AccountAssumption
<1>2. QED
  BY <1>1, AccountsSafe, PTL

(* An export begins the cooldown, less the time of one request, after each *)
(* that was answered before it began.  Two that overlap both pass the      *)
(* check, and are not kept apart.                                          *)
THEOREM ExportsSpacedSound == Spec => []ExportsSpaced
<1>1. AccountsInv => ExportsSpaced
  BY DEF AccountsInv, CallSound, ExportsSpaced
<1>2. QED
  BY <1>1, AccountsSafe, PTL

(* Nobody is deleted or anonymized unasked: between the checks of a        *)
(* deletion and its first statement the row may have been replaced, but    *)
(* then the statement does not find it; the cascade of the second takes    *)
(* only a row that was made for the same user in between.                  *)
THEOREM NobodyErasedUnaskedSound == Spec => NobodyErasedUnasked
<1>. DEFINE Good == /\ Removed => ~hasPass /\ (CanFinalizeDeletion(fan) \/ ByCascade)
                    /\ fan'.anonymized => fan'.asked # Never
                    /\ hasPass => hasPass'
<1>1. AccountsInv /\ AccountsInv' /\ [Next]_accountVars => [Good]_accountVars
  <2>. SUFFICES ASSUME AccountsInv, AccountsInv', Next PROVE Good
    OBVIOUS
  <2>1. fan'.anonymized => fan'.asked # Never
    BY DEF AccountsInv, RowsSound
  <2>2. hasPass => hasPass'
    BY DEF Next, Tick, FanTick, Bought, Gave, Step, Arrive, FanSteps, FanRequests, AskCommit,
           AnonymizeWrite, EraseFan, EraseUser, ExportStamp, ExportAnswer, ChainPass, RequestFails,
           AskDeletion, AnonymizeRead, EraseRead, ExportRead, ChainFan, Register, fanVars
  <2>3. ASSUME Removed PROVE ~hasPass /\ (CanFinalizeDeletion(fan) \/ ByCascade)
    <3>1. fan # NoFan /\ fan.user = user /\ fan \in Row
      BY <2>3, FanIsTyped DEF Removed, NoFan
    <3>2. ASSUME NEW r \in Requests, EraseFan(r)
          PROVE  ~hasPass /\ (CanFinalizeDeletion(fan) \/ ByCascade)
      <4>1. fan.id = req[r].fan /\ ~hasPass /\ req[r].op = "erase" /\ req[r].at = "read"
        BY <2>3, <3>2 DEF EraseFan, Removed
      <4>2. CanFinalizeDeletion(fan)
        BY <4>1 DEF AccountsInv, CallSound
      <4>3. QED
        BY <4>1, <4>2
    <3>3. ASSUME NEW r \in Requests, EraseUser(r)
          PROVE  ~hasPass /\ (CanFinalizeDeletion(fan) \/ ByCascade)
      <4>1. user = req[r].user /\ ~hasPass /\ req[r].op = "erase" /\ req[r].at = "fanGone"
        BY <2>3, <3>3 DEF EraseUser, Removed
      <4>2. ByCascade
        BY <3>1, <4>1 DEF ByCascade
      <4>3. QED
        BY <4>1, <4>2
    <3>4. CASE Tick
      BY <2>3, <3>4, FanAges DEF Tick, Removed
    <3>5. CASE Bought \/ Gave
      BY <2>3, <3>1, <3>5 DEF Bought, Gave, UpsertFan, Removed
    <3>6. ASSUME NEW r \in Requests, FanSteps(r), ~ EraseFan(r), ~ EraseUser(r)
          PROVE  fan'.id = fan.id
      BY <3>1, <3>6 DEF FanSteps, AskCommit, AnonymizeWrite, ExportStamp, ExportAnswer, ChainPass,
                        RequestFails, fanVars, Row
    <3>7. ASSUME NEW r \in Requests, FanRequests(r) PROVE fan'.id = fan.id
      BY <3>1, <3>7 DEF FanRequests, AskDeletion, AnonymizeRead, EraseRead, ExportRead, ChainFan,
                        UpsertFan, Register, fanVars
    <3>8. ASSUME UNCHANGED <<fanVars, faults>> PROVE fan'.id = fan.id
      BY <3>8 DEF fanVars
    <3>9. QED
      BY <2>3, <3>2, <3>3, <3>4, <3>5, <3>6, <3>7, <3>8 DEF Next, Step, Arrive, Removed
  <2>4. QED
    BY <2>1, <2>2, <2>3
<1>2. QED
  BY <1>1, AccountsSafe, PTL DEF Spec, NobodyErasedUnasked
=============================================================================
