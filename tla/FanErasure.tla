----------------------------- MODULE FanErasure -----------------------------
(***************************************************************************)
(* The fan row of a wallet to its end: the request for deletion, the       *)
(* anonymisation, the deletion after the cooling off period, in two        *)
(* statements of their own, data exports, and the sales that make a fan    *)
(* row again.  Foreign keys decide what a deletion takes along: sessions,  *)
(* the creator row and the earnings records go, a pass refuses it.         *)
(***************************************************************************)
EXTENDS UserSessions

CONSTANTS
    CoolingOff,      \* COOLING_OFF_PERIOD_DAYS, in ticks
    ExportCooldown,  \* EXPORT_COOLDOWN_HOURS, in ticks
    MaxFaults        \* bound: statements that fail and requests that are lost

Never == 99

VARIABLES
    fan,       \* the row, or NoFan: id, user, ages of the timestamps; history: age of the last export answered
    fans,      \* ids given out so far
    hasPass,   \* a pass row belongs to the fan
    hasGift,   \* an earnings record of a gift belongs to the fan
    creator,   \* the wallet's creator row: "none", "plain", or "sells" with passes of fans
    faults

sessionVars == <<user, users, sessions, access>>
fanVars == <<fan, fans, hasPass, hasGift, creator>>

NoFan == [id |-> None, user |-> None, asked |-> Never, anonymized |-> FALSE, exported |-> Never, answered |-> Never]

FanInit ==
    /\ fan \in {[NoFan EXCEPT !.id = 1, !.user = 1, !.asked = a] : a \in {Never, 0}}
    /\ fans = 1
    /\ hasPass = FALSE /\ hasGift = FALSE
    /\ creator \in {"none", "sells"}
    /\ faults = 0

-----------------------------------------------------------------------------
\* requestDeletion, whose transaction also cancels the fan's active passes.
AskDeletion(r) ==
    /\ IF fan # NoFan /\ fan.asked = Never
       THEN Begin(r, [Unused EXCEPT !.op = "ask", !.at = "read", !.fan = fan.id])
       ELSE Refuse(r)
    /\ UNCHANGED <<sessionVars, fanVars, faults>>

AskCommit(r) ==
    /\ req[r].op = "ask" /\ req[r].at = "read"
    /\ IF fan.id = req[r].fan
       THEN fan' = [fan EXCEPT !.asked = 0] /\ Succeed(r)
       ELSE Throw(r) /\ UNCHANGED fan
    /\ UNCHANGED <<sessionVars, fans, hasPass, hasGift, creator, faults>>

\* anonymizeFanData.
AnonymizeRead(r) ==
    /\ IF fan = NoFan \/ fan.asked = Never THEN Refuse(r)
       ELSE IF fan.anonymized THEN BeginEnd(r, "ok")
       ELSE Begin(r, [Unused EXCEPT !.op = "anonymize", !.at = "read", !.fan = fan.id])
    /\ UNCHANGED <<sessionVars, fanVars, faults>>

AnonymizeWrite(r) ==
    /\ req[r].op = "anonymize" /\ req[r].at = "read"
    /\ IF fan.id = req[r].fan
       THEN fan' = [fan EXCEPT !.anonymized = TRUE] /\ Succeed(r)
       ELSE Throw(r) /\ UNCHANGED fan
    /\ UNCHANGED <<sessionVars, fans, hasPass, hasGift, creator, faults>>

\* permanentlyDeleteFan: the checks ...
CanFinalizeDeletion(row) == row.asked # Never /\ row.asked >= CoolingOff

EraseRead(r) ==
    /\ IF fan # NoFan /\ CanFinalizeDeletion(fan)
       THEN Begin(r, [Unused EXCEPT !.op = "erase", !.at = "read", !.fan = fan.id, !.user = fan.user])
       ELSE Refuse(r)
    /\ UNCHANGED <<sessionVars, fanVars, faults>>

\* Mutant: the row is found by its address.
EraseFanByAddress(r) ==
    /\ req[r].op = "erase" /\ req[r].at = "read"
    /\ IF fan # NoFan /\ ~hasPass
       THEN fan' = NoFan /\ hasGift' = FALSE /\ Goto(r, "fanGone")
       ELSE Throw(r) /\ UNCHANGED <<fan, hasGift>>
    /\ UNCHANGED <<sessionVars, fans, hasPass, creator, faults>>

\* ... the fan, which a pass holds back and whose earnings records go along ...
EraseFan(r) ==
    /\ req[r].op = "erase" /\ req[r].at = "read"
    /\ IF fan.id = req[r].fan /\ ~hasPass
       THEN fan' = NoFan /\ hasGift' = FALSE /\ Goto(r, "fanGone")
       ELSE Throw(r) /\ UNCHANGED <<fan, hasGift>>
    /\ UNCHANGED <<sessionVars, fans, hasPass, creator, faults>>

\* ... and the user, with its sessions, its creator row, and a fan row that was
\* made for the same user in the meantime.
EraseUser(r) ==
    /\ req[r].op = "erase" /\ req[r].at = "fanGone"
    /\ IF user = req[r].user /\ ~hasPass /\ creator # "sells"
       THEN /\ user' = None /\ sessions' = WithoutUser(user)
            /\ fan' = NoFan /\ hasGift' = FALSE /\ creator' = "none"
            /\ Succeed(r)
       ELSE Throw(r) /\ UNCHANGED <<user, sessions, fan, hasGift, creator>>
    /\ UNCHANGED <<users, access, fans, hasPass, faults>>

\* requestDataExport: the check, the timestamp, then the rest of the data.
ExportRead(r) ==
    /\ IF fan # NoFan /\ (fan.exported = Never \/ fan.exported >= ExportCooldown)
       THEN Begin(r, [Unused EXCEPT !.op = "export", !.at = "read", !.fan = fan.id, !.gap = fan.answered])
       ELSE Refuse(r)
    /\ UNCHANGED <<sessionVars, fanVars, faults>>

\* Mutant: the timestamp is not written.
ExportStampForgotten(r) ==
    /\ req[r].op = "export" /\ req[r].at = "read"
    /\ Goto(r, "stamped")
    /\ UNCHANGED <<sessionVars, fanVars, faults>>

ExportStamp(r) ==
    /\ req[r].op = "export" /\ req[r].at = "read"
    /\ IF fan.id = req[r].fan
       THEN fan' = [fan EXCEPT !.exported = 0] /\ Goto(r, "stamped")
       ELSE Throw(r) /\ UNCHANGED fan
    /\ UNCHANGED <<sessionVars, fans, hasPass, hasGift, creator, faults>>

ExportAnswer(r) ==
    /\ req[r].op = "export" /\ req[r].at = "stamped"
    /\ fan' = IF fan.id = req[r].fan THEN [fan EXCEPT !.answered = 0] ELSE fan
    /\ Succeed(r)
    /\ UNCHANGED <<sessionVars, fans, hasPass, hasGift, creator, faults>>

-----------------------------------------------------------------------------
\* fan.upsert with connectOrCreate: a new row hangs on the wallet's user row.
UpsertFan ==
    IF fan = NoFan
    THEN /\ UpsertUser /\ fans' = fans + 1
         /\ fan' = [NoFan EXCEPT !.id = fans + 1, !.user = user']
    ELSE UNCHANGED <<user, users, fan, fans>>

\* A purchase for the wallet, or a gift from it, commits.
Bought ==
    /\ UpsertFan /\ hasPass' = TRUE
    /\ UNCHANGED <<sessions, access, req, hasGift, creator, faults>>
Gave ==
    /\ UpsertFan /\ hasGift' = TRUE
    /\ UNCHANGED <<sessions, access, req, hasPass, creator, faults>>

\* The indexer (PassesService.upsertFromChain) makes the fan row and the pass
\* in two statements.
ChainFan(r) ==
    /\ UpsertFan
    /\ Begin(r, [Unused EXCEPT !.op = "chain", !.at = "fan", !.fan = fan'.id])
    /\ UNCHANGED <<sessions, access, hasPass, hasGift, creator, faults>>

ChainPass(r) ==
    /\ req[r].op = "chain" /\ req[r].at = "fan"
    /\ IF fan.id = req[r].fan
       THEN hasPass' = TRUE /\ Succeed(r)
       ELSE Throw(r) /\ UNCHANGED hasPass
    /\ UNCHANGED <<sessionVars, fan, fans, hasGift, creator, faults>>

\* CreatorsService.register, on the strength of an access token alone: it needs
\* the user row of the token.
Register(r) ==
    /\ access # {}
    /\ IF user # None /\ creator = "none"
       THEN BeginEnd(r, "ok") /\ creator' = "plain"
       ELSE Refuse(r) /\ UNCHANGED creator
    /\ UNCHANGED <<sessionVars, fan, fans, hasPass, hasGift, faults>>

\* The next statement fails, or the process restarts, between two writes.  (A
\* request that ends before its first write is as good as refused.)
RequestFails(r) ==
    /\ faults < MaxFaults
    /\ req[r].at \in {"user", "fanGone", "stamped", "fan"}
    /\ faults' = faults + 1
    /\ Throw(r)
    /\ UNCHANGED <<sessionVars, fanVars>>

FanTick ==
    /\ fan' = IF fan = NoFan THEN NoFan
              ELSE LET older(age, limit) == IF age = Never THEN Never ELSE Older(age, limit)
                   IN  [fan EXCEPT !.asked = older(@, CoolingOff), !.exported = older(@, ExportCooldown),
                                   !.answered = older(@, ExportCooldown)]
    /\ UNCHANGED <<fans, hasPass, hasGift, creator, faults>>

FanSteps(r) ==
    \/ AskCommit(r) \/ AnonymizeWrite(r) \/ EraseFan(r) \/ EraseUser(r) \/ ExportStamp(r) \/ ExportAnswer(r)
    \/ ChainPass(r) \/ RequestFails(r)
FanRequests(r) ==
    AskDeletion(r) \/ AnonymizeRead(r) \/ EraseRead(r) \/ ExportRead(r) \/ ChainFan(r) \/ Register(r)
=============================================================================
