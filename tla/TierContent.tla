---------------------------- MODULE TierContent ----------------------------
(***************************************************************************)
(* Encrypted content of tiers: content is encrypted with the newest key of *)
(* its tier, keys are rotated, and a fan with a valid pass gets the newest *)
(* key or a signed token that opens the content for a while.               *)
(*                                                                         *)
(* Passes are rows that other modules buy, expire and close; here each     *)
(* goes once through its states.                                           *)
(***************************************************************************)
EXTENDS TierCatalogue

CONSTANTS
    Passes,      \* positive numbers
    FanOf, TierOf,
    UnlockTtl,   \* UNLOCK_TTL_SECONDS, in ticks
    MaxLatency   \* bound: ticks between a query of unlockContent and its answer

VARIABLES
    pass,      \* "none", "valid", "expired" (the flag still set) or "closed"
    contents,  \* TierContent in the order of creation: tier and version of the key
    tokens     \* tokens issued: fan, tier, age; history: ticks since the fan's last valid pass

Holds(fan, t) == \E p \in Passes : FanOf[p] = fan /\ TierOf[p] = t /\ pass[p] = "valid"
Newest(t) == Max(keys[t])
LastContent(t) == LET of == {i \in DOMAIN contents : contents[i].tier = t}
                  IN  IF of = {} THEN 0 ELSE contents[Max(of)].key

ContentInit ==
    /\ pass = [p \in Passes |-> "none"]
    /\ contents = <<>>
    /\ tokens = {}

catalogue == <<tier, keys, lastOrder>>
content == <<pass, contents, tokens>>

-----------------------------------------------------------------------------

\* createTierContent and rotateTierContentKey read the newest key ...
ReadKey(r, op, t) ==
    /\ IF t \in Existing /\ keys[t] # {}
       THEN Begin(r, [Unused EXCEPT !.op = op, !.at = "read", !.tier = t, !.ver = Newest(t)])
       ELSE Refuse(r)
    /\ UNCHANGED <<catalogue, content>>

\* ... and one writes content that is encrypted with it ...
CreateContent(r) ==
    /\ req[r].op = "createContent" /\ req[r].at = "read"
    /\ contents' = Append(contents, [tier |-> req[r].tier, key |-> req[r].ver])
    /\ Answer(r, "ok")
    /\ UNCHANGED <<catalogue, pass, tokens>>

\* Mutant: the old key is replaced.
RotateKeyReplacing(r) ==
    /\ req[r].op = "rotate" /\ req[r].at = "read"
    /\ Answer(r, "ok")
    /\ keys' = [keys EXCEPT ![req[r].tier] = (@ \ {req[r].ver}) \union {req[r].ver + 1}]
    /\ UNCHANGED <<tier, lastOrder, content>>

\* ... the other the next version, which the unique index may refuse.
RotateKey(r) ==
    /\ req[r].op = "rotate" /\ req[r].at = "read"
    /\ LET t == req[r].tier
           next == req[r].ver + 1
       IN  IF next \in keys[t]
           THEN Answer(r, "refused") /\ UNCHANGED keys
           ELSE Answer(r, "ok") /\ keys' = [keys EXCEPT ![t] = @ \union {next}]
    /\ UNCHANGED <<tier, lastOrder, content>>

\* getFanEncryptedContentKey: the check of the pass, the key, the content.
KeyAsked(r, p) ==
    LET t == TierOf[p]
    IN  /\ IF t \in Existing /\ Holds(FanOf[p], t)
           THEN Begin(r, [Unused EXCEPT !.op = "fanKey", !.at = "read", !.tier = t, !.first = Max(keys[t] \union {0})])
           ELSE Refuse(r)
        /\ UNCHANGED <<catalogue, content>>

KeyFound(r) ==
    /\ req[r].op = "fanKey" /\ req[r].at = "read"
    /\ IF keys[req[r].tier] = {}
       THEN Answer(r, "refused")
       ELSE req' = [req EXCEPT ![r].at = "wrapped", ![r].ver = Newest(req[r].tier)]
    /\ UNCHANGED <<catalogue, content>>

KeyHanded(r) ==
    /\ req[r].op = "fanKey" /\ req[r].at = "wrapped"
    /\ req' = [req EXCEPT ![r].at = "ok", ![r].content = LastContent(req[r].tier)]
    /\ UNCHANGED <<catalogue, content>>

\* History: ticks since a fan last had a valid pass.
Gone(fan, t, ticks) == IF Holds(fan, t) THEN 0 ELSE ticks + 1

UnlockCall(p) ==
    [Unused EXCEPT !.op = "unlock", !.at = "read", !.tier = TierOf[p], !.pass = p, !.gone = Gone(FanOf[p], TierOf[p], 0)]

\* Mutant: the flag of the pass is enough.
UnlockAskedActive(r, p) ==
    /\ IF TierOf[p] \in Existing /\ pass[p] \in {"valid", "expired"}
       THEN Begin(r, UnlockCall(p))
       ELSE Refuse(r)
    /\ UNCHANGED <<catalogue, content>>

\* unlockContent: the check of the pass; the token counts from the answer on.
UnlockAsked(r, p) ==
    /\ IF TierOf[p] \in Existing /\ Holds(FanOf[p], TierOf[p])
       THEN Begin(r, UnlockCall(p))
       ELSE Refuse(r)
    /\ UNCHANGED <<catalogue, content>>

UnlockIssued(r) ==
    /\ req[r].op = "unlock" /\ req[r].at = "read"
    /\ tokens' = tokens \union {[fan |-> FanOf[req[r].pass], tier |-> req[r].tier, age |-> 0, gone |-> req[r].gone]}
    /\ Answer(r, "ok")
    /\ UNCHANGED <<catalogue, pass, contents>>

\* verifyContentToken accepts the last tick too: it refuses when now > expiresAt.
Accepted(token) == token.age <= UnlockTtl

-----------------------------------------------------------------------------
PassSold(p) == pass[p] = "none" /\ pass' = [pass EXCEPT ![p] = "valid"]
PassExpires(p) == pass[p] = "valid" /\ pass' = [pass EXCEPT ![p] = "expired"]
PassCloses(p) == pass[p] \in {"valid", "expired"} /\ pass' = [pass EXCEPT ![p] = "closed"]

\* A request of unlockContent counts the ticks it waits.
Waiting(r) == req[r].op = "unlock" /\ req[r].at = "read"
ContentTick ==
    /\ \A r \in Requests : Waiting(r) => req[r].waited < MaxLatency
    /\ req' = [r \in Requests |->
                 IF Waiting(r)
                 THEN [req[r] EXCEPT !.waited = @ + 1, !.gone = Gone(FanOf[req[r].pass], req[r].tier, @)]
                 ELSE req[r]]
    /\ tokens' = {[k EXCEPT !.age = @ + 1, !.gone = Gone(k.fan, k.tier, @)] : k \in {k \in tokens : Accepted(k)}}

ContentSteps(r) == CreateContent(r) \/ RotateKey(r) \/ KeyFound(r) \/ KeyHanded(r) \/ UnlockIssued(r)
ContentRequests(r) ==
    \/ \E t \in Tiers, op \in {"createContent", "rotate"} : ReadKey(r, op, t)
    \/ \E p \in Passes : KeyAsked(r, p) \/ UnlockAsked(r, p)
=============================================================================
