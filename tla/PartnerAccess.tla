---------------------------- MODULE PartnerAccess ----------------------------
(***************************************************************************)
(* What a creator opens to others: webhooks, which are told of every sale, *)
(* and API keys.  Both are named by the request that made them; number 0   *)
(* was there before.                                                       *)
(***************************************************************************)
EXTENDS ProfileCache

VARIABLES
    hooks,    \* WebhookConfig rows of the creator
    apiKeys,  \* ApiKey rows of the creator
    listing,  \* history: announcements that were still to call a hook at its removal
    heard     \* history: calls that a hook got after its removal

partner == <<hooks, apiKeys, listing, heard>>

Numbers == {0} \union Requests

PartnerInit ==
    /\ hooks = {0} /\ apiKeys = {0}
    /\ listing = [h \in Numbers |-> 0] /\ heard = [h \in Numbers |-> 0]

-----------------------------------------------------------------------------
RegisterHook(r) ==
    /\ BeginEnd(r, "ok")
    /\ hooks' = hooks \union {r}
    /\ UNCHANGED <<row, copy, faults, apiKeys, listing, heard>>

Calling(h) == {r \in Requests : h \in req[r].todo}

RemoveHook(r, h) ==
    /\ \/ /\ h \in hooks /\ BeginEnd(r, "ok")
          /\ listing' = [listing EXCEPT ![h] = Cardinality(Calling(h))]
       \/ h \notin hooks /\ BeginEnd(r, "refused") /\ UNCHANGED listing
    /\ hooks' = hooks \ {h}
    /\ UNCHANGED <<row, copy, faults, apiKeys, heard>>

\* A sale, of one pass or of a bundle, is announced: the hooks are listed once ...
Announce(r) ==
    /\ Begin(r, [Unused EXCEPT !.op = "announce", !.at = "sending", !.todo = hooks])
    /\ UNCHANGED <<row, copy, faults, partner>>

\* ... and called one after the other; a call that fails is logged ...
\* Mutant: a call that fails is made again.
SentOrAgain(r, h, ok) == req' = IF ok THEN [req EXCEPT ![r].todo = @ \ {h}] ELSE req

Sent(r, h, ok) == req' = [req EXCEPT ![r].todo = @ \ {h}]

Send(r, h) ==
    /\ req[r].at = "sending" /\ h \in req[r].todo
    /\ \E ok \in BOOLEAN : Sent(r, h, ok)
    /\ heard' = IF h \in hooks THEN heard ELSE [heard EXCEPT ![h] = @ + 1]
    /\ UNCHANGED <<row, copy, faults, hooks, apiKeys, listing>>

\* ... until all have been called.
AnnounceEnds(r) ==
    /\ req[r].at = "sending" /\ req[r].todo = {}
    /\ Succeed(r, Unused)
    /\ UNCHANGED <<row, copy, faults, partner>>

-----------------------------------------------------------------------------
CreateKey(r) ==
    /\ BeginEnd(r, "ok")
    /\ apiKeys' = apiKeys \union {r}
    /\ UNCHANGED <<row, copy, faults, hooks, listing, heard>>

DeleteKey(r, k) ==
    /\ BeginEnd(r, "ok")
    /\ apiKeys' = apiKeys \ {k}
    /\ UNCHANGED <<row, copy, faults, hooks, listing, heard>>

\* ApiKeyGuard by validateApiKey: the row is found, then its lastUsed is set,
\* which throws if the row is gone.
UseKey(r, k) ==
    /\ IF k \in apiKeys THEN Begin(r, [Unused EXCEPT !.op = "use", !.at = "found", !.key = k])
       ELSE BeginEnd(r, "refused")
    /\ UNCHANGED <<row, copy, faults, partner>>

TouchKey(r) ==
    /\ req[r].at = "found"
    /\ IF req[r].key \in apiKeys THEN Succeed(r, Unused) ELSE Throw(r)
    /\ UNCHANGED <<row, copy, faults, partner>>

PartnerSteps(r) == AnnounceEnds(r) \/ TouchKey(r) \/ \E h \in hooks \union req[r].todo : Send(r, h)
HookRequests(r) ==
    \/ RegisterHook(r) \/ Announce(r)
    \/ \E h \in Numbers : h < r /\ RemoveHook(r, h)
KeyRequests(r) ==
    \/ CreateKey(r)
    \/ \E k \in Numbers : k < r /\ (DeleteKey(r, k) \/ UseKey(r, k))
PartnerRequests(r) == HookRequests(r) \/ KeyRequests(r)
=============================================================================
