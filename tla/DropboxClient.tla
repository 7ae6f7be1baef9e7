---------------------------- MODULE DropboxClient ----------------------------
(***************************************************************************)
(* infra/DropboxClient.ts and util/retry.ts: calls that share a token      *)
(* bucket, a rate-limit gate and one token refresh, against a server that  *)
(* may refuse, limit, truncate or fail to answer.  Of stored tokens only   *)
(* the grant (the refresh token) is kept: how old the access token beside  *)
(* it is, and whether the e-mail address is there, is left open.           *)
(***************************************************************************)
EXTENDS Naturals, FiniteSets

CONSTANTS
    Uploads, Deletes, Reads,  \* calls that run at a time
    Grants,        \* refresh tokens Dropbox may give out
    Clients,       \* DropboxClient instances, one per build
    MaxAttempts,   \* retry's maxAttempts
    MaxUploads     \* UPLOAD_VERIFY_MAX_ATTEMPTS

ASSUME ClientAssumption == {MaxAttempts, MaxUploads} \subseteq Nat \ {0}

Calls == Uploads \cup Deletes \cup Reads

VARIABLES
    secret,   \* TokenStore, in Obsidian's secret storage
    clients,  \* the instances built so far; those replaced go on
    current,  \* what LazyDropboxProxy delegates to
    calls,
    revoked   \* grants the user revoked at Dropbox

callVars == <<secret, clients, current, calls, revoked>>

NoTokens == {}  \* stored tokens are a set of at most one grant

\* effect: what the call did to its file at Dropbox; stale: its token had
\* expired when it was sent; session: the file is too large for one request;
\* echo: the size in the answer that was taken, if there was one.
IdleCall == [pc |-> "idle", client |-> {}, tries |-> 1,
             uploads |-> 1, retried |-> FALSE, stale |-> FALSE,
             session |-> FALSE, effect |-> "none", echo |-> "none",
             result |-> "none"]
NewClients(g) == [grant : {g}, expired : BOOLEAN, refreshing : {FALSE}, prev : {NoTokens}]

ClientOf(c) == CHOOSE k \in calls[c].client : TRUE

ClientTypeOK ==
    /\ secret \subseteq Grants /\ Cardinality(secret) <= 1
    /\ DOMAIN clients \subseteq Clients
    /\ \A k \in DOMAIN clients :
           clients[k].grant \in Grants /\ clients[k].prev \subseteq Grants
    /\ current \subseteq DOMAIN clients /\ Cardinality(current) <= 1
    /\ \A c \in Calls :
           /\ calls[c].pc \in {"idle", "refresh", "ready", "answer", "backoff"}
           /\ calls[c].client \subseteq DOMAIN clients
           /\ calls[c].tries \in 1..MaxAttempts
           /\ calls[c].uploads \in 1..MaxUploads
           /\ calls[c].session \in BOOLEAN
           /\ {calls[c].effect, calls[c].echo} \subseteq {"none", "part", "whole"}
           /\ calls[c].result \in {"none", "ok", "notFound", "revoked", "failed"}
    /\ revoked \subseteq Grants

ClientInit ==
    /\ clients = <<>> /\ current = {}
    /\ calls = [c \in Calls |-> IdleCall]
    /\ revoked = {}

SetCall(c, new) == calls' = [calls EXCEPT ![c] = new]

\* Calls are made through the proxy, which throws while no client was built.
\* The effect of one that failed is not asked for.
Ended(result, effect) ==
    [IdleCall EXCEPT !.result = result,
                     !.effect = IF result \in {"ok", "notFound"} THEN effect ELSE @]

\* refreshAndPersistTokens: whoever comes later waits for the one under way.
Refreshing(k, prev) ==
    clients' = IF clients[k].refreshing THEN clients
               ELSE [clients EXCEPT ![k].refreshing = TRUE, ![k].prev = prev]

\* runOp begins with maybeProactiveRefresh: the stored token may expire soon.
RunOp(c, call) ==
    \/ SetCall(c, [call EXCEPT !.pc = "ready"]) /\ UNCHANGED clients
    \/ /\ secret # NoTokens
       /\ SetCall(c, [call EXCEPT !.pc = "refresh"])
       /\ \E k \in call.client : Refreshing(k, secret)

\* uploadLarge chooses between one request and a session.
Issue(c) ==
    /\ calls[c].pc = "idle" /\ calls[c].result = "none" /\ current # {}
    /\ \E session \in BOOLEAN :
           /\ session => c \in Uploads
           /\ RunOp(c, [IdleCall EXCEPT !.client = current, !.session = session])
    /\ UNCHANGED <<secret, current, revoked>>

\* Mutant: a refresh that is under way already is not waited for.
AnswerExpiredAtOnce(c) ==
    LET k == ClientOf(c)
        again == [calls[c] EXCEPT !.retried = TRUE,
                      !.pc = IF clients[k].refreshing THEN "ready" ELSE "refresh"]
    IN  IF calls[c].retried
        THEN SetCall(c, Ended("revoked", "none")) /\ UNCHANGED clients
        ELSE SetCall(c, again) /\ Refreshing(k, NoTokens)

\* 401 expired: one refresh and one more attempt; again, it counts as revoked.
AnswerExpired(c) ==
    IF calls[c].retried
    THEN SetCall(c, Ended("revoked", "none")) /\ UNCHANGED clients
    ELSE /\ SetCall(c, [calls[c] EXCEPT !.pc = "refresh", !.retried = TRUE])
         /\ Refreshing(ClientOf(c), NoTokens)

Waiting(k) == {c \in Calls : calls[c].pc = "refresh" /\ calls[c].client = {k}}

\* Mutant: without stored tokens the refreshed ones are stored all the same.
StoreAnyway(k) ==
    IF clients[k].prev # NoTokens THEN clients[k].prev
    ELSE IF secret # NoTokens THEN secret ELSE {clients[k].grant}

\* What is stored: the tokens read before a proactive refresh, those stored
\* now after a reactive one, and nothing where there are none.
Refreshed(k) == IF clients[k].prev # NoTokens THEN clients[k].prev ELSE secret

\* doRefreshAndPersist; a failed save is logged only.
RefreshSucceeds(k) ==
    /\ k \in DOMAIN clients /\ clients[k].refreshing
    /\ clients[k].grant \notin revoked
    /\ clients' = [clients EXCEPT ![k].refreshing = FALSE, ![k].prev = NoTokens,
                                  ![k].expired = FALSE]
    /\ secret' \in {secret, Refreshed(k)}
    /\ calls' = [c \in Calls |-> IF c \in Waiting(k)
                                 THEN [calls[c] EXCEPT !.pc = "ready"] ELSE calls[c]]
    /\ UNCHANGED <<current, revoked>>

\* Mutant: the latch is cleared, but who waited is not told.
RefreshFailsSilently(k) ==
    /\ k \in DOMAIN clients /\ clients[k].refreshing
    /\ clients' = [clients EXCEPT ![k].refreshing = FALSE, ![k].prev = NoTokens]
    /\ UNCHANGED <<secret, current, calls, revoked>>

\* The error goes on unclassified: a call that came with a 401 ends, one that
\* only looked ahead goes on.
RefreshFails(k) ==
    /\ k \in DOMAIN clients /\ clients[k].refreshing
    /\ clients' = [clients EXCEPT ![k].refreshing = FALSE, ![k].prev = NoTokens]
    /\ calls' = [c \in Calls |->
           IF c \notin Waiting(k) THEN calls[c]
           ELSE IF calls[c].retried THEN Ended("failed", "none")
           ELSE [calls[c] EXCEPT !.pc = "ready"]]
    /\ UNCHANGED <<secret, current, revoked>>

\* The token bucket and the rate-limit gate delay a request, no more: both
\* waits are the time spent ready.
Send(c) ==
    /\ calls[c].pc = "ready"
    /\ SetCall(c, [calls[c] EXCEPT !.pc = "answer",
                                   !.stale = clients[ClientOf(c)].expired])
    /\ UNCHANGED <<secret, clients, current, revoked>>

\* retry's wait is over: withAuthRefresh starts anew.
Resume(c) ==
    /\ calls[c].pc = "backoff"
    /\ SetCall(c, [calls[c] EXCEPT !.pc = "ready", !.retried = FALSE])
    /\ UNCHANGED <<secret, clients, current, revoked>>

Retry(c, effect) ==
    SetCall(c, IF calls[c].tries = MaxAttempts THEN Ended("failed", effect)
               ELSE [calls[c] EXCEPT !.pc = "backoff", !.tries = @ + 1,
                                     !.effect = effect])

Accepted(c) == ~calls[c].stale /\ clients[ClientOf(c)].grant \notin revoked

\* 401: an expired token, or any other that is rejected.
Rejected(c) ==
    /\ calls[c].pc = "answer" /\ ~Accepted(c)
    /\ \/ /\ clients[ClientOf(c)].grant \in revoked
          /\ SetCall(c, Ended("revoked", "none")) /\ UNCHANGED clients
       \/ calls[c].stale /\ AnswerExpired(c)
    /\ UNCHANGED <<secret, current, revoked>>

\* What Dropbox does when it answers: requestUrl may cut the body of an upload.
Stored(c) == IF c \in Uploads THEN {"part", "whole"} ELSE {"whole"}

Succeeds(c) ==
    /\ calls[c].pc = "answer" /\ Accepted(c) /\ c \notin Uploads
    /\ c \in Deletes => calls[c].effect = "none"
    /\ SetCall(c, Ended("ok", "whole"))
    /\ UNCHANGED <<secret, clients, current, revoked>>

\* The size uploadBlob finds in the answer, or none.  What finishing a session
\* answers is not looked at.
Echoes(c, size) == IF calls[c].session THEN {"none"} ELSE {size, "none"}

\* Mutant: the size Dropbox echoes is not compared.
TakenUnseen(echo) == TRUE

\* An answer without a size cannot be verified, and is trusted.
Taken(echo) == echo \in {"none", "whole"}

\* After a short write uploadBlob uploads once more, as an operation of its own.
Uploaded(c) ==
    /\ calls[c].pc = "answer" /\ Accepted(c) /\ c \in Uploads
    /\ \E size \in Stored(c) : \E echo \in Echoes(c, size) :
           IF Taken(echo)
           THEN /\ SetCall(c, [Ended("ok", size) EXCEPT !.echo = echo])
                /\ UNCHANGED clients
           ELSE IF calls[c].uploads = MaxUploads
           THEN SetCall(c, Ended("failed", size)) /\ UNCHANGED clients
           ELSE RunOp(c, [calls[c] EXCEPT !.uploads = @ + 1, !.tries = 1,
                                          !.retried = FALSE, !.stale = FALSE,
                                          !.effect = size])
    /\ UNCHANGED <<secret, current, revoked>>

\* 409 not_found, also for a delete whose first answer was lost.
NotFound(c) ==
    /\ calls[c].pc = "answer" /\ Accepted(c)
    /\ c \in Deletes /\ calls[c].effect = "whole"
    /\ SetCall(c, Ended("notFound", "whole"))
    /\ UNCHANGED <<secret, clients, current, revoked>>

\* 5xx, 429, a transport error, malformed JSON: with or without effect.
Lost(c) ==
    /\ calls[c].pc = "answer"
    /\ \E effect \in {"none", "part", "whole"} :
           /\ effect = calls[c].effect \/ (Accepted(c) /\ effect \in Stored(c))
           /\ Retry(c, effect)
    /\ UNCHANGED <<secret, clients, current, revoked>>

\* 400, 507 and other conflicts, corrupt manifests.
Refused(c) ==
    /\ calls[c].pc = "answer" /\ Accepted(c)
    /\ SetCall(c, Ended("failed", "none"))
    /\ UNCHANGED <<secret, clients, current, revoked>>

Answer(c) ==
    \/ Rejected(c) \/ Succeeds(c) \/ Uploaded(c) \/ NotFound(c)
    \/ Lost(c) \/ Refused(c)

\* Access tokens last hours: one that was refreshed for a call does not expire
\* before the call used it.
Expire(k) ==
    /\ k \in DOMAIN clients /\ ~clients[k].expired
    /\ \A c \in Calls : ~calls[c].retried
    /\ clients' = [clients EXCEPT ![k].expired = TRUE]
    /\ UNCHANGED <<secret, current, calls, revoked>>

RevokeAtDropbox(g) ==
    /\ g \notin revoked /\ \E k \in DOMAIN clients : clients[k].grant = g
    /\ revoked' = revoked \cup {g}
    /\ UNCHANGED <<secret, clients, current, calls>>

CallStep(c) == Send(c) \/ Resume(c) \/ Answer(c)

RefreshStep(k) == RefreshSucceeds(k) \/ RefreshFails(k)
=============================================================================
