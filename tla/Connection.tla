----------------------------- MODULE Connection -----------------------------
(***************************************************************************)
(* Signing in and out around DropboxClient: OAuthConnectFlow, TokenStore,  *)
(* LegacyTokenMigration, and what main.ts does with them - the protocol    *)
(* handler, the e-mail backfill, Disconnect, the client behind the proxy.  *)
(***************************************************************************)
EXTENDS DropboxClient

CONSTANTS
    Flows,         \* sign-ins the user may begin; each gets a grant of its own
    Boot,          \* the client built when the plugin loads
    LegacyGrant    \* the grant of the tokens.json of old versions

ASSUME ConnectionAssumption ==
    /\ Clients = Flows \cup {Boot} /\ Boot \notin Flows
    /\ Grants = Flows \cup {LegacyGrant} /\ LegacyGrant \notin Flows

VARIABLES
    loaded,
    flows,     \* OAuthConnectFlow.pending, and the callbacks under way
    backfill,  \* tokens the backfill of the e-mail address holds
    legacy     \* tokens.json, until it was looked at

signIn == <<loaded, flows, backfill, legacy>>
vars == <<callVars, signIn>>

IdleFlow == [st |-> "none", held |-> NoTokens]

TypeOK ==
    /\ ClientTypeOK
    /\ loaded \in BOOLEAN
    /\ \A f \in Flows :
           /\ flows[f].st \in {"none", "open", "closed", "exchange", "email", "build"}
           /\ flows[f].held \subseteq Grants
    /\ backfill \subseteq Grants
    /\ legacy \in BOOLEAN

Init ==
    /\ ClientInit
    /\ secret \in {NoTokens, {LegacyGrant}}
    /\ loaded = FALSE
    /\ flows = [f \in Flows |-> IdleFlow]
    /\ backfill = NoTokens
    /\ legacy \in BOOLEAN

\* migrateLegacyTokensIfPresent: what is in the store afterwards, and tokens.json,
\* whose removal may fail.
Migrated == IF secret = NoTokens /\ legacy THEN {LegacyGrant} ELSE secret

\* buildDropboxClient.
Build(k) ==
    IF secret' = NoTokens THEN UNCHANGED <<clients, current>>
    ELSE /\ \E g \in secret' : \E new \in NewClients(g) :
                clients' = [j \in DOMAIN clients \cup {k} |->
                               IF j = k THEN new ELSE clients[j]]
         /\ current' = {k}

\* onload; an address that is missing is fetched.
Load ==
    /\ ~loaded /\ loaded' = TRUE
    /\ secret' = Migrated /\ legacy' = FALSE
    /\ Build(Boot)
    /\ backfill' \in {NoTokens, secret'}
    /\ UNCHANGED <<calls, revoked, flows>>

SetFlow(f, st) ==
    /\ flows' = [flows EXCEPT ![f].st = st]
    /\ UNCHANGED <<callVars, loaded, backfill, legacy>>

\* The limit on pending flows is left out: it is looked at before an await.
BeginAuth(f) == loaded /\ flows[f].st = "none" /\ SetFlow(f, "open")

\* obsidian://archivist-oauth, opened once or more: the state is used up, also
\* where the user refused or the flow is too old.  An unknown one changes nothing.
Callback(f) ==
    /\ loaded /\ flows[f].st = "open"
    /\ \E st \in {"exchange", "closed"} : SetFlow(f, st)

Exchange(f) ==
    /\ flows[f].st = "exchange"
    /\ secret' = {f}
    /\ flows' = [flows EXCEPT ![f] = [st |-> "email", held |-> secret']]
    /\ UNCHANGED <<clients, current, calls, revoked, loaded,
                   backfill, legacy>>

ExchangeFails(f) == flows[f].st = "exchange" /\ SetFlow(f, "closed")

\* The address arrives, or does not; the tokens of the exchange are stored again.
EmailAnswer(f) ==
    /\ flows[f].st = "email"
    /\ secret' \in {secret, flows[f].held}
    /\ flows' = [flows EXCEPT ![f] = [st |-> "build", held |-> NoTokens]]
    /\ UNCHANGED <<clients, current, calls, revoked, loaded, backfill, legacy>>

BuildAfterSignIn(f) ==
    /\ flows[f].st = "build"
    /\ flows' = [flows EXCEPT ![f].st = "closed"]
    /\ secret' = secret
    /\ Build(f)
    /\ UNCHANGED <<calls, revoked, loaded, backfill, legacy>>

BackfillAnswer ==
    /\ backfill # NoTokens /\ backfill' = NoTokens
    /\ secret' \in {secret, backfill}
    /\ UNCHANGED <<clients, current, calls, revoked, loaded, flows, legacy>>

\* The Disconnect button clears the store.  Nothing is revoked at Dropbox, and
\* the client stays behind the proxy.
Disconnect ==
    /\ loaded /\ secret # NoTokens
    /\ secret' = NoTokens
    /\ UNCHANGED <<clients, current, calls, revoked, loaded, flows, backfill, legacy>>

FlowStep(f) ==
    \/ BeginAuth(f) \/ Callback(f) \/ Exchange(f) \/ ExchangeFails(f)
    \/ EmailAnswer(f) \/ BuildAfterSignIn(f)

Next ==
    \/ Load \/ Disconnect \/ BackfillAnswer
    \/ \E f \in Flows : FlowStep(f)
    \/ /\ \/ \E c \in Calls : Issue(c) \/ CallStep(c)
          \/ \E k \in Clients : RefreshStep(k) \/ Expire(k)
          \/ \E g \in Grants : RevokeAtDropbox(g)
       /\ UNCHANGED signIn

Spec == Init /\ [][Next]_vars

\* Requests are answered, waits end.
Fairness ==
    /\ \A k \in Clients : WF_vars(RefreshStep(k) /\ UNCHANGED signIn)
    /\ \A c \in Calls : WF_vars(CallStep(c) /\ UNCHANGED signIn)

FairSpec == Spec /\ Fairness
=============================================================================
