-------------------------- MODULE Connection_proofs --------------------------
(***************************************************************************)
(* For any number of calls, sign-ins, retries and uploads, whatever the    *)
(* server answers and whenever the user signs in, disconnects or revokes.  *)
(***************************************************************************)
EXTENDS ConnectionProperties, TLAPS

(***************************************************************************)
(* Types.                                                                  *)
(***************************************************************************)
Call == [pc : {"idle", "refresh", "ready", "answer", "backoff"},
         client : SUBSET Clients, tries : Nat, uploads : Nat,
         retried : BOOLEAN, stale : BOOLEAN, session : BOOLEAN,
         effect : {"none", "part", "whole"}, echo : {"none", "part", "whole"},
         result : {"none", "ok", "notFound", "revoked", "failed"}]
Client == [grant : Grants, expired : BOOLEAN, refreshing : BOOLEAN, prev : SUBSET Grants]
Flow == [st : {"none", "open", "closed", "exchange", "email", "build"},
         held : SUBSET Grants]

Types ==
    /\ secret \in SUBSET Grants /\ backfill \in SUBSET Grants
    /\ loaded \in BOOLEAN
    /\ flows \in [Flows -> Flow]
    /\ DOMAIN clients \subseteq Clients /\ clients \in [DOMAIN clients -> Client]
    /\ current # {} => \E k \in DOMAIN clients : current = {k}
    /\ calls \in [Calls -> Call]
    /\ \A c \in Calls : calls[c].pc # "idle" =>
           \E k \in DOMAIN clients : calls[c].client = {k}

\* The size of what is stored; an upload that was taken, and one more try.
Effects == {"none", "part", "whole"}
Ack(e, echo) == [Ended("ok", e) EXCEPT !.echo = echo]
Reupload(c, e) == [calls[c] EXCEPT !.uploads = @ + 1, !.tries = 1, !.retried = FALSE,
                                   !.stale = FALSE, !.effect = e]

\* The values that calls, clients and flows start with or return to.
LEMMA Values ==
    /\ IdleCall \in Call /\ IdleFlow \in Flow
    /\ \A r \in {"ok", "notFound", "revoked", "failed"},
          e \in {"none", "part", "whole"} :
           /\ Ended(r, e) \in Call
           /\ Ended(r, e).pc = "idle" /\ Ended(r, e).result = r
           /\ Ended(r, e).echo = "none"
    /\ \A e, echo \in Effects : Ack(e, echo) \in Call
    /\ \A e, echo : LET new == Ack(e, echo)
                    IN  /\ new.pc = "idle" /\ new.result = "ok"
                        /\ new.effect = e /\ new.echo = echo
    /\ \A g \in Grants : NewClients(g) \subseteq Client
<1>1. IdleCall \in Call
  BY Zenon DEF IdleCall, Call
<1>2. IdleFlow \in Flow
  BY DEF IdleFlow, NoTokens, Flow
<1>3. ASSUME NEW r \in {"ok", "notFound", "revoked", "failed"},
             NEW e \in {"none", "part", "whole"}
      PROVE  /\ Ended(r, e) \in Call
             /\ Ended(r, e).pc = "idle" /\ Ended(r, e).result = r
             /\ Ended(r, e).echo = "none"
  <2>1. IdleCall.pc = "idle" /\ IdleCall.effect = "none" /\ IdleCall.echo = "none"
    BY DEF IdleCall
  <2> QED BY <1>1, <2>1 DEF Ended, Call
<1>3a. ASSUME NEW e \in Effects, NEW echo \in Effects PROVE Ack(e, echo) \in Call
  <2>1. Ended("ok", e) \in Call
    BY <1>3 DEF Effects
  <2>2. echo \in {"none", "part", "whole"}
    BY DEF Effects
  <2> QED BY <2>1, <2>2, Zenon DEF Ack, Call
<1>3b. ASSUME NEW e, NEW echo
       PROVE  LET new == Ack(e, echo)
              IN  /\ new.pc = "idle" /\ new.result = "ok"
                  /\ new.effect = e /\ new.echo = echo
  BY DEF Ack, Ended, IdleCall
<1>4. \A g \in Grants : NewClients(g) \subseteq Client
  <2>1. FALSE \in BOOLEAN
    OBVIOUS
  <2> QED BY <2>1 DEF NewClients, Client, NoTokens
<1> QED BY <1>1, <1>2, <1>3, <1>3a, <1>3b, <1>4

\* What becomes of an upload that was answered.
LEMMA UploadGoesOn ==
    ASSUME NEW c, Uploaded(c)
    PROVE  \E e \in {"part", "whole"}, echo \in Effects :
               \/ /\ SetCall(c, Ack(e, echo)) /\ UNCHANGED clients
                  /\ e = "whole" \/ echo = "none"
               \/ SetCall(c, Ended("failed", e)) /\ UNCHANGED clients
               \/ RunOp(c, Reupload(c, e))
<1> DEFINE Outcome(e, echo) ==
        IF Taken(echo) THEN SetCall(c, Ack(e, echo)) /\ UNCHANGED clients
        ELSE IF calls[c].uploads = MaxUploads
        THEN SetCall(c, Ended("failed", e)) /\ UNCHANGED clients
        ELSE RunOp(c, Reupload(c, e))
<1>1. PICK e \in Stored(c) : \E echo \in Echoes(c, e) : Outcome(e, echo)
  BY DEF Uploaded, Ack, Reupload
<1>1a. PICK echo \in Echoes(c, e) : Outcome(e, echo)
  BY <1>1
<1>2. e \in {"part", "whole"} /\ echo \in {e, "none"}
  BY <1>1, <1>1a DEF Stored, Echoes
<1>3. Taken(echo) => e = "whole" \/ echo = "none"
  BY <1>2 DEF Taken
<1> QED BY <1>1a, <1>2, <1>3 DEF Effects

\* Type correctness.
THEOREM TypesHold == Spec => []Types
<1>1. Init => Types
  <2> SUFFICES ASSUME Init PROVE Types
    OBVIOUS
  <2>1. clients = <<>> /\ current = {} /\ calls = [c \in Calls |-> IdleCall]
    BY DEF Init, ClientInit
  <2>2. clients \in [DOMAIN clients -> Client] /\ DOMAIN clients = {}
    BY <2>1
  <2>3. IdleCall.pc = "idle"
    BY DEF IdleCall
  <2>4. secret \in SUBSET Grants /\ backfill \in SUBSET Grants
    BY ConnectionAssumption DEF Init, NoTokens
  <2> QED BY <2>1, <2>2, <2>3, <2>4, Values DEF Init, Types
<1>2. Types /\ [Next]_vars => Types'
  <2> SUFFICES ASSUME Types, [Next]_vars PROVE Types'
    OBVIOUS
  \* A step of a call, and what it may do to its client.
  <2>1. ASSUME NEW c \in Calls, NEW k \in DOMAIN clients, NEW new \in Call,
               SetCall(c, new), new.pc # "idle" => new.client = {k},
               clients' = clients \/ \E prev \in SUBSET Grants : Refreshing(k, prev),
               UNCHANGED <<secret, current, signIn>>
        PROVE  Types'
    <3>1. DOMAIN clients' = DOMAIN clients /\ clients' \in [DOMAIN clients -> Client]
      <4>1. ASSUME NEW prev \in SUBSET Grants
            PROVE  [clients[k] EXCEPT !.refreshing = TRUE, !.prev = prev] \in Client
        <5>1. clients[k] \in Client /\ TRUE \in BOOLEAN
          BY DEF Types
        <5> QED BY <5>1, Zenon DEF Client
      <4>2. CASE clients' = clients
        BY <4>2 DEF Types
      <4>3. ASSUME NEW prev \in SUBSET Grants, Refreshing(k, prev)
            PROVE  DOMAIN clients' = DOMAIN clients /\ clients' \in [DOMAIN clients -> Client]
        <5>1. clients' = clients \/ clients' = [clients EXCEPT ![k] =
                  [clients[k] EXCEPT !.refreshing = TRUE, !.prev = prev]]
          BY <4>3 DEF Refreshing
        <5> QED BY <4>1, <5>1 DEF Types
      <4> QED BY <2>1, <4>2, <4>3
    <3>2. calls' \in [Calls -> Call]
      BY <2>1 DEF SetCall, Types
    <3>3. \A e \in Calls : calls'[e].pc # "idle" =>
              \E j \in DOMAIN clients' : calls'[e].client = {j}
      BY <2>1, <3>1 DEF SetCall, Types
    <3> QED BY <2>1, <3>1, <3>2, <3>3 DEF signIn, Types
  \* Building a client.
  <2>2. ASSUME NEW k \in Clients, secret' \in SUBSET Grants, Build(k),
               UNCHANGED calls, loaded' \in BOOLEAN, flows' \in [Flows -> Flow],
               backfill' \in SUBSET Grants
        PROVE  Types'
    <3>1. CASE UNCHANGED <<clients, current>>
      BY <2>2, <3>1 DEF Types
    <3>2. ASSUME NEW g \in Grants, NEW new \in NewClients(g),
                 clients' = [j \in DOMAIN clients \cup {k} |->
                                IF j = k THEN new ELSE clients[j]],
                 current' = {k}
          PROVE  Types'
      <4>1. new \in Client
        BY <3>2, Values
      <4>2. DOMAIN clients' = DOMAIN clients \cup {k}
               /\ clients' \in [DOMAIN clients' -> Client]
        BY <3>2, <4>1 DEF Types
      <4> QED BY <2>2, <3>2, <4>2 DEF Types
    <3> QED BY <2>2, <3>1, <3>2 DEF Build
  <2>3. CASE Load
    <3>1. secret' \in SUBSET Grants /\ Boot \in Clients
      BY <2>3, ConnectionAssumption DEF Load, Migrated, Types
    <3>2. loaded' = TRUE /\ UNCHANGED <<calls, flows>> /\ backfill' \in {NoTokens, secret'}
      BY <2>3 DEF Load
    <3> QED BY <2>2, <2>3, <3>1, <3>2 DEF Load, NoTokens, Types
  <2>4. CASE Disconnect
    BY <2>4 DEF Disconnect, NoTokens, Types
  <2>5. CASE BackfillAnswer
    BY <2>5 DEF BackfillAnswer, NoTokens, Types
  <2>6. ASSUME NEW f \in Flows, FlowStep(f) PROVE Types'
    <3>0. flows[f] \in Flow /\ f \in Grants /\ f \in Clients
      BY ConnectionAssumption DEF Types
    <3>1. ASSUME NEW st \in {"open", "closed", "exchange"}, SetFlow(f, st)
          PROVE  Types'
      <4>1. [flows[f] EXCEPT !.st = st] \in Flow
        BY <3>0 DEF Flow
      <4> QED BY <3>1, <4>1 DEF SetFlow, callVars, Types
    <3>2. CASE BeginAuth(f) \/ Callback(f) \/ ExchangeFails(f)
      BY <3>1, <3>2 DEF BeginAuth, Callback, ExchangeFails
    <3>3. CASE Exchange(f)
      <4>1. secret' = {f} /\ [st |-> "email", held |-> secret'] \in Flow
        BY <3>0, <3>3 DEF Exchange, Flow
      <4> QED BY <3>0, <3>3, <4>1 DEF Exchange, Types
    <3>4. CASE EmailAnswer(f)
      <4>1. secret' \in SUBSET Grants /\ [st |-> "build", held |-> NoTokens] \in Flow
        BY <3>0, <3>4 DEF EmailAnswer, NoTokens, Flow, Types
      <4> QED BY <3>4, <4>1 DEF EmailAnswer, Types
    <3>5. CASE BuildAfterSignIn(f)
      <4>1. [flows[f] EXCEPT !.st = "closed"] \in Flow
        BY <3>0 DEF Flow
      <4>2. flows' \in [Flows -> Flow] /\ secret' \in SUBSET Grants
        BY <3>5, <4>1 DEF BuildAfterSignIn, Types
      <4> QED BY <2>2, <3>0, <3>5, <4>2 DEF BuildAfterSignIn, Types
    <3> QED BY <2>6, <3>2, <3>3, <3>4, <3>5 DEF FlowStep
  <2>7. ASSUME NEW c \in Calls, Issue(c), UNCHANGED signIn PROVE Types'
    <3>1. PICK k \in DOMAIN clients : current = {k}
      BY <2>7 DEF Issue, Types
    <3>1a. PICK session \in BOOLEAN :
               RunOp(c, [IdleCall EXCEPT !.client = current, !.session = session])
      BY <2>7 DEF Issue
    <3> DEFINE call == [IdleCall EXCEPT !.client = current, !.session = session]
    <3>2. \A pc \in {"ready", "refresh"} :
              LET new == [call EXCEPT !.pc = pc]
              IN  new \in Call /\ new.client = {k}
      <4>1. IdleCall \in Call /\ {k} \in SUBSET Clients
        BY Values DEF Types
      <4>2. call \in Call
        BY <3>1, <4>1, Zenon DEF Call
      <4>3. call.client = {k}
        BY <3>1, <4>1 DEF Call
      <4> HIDE DEF call
      <4> QED BY <4>2, <4>3 DEF Call
    <3>3. call.client = {k}
      BY <3>1 DEF IdleCall
    <3>4. CASE SetCall(c, [call EXCEPT !.pc = "ready"]) /\ UNCHANGED clients
      BY <2>1, <2>7, <3>2, <3>4 DEF Issue
    <3>5. CASE SetCall(c, [call EXCEPT !.pc = "refresh"]) /\ Refreshing(k, secret)
      <4>1. secret \in SUBSET Grants
        BY DEF Types
      <4> QED BY <2>1, <2>7, <3>2, <3>5, <4>1 DEF Issue
    <3> QED BY <3>1a, <3>3, <3>4, <3>5 DEF RunOp
  <2>8. ASSUME NEW c \in Calls, CallStep(c), UNCHANGED signIn PROVE Types'
    <3> DEFINE r == calls[c]
    <3>1. r.pc # "idle"
      BY <2>8 DEF CallStep, Send, Resume, Answer, Rejected, Succeeds, Uploaded,
                  NotFound, Lost, Refused
    <3>2. PICK k \in DOMAIN clients : r.client = {k}
      BY <3>1 DEF Types
    <3>3. ClientOf(c) = k /\ clients[k] \in Client /\ r \in Call
      BY <3>2 DEF ClientOf, Types
    <3>4. UNCHANGED <<secret, current, signIn>>
      BY <2>8 DEF CallStep, Send, Resume, Answer, Rejected, Succeeds, Uploaded,
                  NotFound, Lost, Refused
    \* The ways in which a call goes on.
    <3>5. ASSUME NEW result \in {"ok", "notFound", "revoked", "failed"},
                 NEW e \in {"none", "part", "whole"},
                 SetCall(c, Ended(result, e)), UNCHANGED clients
          PROVE  Types'
      BY <2>1, <3>4, <3>5, Values
    <3>6. CASE Send(c)
      <4>1. clients[k].expired \in BOOLEAN
        BY <3>3 DEF Client
      <4>2. [r EXCEPT !.pc = "answer", !.stale = clients[k].expired] \in Call
        BY <3>3, <4>1, Zenon DEF Call
      <4>3. [r EXCEPT !.pc = "answer", !.stale = clients[k].expired].client = {k}
        BY <3>2, <3>3 DEF Call
      <4> QED BY <2>1, <3>3, <3>4, <3>6, <4>2, <4>3 DEF Send
    <3>7. CASE Resume(c)
      <4>1. [r EXCEPT !.pc = "ready", !.retried = FALSE] \in Call
        BY <3>3, Zenon DEF Call
      <4>2. [r EXCEPT !.pc = "ready", !.retried = FALSE].client = {k}
        BY <3>2, <3>3 DEF Call
      <4> QED BY <2>1, <3>4, <3>7, <4>1, <4>2 DEF Resume
    <3>8. CASE Rejected(c)
      <4> DEFINE again == [r EXCEPT !.pc = "refresh", !.retried = TRUE]
      <4>1. again \in Call
        BY <3>3, Zenon DEF Call
      <4>2. again.client = {k}
        BY <3>2, <3>3 DEF Call
      <4>3. CASE SetCall(c, again) /\ Refreshing(k, NoTokens)
        <5>1. NoTokens \in SUBSET Grants
          BY DEF NoTokens
        <5> QED BY <2>1, <3>4, <4>1, <4>2, <4>3, <5>1
      <4>4. CASE SetCall(c, Ended("revoked", "none")) /\ UNCHANGED clients
        BY <3>5, <4>4
      <4> QED BY <3>3, <3>8, <4>3, <4>4 DEF Rejected, AnswerExpired
    <3>9. CASE Uploaded(c)
      <4>0. PICK e \in {"part", "whole"}, echo \in Effects :
               \/ SetCall(c, Ack(e, echo)) /\ UNCHANGED clients
               \/ SetCall(c, Ended("failed", e)) /\ UNCHANGED clients
               \/ RunOp(c, Reupload(c, e))
        BY <3>9, UploadGoesOn
      <4> DEFINE again == Reupload(c, e)
      <4>1. r.uploads + 1 \in Nat /\ 1 \in Nat
        BY <3>3 DEF Call
      <4>2. again \in Call
        BY <3>3, <4>1, Zenon DEF Call, Reupload
      <4>3. again.client = {k}
        BY <3>2, <3>3 DEF Call, Reupload
      <4> HIDE DEF again
      <4>4. \A pc \in {"ready", "refresh"} :
                [again EXCEPT !.pc = pc] \in Call /\ [again EXCEPT !.pc = pc].client = {k}
        BY <4>2, <4>3 DEF Call
      <4>5. secret \in SUBSET Grants
        BY DEF Types
      <4>6. CASE SetCall(c, [again EXCEPT !.pc = "ready"]) /\ UNCHANGED clients
        BY <2>1, <3>4, <4>4, <4>6
      <4>7. CASE SetCall(c, [again EXCEPT !.pc = "refresh"]) /\ Refreshing(k, secret)
        BY <2>1, <3>4, <4>4, <4>5, <4>7
      <4>8. CASE RunOp(c, again)
        BY <4>3, <4>6, <4>7, <4>8 DEF RunOp
      <4>9. CASE SetCall(c, Ack(e, echo)) /\ UNCHANGED clients
        BY <2>1, <3>4, <4>9, Values DEF Effects
      <4> QED BY <3>5, <4>0, <4>8, <4>9 DEF again
    <3>10. CASE Lost(c)
      <4> SUFFICES ASSUME NEW e \in {"none", "part", "whole"}, Retry(c, e) PROVE Types'
        BY <3>3, <3>10 DEF Lost, Call
      <4> DEFINE again == [r EXCEPT !.pc = "backoff", !.tries = @ + 1, !.effect = e]
      <4>1. r.tries + 1 \in Nat
        BY <3>3 DEF Call
      <4>2. again \in Call
        BY <3>3, <4>1 DEF Call
      <4>3. again.client = {k}
        BY <3>2, <3>3 DEF Call
      <4>4. UNCHANGED clients
        BY <3>10 DEF Lost
      <4>5. SetCall(c, Ended("failed", e)) \/ SetCall(c, again)
        BY DEF Retry
      <4> QED BY <2>1, <3>4, <3>5, <4>2, <4>3, <4>4, <4>5
    <3>11. CASE Succeeds(c) \/ NotFound(c) \/ Refused(c)
      BY <3>5, <3>11 DEF Succeeds, NotFound, Refused
    <3> QED
      BY <2>8, <3>6, <3>7, <3>8, <3>9, <3>10, <3>11 DEF CallStep, Answer
  <2>9. ASSUME NEW k \in Clients, RefreshStep(k), UNCHANGED signIn PROVE Types'
    <3>1. k \in DOMAIN clients /\ clients[k] \in Client
      BY <2>9 DEF RefreshStep, RefreshSucceeds, RefreshFails, Types
    <3>2. /\ [clients[k] EXCEPT !.refreshing = FALSE, !.prev = NoTokens] \in Client
          /\ [clients[k] EXCEPT !.refreshing = FALSE, !.prev = NoTokens,
                                !.expired = FALSE] \in Client
      <4>1. FALSE \in BOOLEAN /\ NoTokens \in SUBSET Grants
        BY DEF NoTokens
      <4> QED BY <3>1, <4>1, Zenon DEF Client
    <3>3. DOMAIN clients' = DOMAIN clients /\ clients' \in [DOMAIN clients -> Client]
      BY <2>9, <3>1, <3>2 DEF RefreshStep, RefreshSucceeds, RefreshFails, Types
    <3>4. \A c \in Calls : /\ [calls[c] EXCEPT !.pc = "ready"] \in Call
                           /\ [calls[c] EXCEPT !.pc = "ready"].client = calls[c].client
      BY DEF Types, Call
    <3>5. calls' \in [Calls -> Call]
      BY <2>9, <3>4, Values DEF RefreshStep, RefreshSucceeds, RefreshFails, Types
    <3>6. \A c \in Calls : \/ calls'[c] = calls[c]
                           \/ calls'[c].pc = "idle"
                           \/ calls[c].pc = "refresh" /\ calls'[c].client = calls[c].client
      <4>1. CASE RefreshSucceeds(k)
        BY <3>4, <4>1 DEF RefreshSucceeds, Waiting
      <4>2. CASE RefreshFails(k)
        BY <3>4, <4>2, Values DEF RefreshFails, Waiting
      <4> QED BY <2>9, <4>1, <4>2 DEF RefreshStep
    <3>7. secret' \in SUBSET Grants
      BY <2>9, <3>1 DEF RefreshStep, RefreshSucceeds, RefreshFails, Refreshed, Types, Client
    <3> QED
      BY <2>9, <3>3, <3>5, <3>6, <3>7
         DEF RefreshStep, RefreshSucceeds, RefreshFails, signIn, Types
  <2>10. ASSUME NEW k \in Clients, Expire(k), UNCHANGED signIn PROVE Types'
    <3>1. [clients[k] EXCEPT !.expired = TRUE] \in Client
      <4>1. clients[k] \in Client /\ TRUE \in BOOLEAN
        BY <2>10 DEF Expire, Types
      <4> QED BY <4>1, Zenon DEF Client
    <3>2. /\ DOMAIN clients' = DOMAIN clients
          /\ clients' \in [DOMAIN clients -> Client]
      BY <2>10, <3>1 DEF Expire, Types
    <3> QED BY <2>10, <3>2 DEF Expire, signIn, Types
  <2>11. ASSUME NEW g \in Grants, RevokeAtDropbox(g), UNCHANGED signIn PROVE Types'
    BY <2>11 DEF RevokeAtDropbox, signIn, Types
  <2>12. CASE UNCHANGED vars
    BY <2>12 DEF vars, callVars, signIn, Types
  <2> QED
    BY <2>3, <2>4, <2>5, <2>6, <2>7, <2>8, <2>9, <2>10, <2>11, <2>12 DEF Next
<1> QED BY <1>1, <1>2, PTL DEF Spec

(***************************************************************************)
(* Signing out.                                                            *)
(***************************************************************************)
\* After a Disconnect tokens come back only through what had read them before
\* and is under way, or through a sign-in, and nothing copies them any more.
THEOREM DisconnectHoldsForGood == Spec => DisconnectHolds
<1> DEFINE Stays == secret' \subseteq Copies \cup SigningIn /\ Copies' \subseteq Copies
<1>1. ASSUME Types, [Next]_vars, loaded, secret = NoTokens PROVE Stays
  <2>0. ASSUME UNCHANGED <<clients, backfill>> PROVE Copies' \subseteq Copies
    BY <2>0 DEF Copies
  \* Without tokens a refresh copies none, and leaves the others alone.
  <2>1. ASSUME NEW k \in DOMAIN clients, UNCHANGED backfill,
               clients' = clients \/ \E new : /\ clients' = [clients EXCEPT ![k] = new]
                                              /\ new.prev \subseteq clients[k].prev
        PROVE  Copies' \subseteq Copies
    <3>1. /\ DOMAIN clients' = DOMAIN clients
          /\ \A j \in DOMAIN clients : clients'[j].prev \subseteq clients[j].prev
      BY <2>1 DEF Types
    <3> QED BY <2>1, <3>1 DEF Copies
  <2>2. ASSUME NEW k \in DOMAIN clients, UNCHANGED backfill,
               clients' = clients \/ Refreshing(k, NoTokens)
        PROVE  Copies' \subseteq Copies
    <3> DEFINE new == [clients[k] EXCEPT !.refreshing = TRUE, !.prev = NoTokens]
    <3>1. new.prev = NoTokens
      BY DEF Types, Client
    <3>2. clients' = clients \/ clients' = [clients EXCEPT ![k] = new]
      BY <2>2 DEF Refreshing
    <3> HIDE DEF new
    <3> QED BY <2>1, <2>2, <3>1, <3>2 DEF NoTokens
  <2>3. CASE Disconnect
    BY <1>1, <2>3 DEF Disconnect
  <2>4. CASE BackfillAnswer
    <3>1. backfill' \subseteq backfill /\ UNCHANGED clients
      BY <2>4 DEF BackfillAnswer, NoTokens
    <3>2. secret' \subseteq Copies
      BY <1>1, <2>4 DEF BackfillAnswer, NoTokens, Copies
    <3> QED BY <3>1, <3>2 DEF Copies
  <2>5. ASSUME NEW f \in Flows, FlowStep(f) PROVE Stays
    <3>1. CASE Exchange(f)
      <4>1. f \in SigningIn
        BY <3>1 DEF Exchange, SigningIn
      <4> QED BY <2>0, <3>1, <4>1 DEF Exchange
    <3>2. CASE EmailAnswer(f)
      <4>1. flows[f].held \subseteq SigningIn
        BY DEF SigningIn
      <4> QED BY <1>1, <2>0, <3>2, <4>1 DEF EmailAnswer, NoTokens
    <3>3. CASE \/ BeginAuth(f) \/ Callback(f) \/ ExchangeFails(f) \/ BuildAfterSignIn(f)
      BY <1>1, <2>0, <3>3 DEF BeginAuth, Callback, ExchangeFails, BuildAfterSignIn, Build,
                              SetFlow, callVars, NoTokens
    <3> QED BY <2>5, <3>1, <3>2, <3>3 DEF FlowStep
  <2>6. ASSUME NEW c \in Calls, Issue(c) \/ CallStep(c), UNCHANGED signIn PROVE Stays
    <3>1. UNCHANGED <<secret, backfill>>
      BY <2>6 DEF Issue, CallStep, Send, Resume, Answer, Rejected, Succeeds, Uploaded,
                  NotFound, Lost, Refused, signIn
    <3>2. ASSUME NEW call, RunOp(c, call) PROVE UNCHANGED clients
      BY <1>1, <3>2 DEF RunOp
    <3>3. CASE Issue(c)
      BY <1>1, <2>0, <3>1, <3>2, <3>3 DEF Issue, NoTokens
    <3>4. CASE Rejected(c)
      <4>0. calls[c].pc # "idle"
        BY <3>4 DEF Rejected
      <4>1. PICK k \in DOMAIN clients : calls[c].client = {k}
        BY <1>1, <4>0 DEF Types
      <4>2. ClientOf(c) = k
        BY <4>1 DEF ClientOf
      <4>3. clients' = clients \/ Refreshing(k, NoTokens)
        BY <3>4, <4>2 DEF Rejected, AnswerExpired
      <4> QED BY <1>1, <2>2, <3>1, <4>3 DEF NoTokens
    <3>5. CASE Uploaded(c)
      <4>1. UNCHANGED clients
        BY <3>2, <3>5, UploadGoesOn
      <4> QED BY <1>1, <2>0, <3>1, <4>1 DEF NoTokens
    <3>6. CASE Send(c) \/ Resume(c) \/ Succeeds(c) \/ NotFound(c) \/ Lost(c) \/ Refused(c)
      BY <1>1, <2>0, <3>1, <3>6 DEF Send, Resume, Succeeds, NotFound, Lost, Refused, NoTokens
    <3> QED BY <2>6, <3>3, <3>4, <3>5, <3>6 DEF CallStep, Answer
  <2>7. ASSUME NEW k \in Clients, RefreshStep(k) \/ Expire(k), UNCHANGED signIn PROVE Stays
    <3>1. k \in DOMAIN clients /\ clients[k] \in Client /\ UNCHANGED backfill
      BY <1>1, <2>7 DEF RefreshStep, RefreshSucceeds, RefreshFails, Expire, signIn, Types
    <3>2. Copies' \subseteq Copies
      <4>1. \E new : clients' = [clients EXCEPT ![k] = new] /\ new.prev \subseteq clients[k].prev
        <5>1. /\ [clients[k] EXCEPT !.refreshing = FALSE, !.prev = NoTokens].prev = NoTokens
              /\ [clients[k] EXCEPT !.refreshing = FALSE, !.prev = NoTokens,
                                    !.expired = FALSE].prev = NoTokens
              /\ [clients[k] EXCEPT !.expired = TRUE].prev = clients[k].prev
          BY <3>1 DEF Client
        <5>2. CASE RefreshSucceeds(k)
          BY <5>1, <5>2 DEF RefreshSucceeds, NoTokens
        <5>3. CASE RefreshFails(k)
          BY <5>1, <5>3 DEF RefreshFails, NoTokens
        <5>4. CASE Expire(k)
          BY <5>1, <5>4 DEF Expire
        <5> QED BY <2>7, <5>2, <5>3, <5>4 DEF RefreshStep
      <4> QED BY <2>1, <3>1, <4>1
    <3>3. secret' \subseteq Copies
      <4>1. CASE RefreshSucceeds(k)
        <5>1. secret' \subseteq clients[k].prev
          BY <1>1, <4>1 DEF RefreshSucceeds, Refreshed, NoTokens
        <5> QED BY <3>1, <5>1 DEF Copies
      <4>2. CASE RefreshFails(k) \/ Expire(k)
        BY <1>1, <4>2 DEF RefreshFails, Expire, NoTokens
      <4> QED BY <2>7, <4>1, <4>2 DEF RefreshStep
    <3> QED BY <3>2, <3>3
  <2>8. ASSUME NEW g \in Grants, RevokeAtDropbox(g), UNCHANGED signIn PROVE Stays
    BY <1>1, <2>0, <2>8 DEF RevokeAtDropbox, signIn, NoTokens
  <2>9. CASE UNCHANGED vars
    BY <1>1, <2>0, <2>9 DEF vars, callVars, signIn, NoTokens
  <2>10. ~Load
    BY <1>1 DEF Load
  <2> QED BY <1>1, <2>3, <2>4, <2>5, <2>6, <2>7, <2>8, <2>9, <2>10 DEF Next
<1>2. Types /\ [Next]_vars => [loaded /\ secret = NoTokens => Stays]_vars
  BY <1>1
<1> QED BY <1>2, TypesHold, PTL DEF Spec, DisconnectHolds

(***************************************************************************)
(* What success means.                                                     *)
(***************************************************************************)
\* A call under way has no result yet; an upload that is done was stored whole,
\* or the answer taken for it told no size.
AckInv ==
    /\ \A c \in Calls : calls[c].pc # "idle" => calls[c].result = "none"
    /\ AcknowledgedIsWhole

\* An answer with a size is taken for an upload only when all of it is stored,
\* whatever the server loses, repeats or truncates (uploadBlob, retry).
THEOREM AcknowledgedIsWholeHolds == Spec => []AcknowledgedIsWhole
<1>1. Init => AckInv
  BY DEF Init, ClientInit, IdleCall, AckInv, AcknowledgedIsWhole, Calls
<1>2. Types /\ AckInv /\ [Next]_vars => AckInv'
  <2> SUFFICES ASSUME Types, AckInv, [Next]_vars, NEW c \in Calls
               PROVE  /\ calls'[c].pc # "idle" => calls'[c].result = "none"
                      /\ c \in Uploads /\ calls'[c].result = "ok" =>
                             calls'[c].effect = "whole" \/ calls'[c].echo = "none"
    BY DEF AckInv, AcknowledgedIsWhole, Calls
  <2>0. calls[c] \in Call /\ IdleCall \in Call
    BY Values DEF Types
  \* A call goes on, ends, or is left alone.
  <2>1. \/ calls'[c] = calls[c]
        \/ calls'[c].result = "none"
        \/ /\ calls'[c].pc = "idle"
           /\ calls'[c].effect = "whole" \/ calls'[c].echo = "none"
    <3> DEFINE EndsWell == /\ calls'[c].pc = "idle"
                           /\ calls'[c].effect = "whole" \/ calls'[c].echo = "none"
               Goal == calls'[c] = calls[c] \/ calls'[c].result = "none" \/ EndsWell
    <3>1. ASSUME NEW d \in Calls, Issue(d) PROVE Goal
      <4> PICK session \in BOOLEAN :
               RunOp(d, [IdleCall EXCEPT !.client = current, !.session = session])
        BY <3>1 DEF Issue
      <4> DEFINE call == [IdleCall EXCEPT !.client = current, !.session = session]
      <4>1. \A pc : [call EXCEPT !.pc = pc].result = "none"
        BY DEF IdleCall
      <4>2. \E pc : SetCall(d, [call EXCEPT !.pc = pc])
        BY DEF RunOp
      <4> HIDE DEF call
      <4> QED BY <4>1, <4>2 DEF SetCall, Types
    <3>2. ASSUME NEW d \in Calls, CallStep(d) PROVE Goal
      <4>1. calls[d].pc # "idle" /\ calls[d] \in Call
        BY <3>2 DEF CallStep, Send, Resume, Answer, Rejected, Succeeds, Uploaded,
                    NotFound, Lost, Refused, Types
      <4>2. calls[d].result = "none"
        BY <4>1 DEF AckInv
      <4>3. ASSUME NEW new, new.result = "none", SetCall(d, new) PROVE Goal
        BY <4>3 DEF SetCall, Types
      <4>4. ASSUME NEW result \in {"ok", "notFound", "revoked", "failed"},
                   NEW e \in {"none", "part", "whole"}, SetCall(d, Ended(result, e))
            PROVE  Goal
        BY <4>4, Values DEF SetCall, Types
      <4>5. CASE Send(d) \/ Resume(d)
        BY <4>1, <4>2, <4>3, <4>5 DEF Send, Resume, Call
      <4>6. CASE Rejected(d)
        BY <4>1, <4>2, <4>3, <4>4, <4>6 DEF Rejected, AnswerExpired, Call
      <4>7. CASE Uploaded(d)
        <5>0. PICK e \in {"part", "whole"}, echo \in Effects :
                 \/ SetCall(d, Ack(e, echo)) /\ (e = "whole" \/ echo = "none")
                 \/ SetCall(d, Ended("failed", e))
                 \/ RunOp(d, Reupload(d, e))
          BY <4>7, UploadGoesOn
        <5>1. CASE SetCall(d, Ack(e, echo)) /\ (e = "whole" \/ echo = "none")
          BY <5>1, Values DEF SetCall, Types
        <5>2. CASE RunOp(d, Reupload(d, e))
          <6>1. \A pc : [Reupload(d, e) EXCEPT !.pc = pc].result = "none"
            BY <4>1, <4>2 DEF Call, Reupload
          <6> QED BY <4>3, <5>2, <6>1 DEF RunOp
        <5> QED BY <4>4, <5>0, <5>1, <5>2
      <4>8. CASE Lost(d)
        <5> SUFFICES ASSUME NEW e \in {"none", "part", "whole"}, Retry(d, e) PROVE Goal
          BY <4>1, <4>8 DEF Lost, Call
        <5>1. \/ SetCall(d, Ended("failed", e))
              \/ SetCall(d, [calls[d] EXCEPT !.pc = "backoff", !.tries = @ + 1, !.effect = e])
          BY DEF Retry
        <5>2. [calls[d] EXCEPT !.pc = "backoff", !.tries = @ + 1, !.effect = e].result = "none"
          BY <4>1, <4>2 DEF Call
        <5> QED BY <4>3, <4>4, <5>1, <5>2
      <4>9. CASE Succeeds(d) \/ NotFound(d) \/ Refused(d)
        BY <4>4, <4>9 DEF Succeeds, NotFound, Refused
      <4> QED BY <3>2, <4>5, <4>6, <4>7, <4>8, <4>9 DEF CallStep, Answer
    <3>3. ASSUME NEW k \in Clients, RefreshStep(k) PROVE Goal
      <4>1. \A d \in Calls : calls[d].pc = "refresh" =>
                [calls[d] EXCEPT !.pc = "ready"].result = "none"
        BY DEF AckInv, Types, Call
      <4>2. CASE RefreshSucceeds(k)
        BY <4>1, <4>2 DEF RefreshSucceeds, Waiting
      <4>3. CASE RefreshFails(k)
        <5>1. EndsWell \/ calls'[c] # Ended("failed", "none")
          BY Values
        <5> QED BY <4>1, <4>3, <5>1 DEF RefreshFails, Waiting
      <4> QED BY <3>3, <4>2, <4>3 DEF RefreshStep
    <3>4. CASE UNCHANGED calls
      BY <3>4
    <3> QED
      BY <3>1, <3>2, <3>3, <3>4
         DEF Next, Load, Disconnect, BackfillAnswer, FlowStep, BeginAuth, Callback, Exchange,
             ExchangeFails, EmailAnswer, BuildAfterSignIn, SetFlow, Expire, RevokeAtDropbox,
             callVars, vars
  <2> QED BY <2>1 DEF AckInv, AcknowledgedIsWhole
<1>3. AckInv => AcknowledgedIsWhole
  BY DEF AckInv
<1> QED BY <1>1, <1>2, <1>3, TypesHold, PTL DEF Spec

(***************************************************************************)
(* What a revoked sign-in means.                                           *)
(***************************************************************************)
\* Who waits for a refresh has one under way, and who came back from one that
\* its own 401 asked for has a token that holds; a client is built once.
CallInv(c) ==
    \A k \in DOMAIN clients : calls[c].client = {k} =>
        /\ calls[c].pc = "refresh" => clients[k].refreshing = TRUE
        /\ calls[c].retried = TRUE /\ calls[c].pc = "ready" => clients[k].expired = FALSE
        /\ calls[c].retried = TRUE /\ calls[c].pc = "answer" => calls[c].stale = FALSE

RefreshInv ==
    /\ \A c \in Calls : CallInv(c)
    /\ \A f \in Flows : f \in DOMAIN clients => flows[f].st = "closed"
    /\ Boot \in DOMAIN clients => loaded = TRUE

\* An expired token is refreshed for every call that meets it; a call reports
\* the sign-in as revoked only where it was (withAuthRefresh).
THEOREM RevokedMeansRevokedHolds == Spec => RevokedMeansRevoked
<1>1. Init => RefreshInv
  BY DEF Init, ClientInit, IdleCall, RefreshInv, CallInv
<1>2. Types /\ RefreshInv /\ [Next]_vars => RefreshInv'
  <2> SUFFICES ASSUME Types, RefreshInv, [Next]_vars PROVE RefreshInv'
    OBVIOUS
  <2>0. ASSUME DOMAIN clients' = DOMAIN clients, UNCHANGED signIn,
               \A c \in Calls : CallInv(c)'
        PROVE  RefreshInv'
    BY <2>0 DEF RefreshInv, signIn
  \* A client is built under a key that no call uses.
  <2>1. ASSUME NEW k \in Clients \ DOMAIN clients, Build(k), UNCHANGED calls
        PROVE  /\ \A c \in Calls : CallInv(c)'
               /\ DOMAIN clients' \subseteq DOMAIN clients \cup {k}
    <3>1. CASE UNCHANGED clients
      BY <2>1, <3>1 DEF RefreshInv, CallInv
    <3>2. ASSUME NEW new, clients' = [j \in DOMAIN clients \cup {k} |->
                                         IF j = k THEN new ELSE clients[j]]
          PROVE  /\ \A c \in Calls : CallInv(c)'
                 /\ DOMAIN clients' \subseteq DOMAIN clients \cup {k}
      <4>1. \A c \in Calls : calls[c].pc # "idle" => calls[c].client # {k}
        BY <2>1 DEF Types
      <4> QED BY <2>1, <3>2, <4>1 DEF RefreshInv, CallInv
    <3> QED BY <2>1, <3>1, <3>2 DEF Build
  <2>2. CASE Load
    <3>1. Boot \in Clients \ DOMAIN clients /\ \A f \in Flows : f # Boot
      BY <2>2, ConnectionAssumption DEF Load, RefreshInv
    <3> QED BY <2>1, <2>2, <3>1 DEF Load, RefreshInv
  <2>3. CASE Disconnect \/ BackfillAnswer \/ UNCHANGED vars
    BY <2>3 DEF Disconnect, BackfillAnswer, vars, callVars, signIn, RefreshInv, CallInv
  <2>4. ASSUME NEW f \in Flows, FlowStep(f) PROVE RefreshInv'
    <3>1. CASE BuildAfterSignIn(f)
      <4>1. f \in Clients \ DOMAIN clients /\ f # Boot
        BY <3>1, ConnectionAssumption DEF BuildAfterSignIn, RefreshInv
      <4>2. /\ \A e \in Flows \ {f} : flows'[e] = flows[e]
            /\ flows'[f].st = "closed" /\ loaded' = loaded
        BY <3>1 DEF BuildAfterSignIn, Types, Flow
      <4> QED BY <2>1, <3>1, <4>1, <4>2 DEF BuildAfterSignIn, RefreshInv
    <3>2. CASE BeginAuth(f) \/ Callback(f) \/ Exchange(f) \/ ExchangeFails(f) \/ EmailAnswer(f)
      <4>1. UNCHANGED <<clients, calls, loaded>> /\ flows[f].st # "closed"
        BY <3>2 DEF BeginAuth, Callback, Exchange, ExchangeFails, EmailAnswer, SetFlow,
                    callVars
      <4>2. \A e \in Flows \ {f} : flows'[e] = flows[e]
        BY <3>2 DEF BeginAuth, Callback, Exchange, ExchangeFails, EmailAnswer, SetFlow,
                    Types
      <4> QED BY <4>1, <4>2 DEF RefreshInv, CallInv
    <3> QED BY <2>4, <3>1, <3>2 DEF FlowStep
  \* A refresh that is asked for, or under way, changes nothing else.
  <2>4a. ASSUME NEW k \in DOMAIN clients, NEW prev, Refreshing(k, prev)
         PROVE  /\ DOMAIN clients' = DOMAIN clients /\ clients'[k].refreshing = TRUE
                /\ \A j \in DOMAIN clients :
                       /\ clients'[j].expired = clients[j].expired
                       /\ clients[j].refreshing = TRUE => clients'[j].refreshing = TRUE
    <3>1. clients[k] \in Client
      BY DEF Types
    <3>2. CASE clients[k].refreshing = TRUE
      BY <2>4a, <3>2 DEF Refreshing
    <3>3. CASE clients[k].refreshing = FALSE
      <4> DEFINE new == [clients[k] EXCEPT !.refreshing = TRUE, !.prev = prev]
      <4>1. new.refreshing = TRUE /\ new.expired = clients[k].expired
        BY <3>1 DEF Client
      <4>2. clients' = [clients EXCEPT ![k] = new]
        BY <2>4a, <3>3 DEF Refreshing
      <4> HIDE DEF new
      <4> QED BY <4>1, <4>2 DEF Types
    <3> QED BY <3>1, <3>2, <3>3 DEF Client
  \* A step of one call that may ask for a refresh.
  <2>5. ASSUME NEW c \in Calls, NEW k \in DOMAIN clients, NEW new, SetCall(c, new),
               UNCHANGED signIn,
               clients' = clients \/ \E prev : Refreshing(k, prev),
               new.pc = "refresh" => new.client = {k} /\ \E prev : Refreshing(k, prev),
               new.pc = "ready" => new.retried = FALSE,
               new.pc = "answer" => /\ new.client = {k}
                                    /\ new.retried = TRUE => new.stale = FALSE
        PROVE  RefreshInv'
    <3>1. /\ DOMAIN clients' = DOMAIN clients
          /\ \A j \in DOMAIN clients :
                 /\ clients'[j].expired = clients[j].expired
                 /\ clients[j].refreshing = TRUE => clients'[j].refreshing = TRUE
          /\ new.pc = "refresh" => clients'[k].refreshing = TRUE
      BY <2>5, <2>4a
    <3>2. CallInv(c)'
      BY <2>5, <3>1 DEF SetCall, CallInv, Types
    <3>3. \A d \in Calls \ {c} : CallInv(d)'
      <4>1. \A d \in Calls \ {c} : calls'[d] = calls[d]
        BY <2>5 DEF SetCall, Types
      <4> QED BY <3>1, <4>1 DEF RefreshInv, CallInv
    <3> QED BY <2>0, <2>5, <3>1, <3>2, <3>3
  <2>6. ASSUME NEW c \in Calls, Issue(c), UNCHANGED signIn PROVE RefreshInv'
    <3>1. PICK k \in DOMAIN clients : current = {k}
      BY <2>6 DEF Issue, Types
    <3>1a. PICK session \in BOOLEAN :
               RunOp(c, [IdleCall EXCEPT !.client = current, !.session = session])
      BY <2>6 DEF Issue
    <3> DEFINE call == [IdleCall EXCEPT !.client = current, !.session = session]
    <3>2. call.client = {k} /\ \A pc : LET new == [call EXCEPT !.pc = pc]
                                       IN  new.client = {k} /\ new.retried = FALSE /\ new.pc = pc
      BY <3>1 DEF IdleCall
    <3> HIDE DEF call
    <3>3. \/ SetCall(c, [call EXCEPT !.pc = "ready"]) /\ UNCHANGED clients
          \/ SetCall(c, [call EXCEPT !.pc = "refresh"]) /\ Refreshing(k, secret)
      BY <3>1a, <3>2 DEF RunOp, call
    <3> QED BY <2>5, <2>6, <3>2, <3>3
  <2>7. ASSUME NEW c \in Calls, CallStep(c), UNCHANGED signIn PROVE RefreshInv'
    <3> DEFINE r == calls[c]
    <3>1. r.pc # "idle"
      BY <2>7 DEF CallStep, Send, Resume, Answer, Rejected, Succeeds, Uploaded,
                  NotFound, Lost, Refused
    <3>2. PICK k \in DOMAIN clients : r.client = {k}
      BY <3>1 DEF Types
    <3>3. ClientOf(c) = k /\ clients[k] \in Client /\ r \in Call
      BY <3>2 DEF ClientOf, Types
    <3>4. ASSUME NEW result \in {"ok", "notFound", "revoked", "failed"},
                 NEW e \in {"none", "part", "whole"},
                 SetCall(c, Ended(result, e)), UNCHANGED clients
          PROVE  RefreshInv'
      BY <2>5, <2>7, <3>4, Values
    <3>5. CASE Send(c)
      <4> DEFINE new == [r EXCEPT !.pc = "answer", !.stale = clients[k].expired]
      <4>1. /\ new.pc = "answer" /\ new.client = {k} /\ new.stale = clients[k].expired
            /\ new.retried = r.retried
        BY <3>2, <3>3 DEF Call
      <4>2. r.retried = TRUE => clients[k].expired = FALSE
        BY <3>2, <3>5 DEF Send, RefreshInv, CallInv
      <4>3. SetCall(c, new) /\ UNCHANGED clients
        BY <3>3, <3>5 DEF Send
      <4> HIDE DEF new
      <4> QED BY <2>5, <2>7, <4>1, <4>2, <4>3
    <3>6. CASE Resume(c)
      <4> DEFINE new == [r EXCEPT !.pc = "ready", !.retried = FALSE]
      <4>1. new.pc = "ready" /\ new.retried = FALSE
        BY <3>3 DEF Call
      <4>2. SetCall(c, new) /\ UNCHANGED clients
        BY <3>6 DEF Resume
      <4> HIDE DEF new
      <4> QED BY <2>5, <2>7, <4>1, <4>2
    <3>7. CASE Rejected(c)
      <4> DEFINE new == [r EXCEPT !.pc = "refresh", !.retried = TRUE]
      <4>1. new.pc = "refresh" /\ new.client = {k}
        BY <3>2, <3>3 DEF Call
      <4>2. \/ SetCall(c, Ended("revoked", "none")) /\ UNCHANGED clients
            \/ SetCall(c, new) /\ Refreshing(k, NoTokens)
        BY <3>3, <3>7 DEF Rejected, AnswerExpired
      <4> HIDE DEF new
      <4>3. CASE SetCall(c, new) /\ Refreshing(k, NoTokens)
        BY <2>5, <2>7, <4>1, <4>3
      <4> QED BY <3>4, <4>2, <4>3
    <3>8. CASE Uploaded(c)
      <4>0. PICK e \in {"part", "whole"}, echo \in Effects :
               \/ SetCall(c, Ack(e, echo)) /\ UNCHANGED clients
               \/ SetCall(c, Ended("failed", e)) /\ UNCHANGED clients
               \/ RunOp(c, Reupload(c, e))
        BY <3>8, UploadGoesOn
      <4>3. CASE SetCall(c, Ack(e, echo)) /\ UNCHANGED clients
        BY <2>5, <2>7, <4>3, Values
      <4>4. CASE RunOp(c, Reupload(c, e))
        <5> DEFINE ready == [Reupload(c, e) EXCEPT !.pc = "ready"]
                   wait == [Reupload(c, e) EXCEPT !.pc = "refresh"]
        <5>1. /\ ready.pc = "ready" /\ ready.retried = FALSE
              /\ wait.pc = "refresh" /\ wait.client = {k}
              /\ Reupload(c, e).client = {k}
          BY <3>2, <3>3 DEF Call, Reupload
        <5>2. \/ SetCall(c, ready) /\ UNCHANGED clients
              \/ SetCall(c, wait) /\ Refreshing(k, secret)
          BY <4>4, <5>1 DEF RunOp
        <5> HIDE DEF ready, wait
        <5>3. CASE SetCall(c, ready) /\ UNCHANGED clients
          BY <2>5, <2>7, <5>1, <5>3
        <5>4. CASE SetCall(c, wait) /\ Refreshing(k, secret)
          BY <2>5, <2>7, <5>1, <5>4
        <5> QED BY <5>2, <5>3, <5>4
      <4> QED BY <3>4, <4>0, <4>3, <4>4
    <3>9. CASE Lost(c)
      <4> SUFFICES ASSUME NEW e \in {"none", "part", "whole"}, Retry(c, e) PROVE RefreshInv'
        BY <3>3, <3>9 DEF Lost, Call
      <4> DEFINE new == [r EXCEPT !.pc = "backoff", !.tries = @ + 1, !.effect = e]
      <4>1. new.pc = "backoff"
        BY <3>3 DEF Call
      <4>2. (SetCall(c, Ended("failed", e)) \/ SetCall(c, new)) /\ UNCHANGED clients
        BY <3>9 DEF Lost, Retry
      <4> HIDE DEF new
      <4>3. CASE SetCall(c, new)
        BY <2>5, <2>7, <4>1, <4>2, <4>3
      <4> QED BY <3>4, <4>2, <4>3
    <3>10. CASE Succeeds(c) \/ NotFound(c) \/ Refused(c)
      BY <3>4, <3>10 DEF Succeeds, NotFound, Refused
    <3> QED
      BY <2>7, <3>5, <3>6, <3>7, <3>8, <3>9, <3>10 DEF CallStep, Answer
  <2>8. ASSUME NEW k \in Clients, RefreshStep(k), UNCHANGED signIn PROVE RefreshInv'
    <3>1. k \in DOMAIN clients /\ clients[k] \in Client
      BY <2>8 DEF RefreshStep, RefreshSucceeds, RefreshFails, Types
    <3>2. /\ DOMAIN clients' = DOMAIN clients
          /\ \A j \in DOMAIN clients \ {k} : clients'[j] = clients[j]
      BY <2>8 DEF RefreshStep, RefreshSucceeds, RefreshFails, Types
    <3>3. \A c \in Calls :
              LET new == [calls[c] EXCEPT !.pc = "ready"]
              IN  new.pc = "ready" /\ new.retried = calls[c].retried
                     /\ new.client = calls[c].client
      BY DEF Types, Call
    <3>4. CASE RefreshSucceeds(k)
      <4>1. clients'[k].expired = FALSE
        BY <3>1, <3>4 DEF RefreshSucceeds, Types, Client
      <4>2. \A c \in Calls : CallInv(c)'
        <5> SUFFICES ASSUME NEW c \in Calls, NEW j \in DOMAIN clients,
                            calls'[c].client = {j}
                     PROVE  CallInv(c)'
          BY <3>2 DEF CallInv
        <5>1. CASE c \in Waiting(k)
          <6>1. calls'[c] = [calls[c] EXCEPT !.pc = "ready"] /\ calls[c].client = {k}
            BY <3>4, <5>1 DEF RefreshSucceeds, Waiting
          <6> QED BY <3>2, <3>3, <4>1, <6>1 DEF CallInv
        <5>2. CASE c \notin Waiting(k)
          <6>1. calls'[c] = calls[c]
            BY <3>4, <5>2 DEF RefreshSucceeds
          <6>2. calls[c].client = {k} => calls[c].pc # "refresh"
            BY <5>2 DEF Waiting
          <6> QED BY <3>2, <4>1, <6>1, <6>2 DEF RefreshInv, CallInv
        <5> QED BY <5>1, <5>2
      <4> QED BY <2>0, <2>8, <3>2, <4>2
    <3>5. CASE RefreshFails(k)
      <4>1. clients'[k].expired = clients[k].expired
        BY <3>1, <3>5 DEF RefreshFails, Types, Client
      <4>2. Ended("failed", "none").pc = "idle"
        BY Values
      <4>3. \A c \in Calls : CallInv(c)'
        <5> SUFFICES ASSUME NEW c \in Calls, NEW j \in DOMAIN clients,
                            calls'[c].client = {j}, calls'[c].pc # "idle"
                     PROVE  CallInv(c)'
          BY <3>2 DEF CallInv
        <5>1. CASE c \in Waiting(k)
          <6>1. calls'[c] = [calls[c] EXCEPT !.pc = "ready"] /\ ~calls[c].retried
            BY <3>5, <4>2, <5>1 DEF RefreshFails
          <6> QED BY <3>3, <6>1 DEF CallInv
        <5>2. CASE c \notin Waiting(k)
          <6>1. calls'[c] = calls[c]
            BY <3>5, <5>2 DEF RefreshFails
          <6>2. calls[c].client = {k} => calls[c].pc # "refresh"
            BY <5>2 DEF Waiting
          <6> QED BY <3>2, <4>1, <6>1, <6>2 DEF RefreshInv, CallInv
        <5> QED BY <5>1, <5>2
      <4> QED BY <2>0, <2>8, <3>2, <4>3
    <3> QED BY <2>8, <3>4, <3>5 DEF RefreshStep
  <2>9. ASSUME NEW k \in Clients, Expire(k), UNCHANGED signIn PROVE RefreshInv'
    <3>1. clients[k] \in Client
      BY <2>9 DEF Expire, Types
    <3>2. /\ DOMAIN clients' = DOMAIN clients
          /\ \A j \in DOMAIN clients : clients'[j].refreshing = clients[j].refreshing
      BY <2>9, <3>1 DEF Expire, Types, Client
    <3>3. \A c \in Calls : CallInv(c)'
      BY <2>9, <3>2 DEF Expire, RefreshInv, CallInv
    <3> QED BY <2>0, <2>9, <3>2, <3>3
  <2>10. ASSUME NEW g \in Grants, RevokeAtDropbox(g), UNCHANGED signIn PROVE RefreshInv'
    BY <2>10 DEF RevokeAtDropbox, signIn, RefreshInv, CallInv
  <2> QED
    BY <2>2, <2>3, <2>4, <2>6, <2>7, <2>8, <2>9, <2>10 DEF Next
<1> DEFINE Revoked == \A c \in Calls : Ends(c) /\ calls'[c].result = "revoked"
                                           => clients[ClientOf(c)].grant \in revoked
<1>3. Types /\ RefreshInv /\ [Next]_vars => [Revoked]_vars
  <2> SUFFICES ASSUME Types, RefreshInv, [Next]_vars, NEW c \in Calls, Ends(c),
                      calls'[c].result = "revoked"
               PROVE  clients[ClientOf(c)].grant \in revoked
    OBVIOUS
  <2>0. calls'[c] # calls[c] /\ calls[c].pc # "idle" /\ calls'[c].pc = "idle"
    BY DEF Ends
  <2>1. Ended("failed", "none").result = "failed"
    BY Values
  <2>2. ~ \E k \in Clients : RefreshStep(k)
    <3> SUFFICES ASSUME NEW k \in Clients, RefreshStep(k) PROVE FALSE
      OBVIOUS
    <3>1. [calls[c] EXCEPT !.pc = "ready"].pc = "ready"
      BY DEF Types, Call
    <3>2. CASE RefreshSucceeds(k)
      BY <2>0, <3>1, <3>2 DEF RefreshSucceeds
    <3>3. CASE RefreshFails(k)
      <4>1. calls'[c] \in {calls[c], Ended("failed", "none"), [calls[c] EXCEPT !.pc = "ready"]}
        BY <3>3 DEF RefreshFails
      <4> QED BY <2>0, <2>1, <3>1, <4>1
    <3> QED BY <3>2, <3>3 DEF RefreshStep
  <2>3. UNCHANGED calls \/ \E d \in Calls : Issue(d) \/ CallStep(d)
    BY <2>2 DEF Next, Load, Disconnect, BackfillAnswer, FlowStep, BeginAuth, Callback, Exchange,
           ExchangeFails, EmailAnswer, BuildAfterSignIn, SetFlow, Expire, RevokeAtDropbox,
           callVars, vars
  <2>4. PICK d \in Calls : Issue(d) \/ CallStep(d)
    BY <2>0, <2>3
  <2>5. d = c
    <3>1. \E new : SetCall(d, new)
      BY <2>4 DEF Issue, RunOp, CallStep, Send, Resume, Answer, Rejected, AnswerExpired,
                  Succeeds, Uploaded, NotFound, Lost, Retry, Refused
    <3> QED BY <2>0, <3>1 DEF SetCall, Types
  <2>6. CallStep(c)
    BY <2>0, <2>4, <2>5 DEF Issue
  <2> DEFINE r == calls[c]
  <2>7. PICK k \in DOMAIN clients : r.client = {k}
    BY <2>0 DEF Types
  <2>8. ClientOf(c) = k /\ r \in Call
    BY <2>7 DEF ClientOf, Types
  <2>9. ASSUME NEW new, new.pc # "idle", SetCall(c, new) PROVE FALSE
    BY <2>0, <2>9 DEF SetCall, Types
  <2>10. ASSUME NEW result \in {"ok", "notFound", "failed"}, NEW e \in {"none", "part", "whole"},
                SetCall(c, Ended(result, e))
         PROVE  FALSE
    BY <2>10, Values DEF SetCall, Types
  <2>11. CASE Send(c) \/ Resume(c)
    BY <2>8, <2>9, <2>11 DEF Send, Resume, Call
  <2>12. CASE Rejected(c)
    <3>1. r.retried = TRUE => r.stale = FALSE
      BY <2>7, <2>12 DEF Rejected, RefreshInv, CallInv
    <3>2. [r EXCEPT !.pc = "refresh", !.retried = TRUE].pc = "refresh"
      BY <2>8 DEF Call
    <3>3. CASE r.stale /\ AnswerExpired(c)
      <4>1. ~r.retried
        BY <2>8, <3>1, <3>3 DEF Call
      <4>2. SetCall(c, [r EXCEPT !.pc = "refresh", !.retried = TRUE])
        BY <3>3, <4>1 DEF AnswerExpired
      <4> QED BY <2>9, <3>2, <4>2
    <3> QED BY <2>12, <3>3 DEF Rejected
  <2>13. CASE Uploaded(c)
    <3>1. PICK e \in {"part", "whole"}, echo \in Effects :
              \/ SetCall(c, Ack(e, echo))
              \/ SetCall(c, Ended("failed", e))
              \/ RunOp(c, Reupload(c, e))
      BY <2>13, UploadGoesOn
    <3>2. CASE SetCall(c, Ack(e, echo))
      BY <3>2, Values DEF SetCall, Types
    <3>3. CASE RunOp(c, Reupload(c, e))
      <4>1. \A pc : [Reupload(c, e) EXCEPT !.pc = pc].pc = pc
        BY <2>8 DEF Call, Reupload
      <4>2. \E pc \in {"ready", "refresh"} : SetCall(c, [Reupload(c, e) EXCEPT !.pc = pc])
        BY <3>3 DEF RunOp
      <4> QED BY <2>9, <4>1, <4>2
    <3> QED BY <2>10, <3>1, <3>2, <3>3
  <2>14. CASE Lost(c)
    <3> SUFFICES ASSUME NEW e \in {"none", "part", "whole"}, Retry(c, e) PROVE FALSE
      BY <2>8, <2>14 DEF Lost, Call
    <3> DEFINE new == [r EXCEPT !.pc = "backoff", !.tries = @ + 1, !.effect = e]
    <3>1. new.pc = "backoff"
      BY <2>8 DEF Call
    <3>2. SetCall(c, Ended("failed", e)) \/ SetCall(c, new)
      BY DEF Retry
    <3> HIDE DEF new
    <3> QED BY <2>9, <2>10, <3>1, <3>2
  <2>15. CASE Succeeds(c) \/ NotFound(c) \/ Refused(c)
    BY <2>10, <2>15 DEF Succeeds, NotFound, Refused
  <2> QED
    BY <2>6, <2>11, <2>12, <2>13, <2>14, <2>15 DEF CallStep, Answer
<1> QED BY <1>1, <1>2, <1>3, TypesHold, PTL DEF Spec, RevokedMeansRevoked
=============================================================================
