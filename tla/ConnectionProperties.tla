------------------------ MODULE ConnectionProperties ------------------------
(* What the Dropbox connection promises the rest of the plugin. *)
EXTENDS Connection

Ends(c) == calls[c].pc # "idle" /\ calls'[c].pc = "idle"

(* An upload reported as done is stored whole, whatever answers were lost, *)
(* repeated or truncated on the way, if the answer that was taken told the *)
(* size of what is stored.  Named out: an answer without a size, and the   *)
(* upload session of a large file, whose answers are not looked at         *)
(* (uploadBlob, uploadLarge, retry).                                       *)
AcknowledgedIsWhole ==
    \A c \in Uploads :
        calls[c].result = "ok" => calls[c].effect = "whole" \/ calls[c].echo = "none"

(* A call reports the sign-in as revoked, which stops backups until the    *)
(* user signs in again, only if it was: an expired token that two calls    *)
(* meet at once is refreshed for both (withAuthRefresh, refreshInFlight).  *)
RevokedMeansRevoked ==
    [][\A c \in Calls : Ends(c) /\ calls'[c].result = "revoked"
                           => clients[ClientOf(c)].grant \in revoked]_vars

\* Tokens read from the store that will be stored again: by the proactive
\* refresh that read them (RefreshSucceeds), and with the e-mail address.
Copies == (UNION {clients[k].prev : k \in DOMAIN clients}) \cup backfill

\* Tokens of a sign-in whose browser window already came back.
SigningIn ==
    (UNION {flows[f].held : f \in Flows})
        \cup {f \in Flows : flows[f].st = "exchange"}

(* Tokens the user disconnected come back only through what had read them  *)
(* before and is still under way, a proactive refresh or the e-mail        *)
(* backfill, or through a sign-in: no refresh a call asks for afterwards   *)
(* stores them, and nothing takes a copy of them any more (Disconnect,     *)
(* doRefreshAndPersist without stored tokens, maybeProactiveRefresh).      *)
DisconnectHolds ==
    [][loaded /\ secret = NoTokens =>
           /\ secret' \subseteq Copies \cup SigningIn
           /\ Copies' \subseteq Copies]_vars

(* Every call ends, however the server answers: retries are counted, and a *)
(* refresh that fails tells those who wait (a call is made once here).     *)
EveryCallEnds == <>[](\A c \in Calls : calls[c].pc = "idle")

=============================================================================
