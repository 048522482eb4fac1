----------------------------- MODULE HostedCache -----------------------------
(***************************************************************************)
(* The cache at monad://host as a machine uses it: monad login gets a      *)
(* token, token.rs keeps and finds it, BearerRemote::put uploads a bundle  *)
(* of one key with one retry per request, large ones in three requests.    *)
(* Requests and answers get lost; the other uploader has another build of  *)
(* the same key.                                                           *)
(***************************************************************************)
EXTENDS Naturals, FiniteSets

CONSTANTS
  Uploaders,     \* processes that put a bundle of the key
  NoBundle,      \* the object store holds none
  NoToken,       \* no token in a place
  PollCap,       \* the longest interval of a backoff (60 s)
  MaxWait,       \* the longest wait for an approval (900 s)
  HttpTimeout,   \* the timeout of one exchange (10 s)
  Expiries,      \* what the server may say about the life of a device code
  Intervals      \* and about the interval of the polls

ASSUME HostedBounds ==
  /\ PollCap \in Nat \ {0} /\ MaxWait \in Nat /\ HttpTimeout \in Nat
  /\ Expiries \subseteq Nat /\ Intervals \subseteq Nat

ASSUME TokenIsSomething == NoToken \notin {"stale", "fresh"}

VARIABLES
  token,      \* where tokens are: environment, keychain, credentials file
  keyring,    \* whether the OS keychain can be read, and written
  login,      \* monad login
  device,     \* the expiry and the first interval of its device code
  interval,   \* of the next poll
  clock,      \* time spent polling
  object,     \* the bundle in the object store, by its uploader
  landed,     \* history: uploaders whose whole bundle the store has received
  request,    \* the request of each put
  attempt,    \* the first one or the retry
  answer      \* what put returned

hostedVars == <<token, keyring, login, device, interval, clock, object, landed, request, attempt, answer>>
loginVars  == <<token, keyring, login, device, interval, clock>>
putVars    == <<object, landed, request, attempt, answer>>

Smaller(a, b) == IF a < b THEN a ELSE b
Larger(a, b)  == IF a > b THEN a ELSE b
Tokens        == {NoToken, "stale", "fresh"}
-----------------------------------------------------------------------------
(* resolve_cache_token: the environment, then the keychain, then the file. *)
ResolvedToken ==
  CASE token.env # NoToken -> token.env
    [] token.env = NoToken /\ keyring.reads /\ token.keychain # NoToken -> token.keychain
    [] OTHER -> token.file

(* A machine may have a token from an earlier login. *)
HostedInit ==
  /\ \E e, k, f \in {NoToken, "stale"} : token = [env |-> e, keychain |-> k, file |-> f]
  /\ keyring \in [reads : BOOLEAN, writes : BOOLEAN]
  /\ login = "off" /\ device = [expires |-> 0, interval |-> 0]
  /\ interval = 0 /\ clock = 0
  /\ object = NoBundle /\ landed = {}
  /\ request = [u \in Uploaders |-> "none"]
  /\ attempt = [u \in Uploaders |-> 1]
  /\ answer = [u \in Uploaders |-> "none"]

(* request_device_code: one request; an answer with any numbers, or an     *)
(* error, which ends the login.                                            *)
RequestDeviceCode ==
  /\ login = "off"
  /\ \/ \E e \in Expiries, i \in Intervals :
          /\ device' = [expires |-> e, interval |-> i]
          /\ interval' = Larger(i, 1)
          /\ login' = "polls"
     \/ login' = "err" /\ UNCHANGED <<device, interval>>
  /\ UNCHANGED <<token, keyring, clock, putVars>>

Deadline == Smaller(device.expires, MaxWait)

\* Mutant: the token goes to the file, also past a keychain that works.
StoreToken_File == [token EXCEPT !.file = "fresh"]

(* store_cache_token: the keychain, or the file if that fails. *)
StoreToken ==
  IF keyring.writes THEN [token EXCEPT !.keychain = "fresh"] ELSE [token EXCEPT !.file = "fresh"]

\* Mutant: the backoff has no limit.
Backoff_Unbounded == interval * 2

Backoff == Smaller(interval * 2, PollCap)

(* One turn of poll_for_jwt: the deadline, the sleep, the exchange, which  *)
(* takes up to its timeout.                                                *)
PollTimesOut ==
  /\ login = "polls" /\ clock > Deadline
  /\ login' = "err"
  /\ UNCHANGED <<token, keyring, device, interval, clock, putVars>>

Poll ==
  /\ login = "polls" /\ clock <= Deadline
  /\ \E spent \in {0, HttpTimeout} : clock' = clock + interval + spent
  /\ \/ UNCHANGED <<token, interval, login>>                            \* pending, or no transport
     \/ interval' = Backoff /\ UNCHANGED <<token, login>>               \* 429
     \/ login' = "ok" /\ token' = StoreToken /\ UNCHANGED interval      \* approved
     \/ login' = "err" /\ UNCHANGED <<token, interval>>  \* expired, another status, no JSON, no place
  /\ UNCHANGED <<keyring, device, putVars>>
-----------------------------------------------------------------------------
(* Whether the worker accepts the token of this machine. *)
Authorized == ResolvedToken = "fresh"

(* put: build_remote needs a token; the size of the bundle picks the path. *)
StartPut(u) ==
  /\ request[u] = "none" /\ answer[u] = "none"
  /\ ResolvedToken # NoToken
  /\ \E first \in {"put", "upload_url"} : request' = [request EXCEPT ![u] = first]
  /\ UNCHANGED <<loginVars, object, landed, attempt, answer>>

\* Mutant: the upload is completed as soon as there is a URL for it.
NextRequest_Skips == [put |-> "none", upload_url |-> "complete", r2_put |-> "complete", complete |-> "none"]

NextRequest == [put |-> "none", upload_url |-> "r2_put", r2_put |-> "complete", complete |-> "none"]

(* send_with_retry: one retry after a 5xx, a 429, no connection or a       *)
(* timeout; the PUT to the presigned URL is sent once.                     *)
Retried(u, reply) ==
  request[u] # "r2_put" /\ attempt[u] = 1 /\ reply \in {"unavailable", "lost"}

(* What comes of one request: an answer of 2xx, 4xx, 5xx or 429, none in   *)
(* time, or a connection that breaks; without an answer the request may    *)
(* have been served all the same.                                          *)
Replies == {"ok", "refused", "unavailable", "lost", "broken"}

Possible(u, reply, served) ==
  /\ reply = "ok" => served
  /\ reply = "refused" => ~ served
  /\ served /\ request[u] # "r2_put" => Authorized
  /\ served /\ request[u] = "complete" => object # NoBundle

(* After the last request, or one that failed. *)
PutResult(reply) == IF reply = "ok" THEN "ok" ELSE "err"

SendRequest(u) ==
  /\ request[u] # "none"
  /\ \E reply \in Replies, served \in BOOLEAN :
       /\ Possible(u, reply, served)
       /\ IF served /\ request[u] \in {"put", "r2_put"}
          THEN object' = u /\ landed' = landed \cup {u}
          ELSE UNCHANGED <<object, landed>>
       /\ IF Retried(u, reply)
          THEN attempt' = [attempt EXCEPT ![u] = 2] /\ UNCHANGED <<request, answer>>
          ELSE LET next == IF reply = "ok" THEN NextRequest[request[u]] ELSE "none" IN
               /\ attempt' = [attempt EXCEPT ![u] = 1]
               /\ request' = [request EXCEPT ![u] = next]
               /\ answer' = [answer EXCEPT ![u] = IF next # "none" THEN "none" ELSE PutResult(reply)]
  /\ UNCHANGED loginVars

(* Retention, or an eviction, at the remote. *)
ObjectExpires ==
  /\ object # NoBundle /\ object' = NoBundle
  /\ UNCHANGED <<loginVars, landed, request, attempt, answer>>

HostedNext ==
  \/ RequestDeviceCode \/ PollTimesOut \/ Poll
  \/ \E u \in Uploaders : StartPut(u) \/ SendRequest(u)
  \/ ObjectExpires

HostedSpec == HostedInit /\ [][HostedNext]_hostedVars
-----------------------------------------------------------------------------
HostedTypeOK ==
  /\ token \in [env : Tokens, keychain : Tokens, file : Tokens]
  /\ keyring \in [reads : BOOLEAN, writes : BOOLEAN]
  /\ login \in {"off", "polls", "ok", "err"}
  /\ device \in [expires : Expiries \cup {0}, interval : Intervals \cup {0}]
  /\ interval \in Intervals \cup 0..PollCap /\ clock \in Nat
  /\ object \in Uploaders \cup {NoBundle} /\ landed \subseteq Uploaders
  /\ request \in [Uploaders -> {"none", "put", "upload_url", "r2_put", "complete"}]
  /\ attempt \in [Uploaders -> 1..2] /\ answer \in [Uploaders -> {"none", "ok", "err"}]

(* BearerRemote::put: what was reported as uploaded has arrived, this      *)
(* build of it and not only another one of the same key, whatever was      *)
(* lost, repeated or overwritten in between.                               *)
PushedIsStored == \A u \in Uploaders : answer[u] = "ok" => u \in landed

(* login::run: a login gives up one interval and one exchange after its    *)
(* deadline at the latest; one that succeeds leaves a token that later     *)
(* commands find, and it is the new one unless the environment has one or  *)
(* the keychain holds an old one that can be read and not replaced.        *)
LoginTakesEffect ==
  /\ clock <= Deadline + Larger(PollCap, device.interval) + HttpTimeout
  /\ login = "ok" =>
       \/ ResolvedToken = "fresh"
       \/ token.env # NoToken
       \/ keyring.reads /\ ~ keyring.writes /\ token.keychain # NoToken
       \/ keyring.writes /\ ~ keyring.reads
=============================================================================
