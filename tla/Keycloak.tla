------------------------------ MODULE Keycloak ------------------------------
(***************************************************************************)
(* The Keycloak server, broker/claude_mcp_keycloak.py: calls of            *)
(* keycloak_token, a thread each, that read the clients file, look in the  *)
(* cache of tokens, and ask Keycloak when it has none to give.  The person *)
(* edits the clients file at any time; the cache is shared, under a lock.  *)
(***************************************************************************)
EXTENDS Integers

CONSTANTS
  Calls,
  Profiles,
  ProfileOf, \* profile of each call
  Clients,   \* client ids
  Secrets,   \* client secrets, as Keycloak knows them
  SecretOf,  \* secret of each client
  Own,       \* secret that the server holds for each profile, None for none
  Shared,    \* secret of the other profiles, None for none
  Margin,    \* EXPIRY_MARGIN_SECONDS
  Life,      \* longest life of a token
  MaxTime, None

\* A token, and whether its expiry can be read.
Tokens == [client : Clients, exp : 0 .. MaxTime + Life, readable : BOOLEAN]
\* A token of the cache, with the expiry that was read in it.
Entries == [token : Tokens, exp : 0 .. MaxTime + Life]

ASSUME KeycloakAssumption ==
  /\ ProfileOf \in [Calls -> Profiles]
  /\ SecretOf \in [Clients -> Secrets]
  /\ Own \in [Profiles -> Secrets \cup {None}]
  /\ Shared \in Secrets \cup {None}
  /\ Margin \in Nat /\ Life \in Nat /\ MaxTime \in Nat
  /\ None \notin Clients \cup Secrets \cup {"token", "error", "failed"}
  /\ None \notin Tokens \cup Entries

VARIABLES
  clock,
  clients, \* the clients file: the client id of each profile
  cache,   \* _cache, with the expiry the server read in each token
  at,      \* where each call is
  client,  \* the client id each call read
  token,   \* the token each call got
  answer,  \* what the agent is answered
  named,   \* history: the clients that the file named for its profile during each call
  issued   \* history: calls whose token was issued for them

call == <<at, client, token, answer>>
vars == <<clock, clients, cache, call, named, issued>>

Places == {"new", "reading", "looking", "asking", "storing", "end"}

TypeOK ==
  /\ clock \in 0 .. MaxTime
  /\ clients \in [Profiles -> Clients \cup {None}]
  /\ cache \in [Clients -> Entries \cup {None}]
  /\ at \in [Calls -> Places]
  /\ client \in [Calls -> Clients \cup {None}]
  /\ token \in [Calls -> Tokens \cup {None}]
  /\ answer \in [Calls -> {"token", "error", "failed", None}]
  /\ named \in [Calls -> SUBSET Clients]
  /\ issued \subseteq Calls

Init ==
  /\ clock = 0
  /\ clients \in [Profiles -> Clients \cup {None}]
  /\ cache = [k \in Clients |-> None]
  /\ at = [c \in Calls |-> "new"]
  /\ client = [c \in Calls |-> None]
  /\ token = [c \in Calls |-> None]
  /\ answer = [c \in Calls |-> None]
  /\ named = [c \in Calls |-> {}]
  /\ issued = {}

At(c, place) == at[c] = place
Goto(c, place) ==
  /\ at' = [at EXCEPT ![c] = place]
  /\ UNCHANGED <<client, token, answer>>

End(c, a) ==
  /\ at' = [at EXCEPT ![c] = "end"]
  /\ answer' = [answer EXCEPT ![c] = a]
  /\ UNCHANGED client

-----------------------------------------------------------------------------
\* The call begins.  (It is a step of its own, so that the file may change during it.)
Receive(c) ==
  /\ At(c, "new")
  /\ Goto(c, "reading")
  /\ named' = [named EXCEPT ![c] = {clients[ProfileOf[c]]} \ {None}]
  /\ UNCHANGED <<clock, clients, cache, issued>>

\* read_profiles: an invalid line is a ToolError, a file that can't be read unexpected.
FileFails(c) == (End(c, "error") \/ End(c, "failed")) /\ UNCHANGED token

Read(c) ==
  /\ At(c, "reading")
  /\ \/ /\ clients[ProfileOf[c]] # None
        /\ client' = [client EXCEPT ![c] = clients[ProfileOf[c]]]
        /\ at' = [at EXCEPT ![c] = "looking"]
        /\ UNCHANGED <<token, answer>>
     \/ /\ clients[ProfileOf[c]] = None
        /\ End(c, "error") /\ UNCHANGED token
     \/ FileFails(c)
  /\ UNCHANGED <<clock, clients, cache, named, issued>>

\* _secret.
SecretFor(profile) == IF Own[profile] # None THEN Own[profile] ELSE Shared

Usable(entry) == entry # None /\ entry.exp - Margin > clock

\* Under the lock: the cache, or the secret to ask Keycloak with.
Look(c) ==
  /\ At(c, "looking")
  /\ LET entry == cache[client[c]]
     IN IF Usable(entry)
        THEN End(c, "token") /\ token' = [token EXCEPT ![c] = entry.token]
        ELSE IF SecretFor(ProfileOf[c]) = None
             THEN End(c, "error") /\ UNCHANGED token
             ELSE Goto(c, "asking")
  /\ UNCHANGED <<clock, clients, cache, named, issued>>

\* request_token: no answer in time, or another than JSON; a broken one is unexpected.
PostFails(c) == (End(c, "error") \/ End(c, "failed")) /\ UNCHANGED <<token, issued>>

\* self._post: Keycloak issues a token to a client with its secret, and may refuse it.
Ask(c) ==
  /\ At(c, "asking")
  /\ \/ /\ SecretOf[client[c]] = SecretFor(ProfileOf[c])
        /\ \E life \in 0 .. Life, readable \in BOOLEAN :
             token' = [token EXCEPT ![c] =
               [client |-> client[c], exp |-> clock + life, readable |-> readable]]
        /\ issued' = issued \cup {c}
        /\ at' = [at EXCEPT ![c] = "storing"]
        /\ UNCHANGED <<client, answer>>
     \/ End(c, "error") /\ UNCHANGED <<token, issued>>
     \/ PostFails(c)
  /\ UNCHANGED <<clock, clients, cache, named>>

\* Mutant of ExpiryOf: a token whose payload can't be read lasts.
ExpiryReadOrLongest(t) == IF t.readable THEN t.exp ELSE MaxTime + Life

\* token_expiry: 0 when the payload can't be read.
ExpiryOf(t) == IF t.readable THEN t.exp ELSE 0

\* Mutant of Store: the clients file is read again for the key.
StoreAsNamedNow(c) ==
  /\ At(c, "storing")
  /\ clients[ProfileOf[c]] # None
  /\ cache' = [cache EXCEPT ![clients[ProfileOf[c]]] =
                 [token |-> token[c], exp |-> ExpiryOf(token[c])]]
  /\ End(c, "token") /\ UNCHANGED token
  /\ UNCHANGED <<clock, clients, named, issued>>

\* Under the lock: the token takes the place of what another call stored meanwhile.
Store(c) ==
  /\ At(c, "storing")
  /\ cache' = [cache EXCEPT ![client[c]] =
                 [token |-> token[c], exp |-> ExpiryOf(token[c])]]
  /\ End(c, "token") /\ UNCHANGED token
  /\ UNCHANGED <<clock, clients, named, issued>>

-----------------------------------------------------------------------------
\* The person edits the clients file.
Edit(p) ==
  /\ \E k \in Clients \cup {None} : clients' = [clients EXCEPT ![p] = k]
  /\ named' = [c \in Calls |->
       IF ProfileOf[c] = p /\ at[c] \notin {"new", "end"}
       THEN named[c] \cup ({clients'[p]} \ {None}) ELSE named[c]]
  /\ UNCHANGED <<clock, cache, call, issued>>

Tick ==
  /\ clock < MaxTime
  /\ clock' = clock + 1
  /\ UNCHANGED <<clients, cache, call, named, issued>>

Step(c) == Receive(c) \/ Read(c) \/ Look(c) \/ Ask(c) \/ Store(c)

Next == (\E c \in Calls : Step(c)) \/ (\E p \in Profiles : Edit(p)) \/ Tick

Spec == Init /\ [][Next]_vars

-----------------------------------------------------------------------------
\* The token of an answer belongs to a client that the clients file named for the
\* profile of the call during the call, whatever the other calls, for other profiles and
\* former clients, left in the cache.  (claude_mcp_keycloak.py token, _cache)
TokenOfTheProfile ==
  \A c \in Calls : answer[c] = "token" => token[c].client \in named[c]

\* A token that wasn't issued for the call itself is answered only with more than the
\* margin left in it, also when its expiry can't be read and when a call that asked
\* before stores after.  (claude_mcp_keycloak.py token, token_expiry)
ReusedTokensLast ==
  [][\A c \in Calls :
       answer[c] = None /\ answer'[c] = "token" /\ c \notin issued =>
         token'[c].exp - Margin > clock]_vars

\* What a call holds at each place.
CallConsistent(c) ==
  /\ answer[c] = None <=> ~At(c, "end")
  /\ At(c, "reading") => clients[ProfileOf[c]] \in named[c] \cup {None}
  /\ at[c] \in {"looking", "asking", "storing"} => client[c] \in named[c]
  /\ At(c, "storing") =>
       token[c] # None /\ token[c].client = client[c] /\ c \in issued
  /\ answer[c] = "token" => token[c] # None

\* The cache holds, for a client, a token of that client with the expiry read in it,
\* and a call the client of its profile: what the two properties above rest on.
\* (claude_mcp_keycloak.py token, _cache)
KeycloakInv ==
  /\ TypeOK
  /\ \A k \in Clients :
       cache[k] # None =>
         cache[k].token.client = k /\ cache[k].exp = ExpiryOf(cache[k].token)
  /\ \A c \in Calls : CallConsistent(c)
  /\ TokenOfTheProfile
=============================================================================
