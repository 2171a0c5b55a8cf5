--------------------------- MODULE KeycloakProofs ---------------------------
(***************************************************************************)
(* Theorems about Keycloak, for any calls, profiles and clients.           *)
(***************************************************************************)
EXTENDS Keycloak, TLAPS

\* The initial state is consistent.
LEMMA InitInv == Init => KeycloakInv
BY KeycloakAssumption
   DEF KeycloakAssumption, Init, KeycloakInv, TypeOK, CallConsistent, TokenOfTheProfile,
       At, Places

\* A token's readable expiry is never later than its own.
LEMMA ExpiryBound ==
  ASSUME NEW t \in Tokens
  PROVE  ExpiryOf(t) \in 0 .. MaxTime + Life /\ ExpiryOf(t) <= t.exp
BY KeycloakAssumption DEF KeycloakAssumption, Tokens, ExpiryOf

\* Each step keeps the calls and the cache consistent.
LEMMA StepInv == KeycloakInv /\ [Next]_vars => KeycloakInv'
<1> SUFFICES ASSUME KeycloakInv, [Next]_vars PROVE KeycloakInv'
  OBVIOUS
<1> USE KeycloakAssumption DEF KeycloakAssumption
<1>1. ASSUME NEW c \in Calls, Receive(c) PROVE KeycloakInv'
  BY <1>1 DEF Receive, Goto, At, KeycloakInv, TypeOK, CallConsistent, TokenOfTheProfile,
              ExpiryOf, Places
<1>2. ASSUME NEW c \in Calls, Read(c) PROVE KeycloakInv'
  BY <1>2 DEF Read, FileFails, End, At, KeycloakInv, TypeOK, CallConsistent, TokenOfTheProfile,
              ExpiryOf, Places
<1>3. ASSUME NEW c \in Calls, Look(c) PROVE KeycloakInv'
  <2>1. client[c] \in Clients
    BY <1>3 DEF Look, At, KeycloakInv, TypeOK, CallConsistent
  <2>2. CASE Usable(cache[client[c]])
    <3>1. cache[client[c]] \in Entries /\ cache[client[c]].token \in Tokens
      BY <2>1, <2>2 DEF Usable, KeycloakInv, TypeOK, Entries
    <3>2. cache[client[c]].token # None
      BY <3>1, <2>1, <2>2 DEF Usable, KeycloakInv, Tokens
    <3> QED
      BY <1>3, <2>1, <2>2, <3>1, <3>2
         DEF Look, End, At, KeycloakInv, TypeOK, CallConsistent, TokenOfTheProfile,
             ExpiryOf, Places, Usable
  <2>3. CASE ~Usable(cache[client[c]])
    BY <1>3, <2>1, <2>3
       DEF Look, End, Goto, At, KeycloakInv, TypeOK, CallConsistent, TokenOfTheProfile,
           ExpiryOf, Places
  <2> QED BY <2>2, <2>3
<1>4. ASSUME NEW c \in Calls, Ask(c) PROVE KeycloakInv'
  <2>1. client[c] \in Clients
    BY <1>4 DEF Ask, At, KeycloakInv, TypeOK, CallConsistent
  <2>2. CASE At(c, "asking") /\ (End(c, "error") \/ End(c, "failed"))
             /\ UNCHANGED <<token, issued>>
    BY <1>4, <2>2 DEF Ask, End, At, KeycloakInv, TypeOK, CallConsistent,
                      TokenOfTheProfile, ExpiryOf, Places
  <2>3. ASSUME NEW life \in 0 .. Life, NEW readable \in BOOLEAN,
               token' = [token EXCEPT ![c] =
                 [client |-> client[c], exp |-> clock + life, readable |-> readable]],
               issued' = issued \cup {c},
               at' = [at EXCEPT ![c] = "storing"],
               UNCHANGED <<client, answer>>
        PROVE  KeycloakInv'
    <3> DEFINE t == [client |-> client[c], exp |-> clock + life, readable |-> readable]
    <3>1. t \in Tokens /\ t # None
      BY <2>1 DEF KeycloakInv, TypeOK, Tokens
    <3>2. token' = [token EXCEPT ![c] = t]
      BY <2>3
    <3>3. TypeOK'
      BY <1>4, <2>3, <3>1, <3>2 DEF Ask, At, KeycloakInv, TypeOK, Places
    <3>4. CallConsistent(c)'
      BY <1>4, <2>3, <3>1, <3>2 DEF Ask, At, KeycloakInv, TypeOK, CallConsistent
    <3>5. ASSUME NEW d \in Calls, d # c PROVE CallConsistent(d)'
      BY <1>4, <2>3, <3>2, <3>5 DEF Ask, At, KeycloakInv, TypeOK, CallConsistent
    <3>6. TokenOfTheProfile'
      BY <1>4, <2>3, <3>2, <3>4, <3>5
         DEF Ask, At, KeycloakInv, TypeOK, CallConsistent, TokenOfTheProfile
    <3> QED
      BY <1>4, <3>3, <3>4, <3>5, <3>6 DEF Ask, KeycloakInv, ExpiryOf
  <2> QED
    BY <1>4, <2>2, <2>3 DEF Ask, PostFails
<1>5. ASSUME NEW c \in Calls, Store(c) PROVE KeycloakInv'
  <2>1. client[c] \in Clients /\ client[c] \in named[c] /\ token[c] \in Tokens
        /\ token[c].client = client[c]
    BY <1>5 DEF Store, At, KeycloakInv, TypeOK, CallConsistent
  <2> DEFINE entry == [token |-> token[c], exp |-> ExpiryOf(token[c])]
  <2>2. entry \in Entries /\ token[c] # None
    BY <2>1, ExpiryBound DEF Entries
  <2>3. cache' = [cache EXCEPT ![client[c]] = entry]
    BY <1>5 DEF Store
  <2>4. TypeOK'
    BY <1>5, <2>1, <2>2, <2>3 DEF Store, End, KeycloakInv, TypeOK, Places
  <2>5. \A k \in Clients :
          (cache[k] # None =>
            cache[k].token.client = k /\ cache[k].exp = ExpiryOf(cache[k].token))'
    BY <1>5, <2>1, <2>3 DEF Store, KeycloakInv, TypeOK, ExpiryOf
  <2>6. \A d \in Calls : CallConsistent(d)'
    BY <1>5, <2>2 DEF Store, End, At, KeycloakInv, TypeOK, CallConsistent
  <2>7. TokenOfTheProfile'
    BY <1>5, <2>1 DEF Store, End, KeycloakInv, TypeOK, TokenOfTheProfile
  <2> QED BY <2>4, <2>5, <2>6, <2>7 DEF KeycloakInv
<1>6. ASSUME NEW p \in Profiles, Edit(p) PROVE KeycloakInv'
  <2>1. TypeOK'
    BY <1>6 DEF Edit, call, KeycloakInv, TypeOK
  <2>2. \A c \in Calls : named[c] \subseteq named'[c]
    BY <1>6 DEF Edit, KeycloakInv, TypeOK
  <2>3. ASSUME NEW c \in Calls PROVE CallConsistent(c)'
    BY <1>6, <2>1, <2>2 DEF Edit, call, At, KeycloakInv, TypeOK, CallConsistent
  <2> QED
    BY <1>6, <2>1, <2>2, <2>3
       DEF Edit, call, KeycloakInv, CallConsistent, TokenOfTheProfile, ExpiryOf
<1>7. CASE Tick
  BY <1>7 DEF Tick, call, KeycloakInv, TypeOK, CallConsistent, TokenOfTheProfile, At,
              ExpiryOf
<1>8. CASE UNCHANGED vars
  BY <1>8 DEF vars, call, KeycloakInv, TypeOK, CallConsistent, TokenOfTheProfile, At,
              ExpiryOf
<1> QED
  BY <1>1, <1>2, <1>3, <1>4, <1>5, <1>6, <1>7, <1>8 DEF Next, Step

\* The calls and the cache are consistent in every state.
\* (claude_mcp_keycloak.py token, _cache)
THEOREM Consistency == Spec => []KeycloakInv
<1>1. Init => KeycloakInv
  BY InitInv
<1>2. KeycloakInv /\ [Next]_vars => KeycloakInv'
  BY StepInv
<1> QED BY <1>1, <1>2, PTL DEF Spec

\* An answer holds a token of a client that the file named for the profile during the
\* call.  (claude_mcp_keycloak.py token)
THEOREM RightToken == Spec => []TokenOfTheProfile
<1>1. KeycloakInv => TokenOfTheProfile
  BY DEF KeycloakInv
<1> QED BY <1>1, Consistency, PTL

\* A token of the cache is answered only while it lasts longer than the margin.
\* (claude_mcp_keycloak.py token, token_expiry)
THEOREM ReusedLast == Spec => ReusedTokensLast
<1> DEFINE Reused ==
      \A c \in Calls :
        answer[c] = None /\ answer'[c] = "token" /\ c \notin issued =>
          token'[c].exp - Margin > clock
<1>1. KeycloakInv /\ [Next]_vars => [Reused]_vars
  <2> SUFFICES ASSUME KeycloakInv, Next,
                      NEW c \in Calls,
                      answer[c] = None, answer'[c] = "token", c \notin issued
               PROVE  token'[c].exp - Margin > clock
    OBVIOUS
  <2>1. PICK d \in Calls : Step(d)
    BY KeycloakAssumption DEF KeycloakAssumption, Next, Edit, Tick, call
  <2>2. ASSUME ~Look(c) PROVE FALSE
    BY <2>1, <2>2, KeycloakAssumption
       DEF KeycloakAssumption, Step, Receive, Read, FileFails, Look, Ask, PostFails, Store,
           Goto, End, At,
           KeycloakInv, TypeOK, CallConsistent
  <2>3. client[c] \in Clients /\ Usable(cache[client[c]])
        /\ token' = [token EXCEPT ![c] = cache[client[c]].token]
    BY <2>2, KeycloakAssumption
       DEF KeycloakAssumption, Look, Goto, End, At, KeycloakInv, TypeOK, CallConsistent
  <2> DEFINE entry == cache[client[c]]
  <2>4. entry \in Entries /\ entry.token \in Tokens
        /\ entry.exp = ExpiryOf(entry.token)
    BY <2>3 DEF Usable, KeycloakInv, TypeOK, Entries
  <2>5. entry.exp <= entry.token.exp /\ entry.exp - Margin > clock
    BY <2>3, <2>4, ExpiryBound DEF Usable
  <2>6. token'[c] = entry.token
    BY <2>3 DEF KeycloakInv, TypeOK
  <2>7. clock \in Int /\ Margin \in Int /\ entry.exp \in Int /\ entry.token.exp \in Int
    BY <2>4, KeycloakAssumption
       DEF KeycloakAssumption, KeycloakInv, TypeOK, Entries, Tokens
  <2> QED BY <2>5, <2>6, <2>7
<1> QED BY <1>1, Consistency, PTL DEF Spec, ReusedTokensLast
=============================================================================
