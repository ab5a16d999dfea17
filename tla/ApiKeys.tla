-------------------------------- MODULE ApiKeys --------------------------------
(***************************************************************************)
(* Api keys (apikeys.py) and the middleware that admits requests with them *)
(* (auth.py).  Keycloak is external: who is in the admin group, and tokens *)
(* that say so for TokenLife ticks after it ended.  A tick is much longer  *)
(* than a request, so time passes between requests only.                   *)
(***************************************************************************)
EXTENDS Integers, FiniteSets

CONSTANTS Workers, Users,
    Staff,         \* users that may ever be in Keycloak's admin group
    Keys,          \* secrets that mint_key can draw; each has its own hash
    Handles,       \* first_eight values
    NoKey,         \* no row, no key used
    NoRequest,     \* what an idle worker handles
    MaxExpires,    \* MAX_EXPIRES_IN_SECONDS, in ticks
    Lives,         \* the lives that clients ask for, in ticks
    TokenLife,     \* how long a token is accepted, in ticks
    MaxClock, MaxRequests   \* bounds on time and on the requests sent

ASSUME TimeAssumption ==
    /\ MaxExpires \in Nat \ {0} /\ TokenLife \in Nat \ {0} /\ Lives \subseteq Int
    /\ MaxClock \in Nat /\ MaxRequests \in Nat
ASSUME StaffAssumption == Staff \subseteq Users

VARIABLES
    keys,      \* the rows of api_keys: key -> row, or NoKey
    mode,      \* what the environment configures: "keycloak", "dev" or "closed"
    clock,
    members,   \* users in Keycloak's admin group
    last,      \* user -> when it last left that group, long ago if it never did
    req,       \* worker -> the request it is handling, or NoRequest
    sent,
    told,      \* keys whose revocation was answered 204
    vouched    \* users that Keycloak vouched for

env == <<mode, clock, members, last>>
vars == <<keys, env, req, sent, told, vouched>>

\* minted is mint_mode, "old" for a row older than that column; such a row has
\* no groups either.  admin says whether the groups hold the admin group.
Row ==
    [sub : Users, handle : Handles, exp : Int, revoked : BOOLEAN,
     minted : {"bearer", "dev", "old"}, admin : BOOLEAN]

\* How the caller identified itself, as whom, and what it asks for.
Request ==
    [op : {"use", "mint", "revoke"}, pc : {"sent", "admitted", "loaded"},
     auth : {"apikey", "bearer", "dev"}, key : Keys \cup {NoKey},
     sub : Users, admin : BOOLEAN,
     expires : Int, handle : Handles \cup {NoKey}, row : Keys \cup {NoKey}, late : BOOLEAN]

ASSUME SentinelAssumption == NoKey \notin Row \cup Keys /\ NoRequest \notin Request

-----------------------------------------------------------------------------
Issued == {k \in Keys : keys[k] # NoKey}
At(w, pc) == req[w] # NoRequest /\ req[w].pc = pc
Answer(w) == req' = [req EXCEPT ![w] = NoRequest]
dev_mode_enabled == mode = "dev"
keycloak_auth_enabled == mode = "keycloak"

\* A token issued while u was a member still says so until it expires.
MayClaimAdmin(u) ==
    u \in members \/ clock < last[u] + TokenLife

\* What an operation does not use is left at a default.  A mint asks for any life,
\* a revoke names any handle and needs no group.
Asks(w, auth, pc, k, u, a) ==
    /\ req[w] = NoRequest /\ sent < MaxRequests /\ sent' = sent + 1
    /\ \E op \in {"use", "mint", "revoke"} :
       \E e \in IF op = "mint" THEN Lives ELSE {0},
          h \in IF op = "revoke" THEN Handles ELSE {NoKey} :
          /\ auth # "apikey" /\ op = "revoke" => ~a
          /\ req' = [req EXCEPT ![w] =
               [op |-> op, pc |-> pc, auth |-> auth, key |-> k, sub |-> u, admin |-> a,
                expires |-> e, handle |-> h, row |-> NoKey, late |-> k \in told]]
    /\ UNCHANGED <<keys, env, told>>

\* CombinedAuthMiddleware, without a key: nothing is read from the database, and a
\* 401 leaves no trace.  Keycloak's tokens say who calls; in dev mode the headers
\* X-User-Id and X-User-Groups say what they like.
SendBearer(w) ==
    /\ keycloak_auth_enabled
    /\ \E u \in Users, a \in BOOLEAN :
          /\ a => MayClaimAdmin(u)
          /\ Asks(w, "bearer", "admitted", NoKey, u, a)
          /\ vouched' = vouched \cup {u}

SendDev(w) ==
    /\ dev_mode_enabled
    /\ \E u \in Users, a \in BOOLEAN : Asks(w, "dev", "admitted", NoKey, u, a)
    /\ UNCHANGED vouched

\* With a key: its owner and groups are those of its row, which never change.
SendKey(w) ==
    /\ \E k \in Issued : Asks(w, "apikey", "sent", k, keys[k].sub, keys[k].admin)
    /\ UNCHANGED vouched

\* lookup_key_by_secret: a key dies at its expiry instant, and one minted in dev
\* mode opens nothing outside it.
\* Fault: the instant itself still counts.
ExpiredAfter(row) == row.exp < clock
Expired(row) == row.exp <= clock
\* Fault: dev-minted keys are taken everywhere.
DevEverywhere(row) == FALSE
DevOnly(row) == row.minted = "dev" /\ ~dev_mode_enabled
\* Fault: the revoked column is not looked at.
NeverRevoked(row) == FALSE
Revoked(row) == row.revoked

Valid(k) ==
    k \in Issued /\ ~Revoked(keys[k]) /\ ~Expired(keys[k]) /\ ~DevOnly(keys[k])

\* CombinedAuthMiddleware: 401, or the identity goes into the request's state.
Admit(w) ==
    /\ At(w, "sent")
    /\ IF Valid(req[w].key) THEN req' = [req EXCEPT ![w].pc = "admitted"] ELSE Answer(w)
    /\ UNCHANGED <<keys, env, sent, told, vouched>>

\* Any endpoint but the two below: served with the identity in state.
Use(w) ==
    /\ At(w, "admitted") /\ req[w].op = "use"
    /\ Answer(w)
    /\ UNCHANGED <<keys, env, sent, told, vouched>>

\* 400 for a life out of bounds, 403 for a key that asks for a key.
MayMint(r) ==
    r.expires \in 1 .. MaxExpires /\ (keycloak_auth_enabled => r.auth = "bearer")

\* What a key mints, where Keycloak is not there to forbid it, is a dev key.
\* Fault: any verified caller mints for good.
ModeOfVerified(r) == IF r.auth = "dev" THEN "dev" ELSE "bearer"
MintMode(r) == IF r.auth = "bearer" THEN "bearer" ELSE "dev"

\* Unique hash, and unique (sub, first_eight) whether revoked or not; a clash is
\* refused at commit.
Clashes(k, u, h) ==
    k \in Issued \/ \E l \in Issued : keys[l].sub = u /\ keys[l].handle = h

Mint(w) ==
    LET r == req[w]
    IN  /\ At(w, "admitted") /\ r.op = "mint"
        /\ \/ /\ MayMint(r)
              /\ \E k \in Keys, h \in Handles :
                    /\ ~Clashes(k, r.sub, h)
                    /\ keys' = [keys EXCEPT ![k] =
                         [sub |-> r.sub, handle |-> h, exp |-> clock + r.expires,
                          revoked |-> FALSE, minted |-> MintMode(r), admin |-> r.admin]]
           \/ /\ MayMint(r) => \E k \in Keys, h \in Handles : Clashes(k, r.sub, h)
              /\ UNCHANGED keys
        /\ Answer(w)
        /\ UNCHANGED <<env, sent, told, vouched>>

\* Fault: the handle alone names the key.
AnyonesHandle(r, k) == keys[k].handle = r.handle
OwnHandle(r, k) == keys[k].handle = r.handle /\ keys[k].sub = r.sub

LoadRevoke(w) ==
    LET r == req[w]
        found == {k \in Issued : OwnHandle(r, k) /\ ~keys[k].revoked}
    IN  /\ At(w, "admitted") /\ r.op = "revoke"
        /\ IF found = {} THEN Answer(w)
           ELSE \E k \in found : req' = [req EXCEPT ![w].pc = "loaded", ![w].row = k]
        /\ UNCHANGED <<keys, env, sent, told, vouched>>

CommitRevoke(w) ==
    LET k == req[w].row
    IN  /\ At(w, "loaded")
        /\ keys' = [keys EXCEPT ![k].revoked = TRUE]
        /\ told' = told \cup {k}
        /\ Answer(w)
        /\ UNCHANGED <<env, sent, vouched>>

\* A worker dies, or the client goes away.
Cancel(w) ==
    /\ req[w] # NoRequest
    /\ Answer(w)
    /\ UNCHANGED <<keys, env, sent, told, vouched>>

-----------------------------------------------------------------------------
(* The environment *)

Tick ==
    /\ clock < MaxClock /\ clock' = clock + 1
    /\ \A w \in Workers : req[w] = NoRequest
    /\ UNCHANGED <<keys, mode, members, last, req, sent, told, vouched>>

\* The service stops, which cancels what it handles, and starts over the same
\* database with another environment.
Restart ==
    /\ \A w \in Workers : req[w] = NoRequest
    /\ mode' \in {"keycloak", "dev", "closed"}
    /\ UNCHANGED <<keys, clock, members, last, req, sent, told, vouched>>

Join == \E u \in Staff \ members : members' = members \cup {u} /\ UNCHANGED last
Leave ==
    \E u \in members : members' = members \ {u} /\ last' = [last EXCEPT ![u] = clock]
JoinOrLeave == (Join \/ Leave) /\ UNCHANGED <<keys, mode, clock, req, sent, told, vouched>>

\* The database may hold fresh rows from before the columns mint_mode and kc_groups,
\* which ensure_api_key_groups_column added; their owners may be names that a caller
\* in dev mode invented.
Init ==
    /\ keys \in [Keys -> {NoKey} \cup
          [sub : Users, handle : Handles, exp : {MaxExpires}, revoked : {FALSE},
           minted : {"old"}, admin : {FALSE}]]
    /\ \A k, l \in Issued :
          k # l /\ keys[k].sub = keys[l].sub => keys[k].handle # keys[l].handle
    /\ mode \in {"keycloak", "dev", "closed"}
    /\ clock = 0
    /\ members = {}
    /\ last = [u \in Users |-> -(TokenLife + MaxExpires)]
    /\ req = [w \in Workers |-> NoRequest]
    /\ sent = 0 /\ told = {}
    /\ vouched = {}

Send(w) == SendBearer(w) \/ SendDev(w) \/ SendKey(w)
Handle(w) == Admit(w) \/ Use(w) \/ Mint(w) \/ LoadRevoke(w) \/ CommitRevoke(w)

Next ==
    \/ Tick \/ Restart \/ JoinOrLeave
    \/ \E w \in Workers : Send(w) \/ Handle(w) \/ Cancel(w)

Spec == Init /\ [][Next]_vars

-----------------------------------------------------------------------------
(* Properties *)

Admitted(w) == req[w] # NoRequest /\ req[w].pc # "sent"

\* Every variable keeps its shape, a handle never names two keys of one user, and
\* a revocation about to commit holds a key of its caller although another user's
\* key may have the same handle.
TypeOK ==
    /\ keys \in [Keys -> Row \cup {NoKey}]
    /\ mode \in {"keycloak", "dev", "closed"}
    /\ clock \in Nat
    /\ members \subseteq Users
    /\ last \in [Users -> Int]
    /\ req \in [Workers -> Request \cup {NoRequest}]
    /\ sent \in Nat
    /\ told \subseteq Issued
    /\ vouched \subseteq Users
    /\ \A k, l \in Issued :
          k # l /\ keys[k].sub = keys[l].sub => keys[k].handle # keys[l].handle
    /\ \A w \in Workers :
          /\ req[w] # NoRequest => req[w].key \in Issued \cup {NoKey}
          /\ At(w, "loaded") =>
               req[w].row \in Issued /\ keys[req[w].row].sub = req[w].sub

\* Outside dev mode nobody is admitted under a name that Keycloak never vouched
\* for, by whatever chain of keys minted in whatever mode (auth.py:47-63: headers
\* are believed in dev mode only), except with a key from before the column
\* mint_mode, which is taken as it is (apikeys.py:192): only until the last of
\* those ran out, and no later key carries its name on.
IdentityVouched ==
    mode # "dev" =>
      \A w \in Workers : Admitted(w) =>
         \/ req[w].sub \in vouched
         \/ req[w].auth = "apikey" /\ keys[req[w].key].minted = "old" /\ clock < MaxExpires

\* Outside dev mode admin rights end with the membership: the last token that
\* claims it and the longest key minted with that token later, at the latest.  A
\* key cannot be used to extend itself.
AuthorityBounded ==
    mode # "dev" =>
      \A w \in Workers : Admitted(w) /\ req[w].admin =>
         \/ req[w].sub \in members
         \/ clock + 1 < last[req[w].sub] + TokenLife + MaxExpires

\* A request sent after the 204 of a revocation is never admitted with that key.
RevokedStays ==
    \A w \in Workers : Admitted(w) /\ req[w].auth = "apikey" => ~req[w].late

\* Keys have one life, and open doors in it only.
Life(k) == IF keys[k] = NoKey THEN "none"
           ELSE IF keys[k].revoked \/ keys[k].exp <= clock THEN "dead" ELSE "live"
Opened(w) == IF Admitted(w) THEN req[w].key ELSE NoKey
Promise == INSTANCE KeyLife WITH
    Doors <- Workers,
    life <- [k \in Keys |-> Life(k)],
    opened <- [w \in Workers |-> Opened(w)]
ImplementsKeyLife == Promise!Spec
=============================================================================
