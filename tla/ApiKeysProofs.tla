----------------------------- MODULE ApiKeysProofs -----------------------------
(***************************************************************************)
(* Proofs about api keys for any users, staff, keys and lives.  The        *)
(* invariant behind the theorems: who vouched for the owner of a row, how  *)
(* far its expiry reaches past the owner's membership, and what an         *)
(* admitted request still owes to the row it came in with.                 *)
(***************************************************************************)
EXTENDS ApiKeys, TLAPS

\* Rights that end at time t end in time: the owner is staff, or was long enough.
Covered(u, t) == u \in members \/ t < last[u] + TokenLife + MaxExpires

KeySound(k) ==
    /\ keys[k].exp <= clock + MaxExpires
    /\ keys[k].minted = "bearer" => keys[k].sub \in vouched
    /\ keys[k].minted = "old" => ~keys[k].admin /\ keys[k].exp <= MaxExpires
    /\ keys[k].minted = "bearer" /\ keys[k].admin => Covered(keys[k].sub, keys[k].exp)

\* What a request owes to the row or the token it came in with.
RequestSound(r) ==
    /\ r.key \in Issued \cup {NoKey}
    /\ r.pc = "loaded" => r.row \in Issued /\ keys[r.row].sub = r.sub
    /\ r.auth = "dev" => mode = "dev"
    /\ r.auth = "bearer" /\ r.admin => MayClaimAdmin(r.sub)
    /\ IF r.auth = "apikey"
         THEN /\ r.key \in Issued /\ (r.late => r.key \in told)
              /\ r.sub = keys[r.key].sub /\ r.admin = keys[r.key].admin
         ELSE r.key = NoKey /\ r.pc # "sent"
    /\ r.auth = "apikey" /\ r.pc # "sent" =>
         /\ clock < keys[r.key].exp /\ ~r.late
         /\ keys[r.key].minted = "dev" => mode = "dev"

VouchedIn(r, users) == r.auth = "bearer" => r.sub \in users

Inv ==
    /\ TypeOK
    /\ \A k \in Issued : KeySound(k)
    /\ \A k \in told : keys[k].revoked
    /\ \A w \in Workers :
          req[w] # NoRequest => RequestSound(req[w]) /\ VouchedIn(req[w], vouched)

USE TimeAssumption, StaffAssumption, SentinelAssumption

-----------------------------------------------------------------------------
LEMMA InitInv == Init => Inv
<1> SUFFICES ASSUME Init PROVE Inv
  OBVIOUS
<1>1. ASSUME NEW k \in Keys, keys[k] # NoKey
      PROVE  /\ keys[k] \in Row /\ keys[k].sub \in Users
             /\ keys[k].exp = MaxExpires /\ keys[k].minted = "old" /\ keys[k].admin = FALSE
  <2>1. keys[k] \in [sub : Users, handle : Handles, exp : {MaxExpires}, revoked : {FALSE},
                     minted : {"old"}, admin : {FALSE}]
    BY <1>1 DEF Init
  <2>2. MaxExpires \in Int OBVIOUS
  <2>3. /\ keys[k].sub \in Users /\ keys[k].handle \in Handles /\ keys[k].exp = MaxExpires
        /\ keys[k].revoked = FALSE /\ keys[k].minted = "old" /\ keys[k].admin = FALSE
        /\ keys[k] = [sub |-> keys[k].sub, handle |-> keys[k].handle, exp |-> keys[k].exp,
                      revoked |-> keys[k].revoked, minted |-> keys[k].minted,
                      admin |-> keys[k].admin]
    BY <2>1
  <2> QED BY <2>2, <2>3 DEF Row
<1>2. keys \in [Keys -> Row \cup {NoKey}] BY <1>1 DEF Init
<1>3. ASSUME NEW k \in Issued PROVE KeySound(k)
  <2>1. clock = 0 /\ k \in Keys /\ keys[k] # NoKey
    BY DEF Init, Issued
  <2>2. /\ keys[k].exp = MaxExpires /\ keys[k].minted = "old" /\ keys[k].admin = FALSE
    BY <1>1, <2>1
  <2> QED BY <2>1, <2>2 DEF KeySound
<1>4. vouched \subseteq Users BY <1>1 DEF Init, Issued
<1>5. \A k, l \in Issued :
          k # l /\ keys[k].sub = keys[l].sub => keys[k].handle # keys[l].handle
  BY DEF Init
<1> QED BY <1>2, <1>3, <1>4, <1>5 DEF Init, Inv, TypeOK, At

\* A row that was issued.
LEMMA IssuedRow ==
    ASSUME Inv, NEW k \in Issued
    PROVE  k \in Keys /\ keys[k] \in Row /\ keys[k] # NoKey /\ k # NoKey
BY DEF Inv, TypeOK, Issued

\* The request of a busy worker.
LEMMA BusyRequest ==
    ASSUME Inv, NEW w \in Workers, req[w] # NoRequest
    PROVE  req[w] \in Request /\ RequestSound(req[w]) /\ VouchedIn(req[w], vouched)
BY DEF Inv, TypeOK

\* A step that touches neither rows nor the environment leaves a sound request sound.
LEMMA SoundKept ==
    ASSUME NEW v \in Workers, RequestSound(req'[v]), UNCHANGED <<keys, env, told>>
    PROVE  RequestSound(req[v])'
BY DEF RequestSound, MayClaimAdmin, Issued, env

\* A step of one worker that changes its request, and may vouch for a user.
LEMMA RequestStep ==
    ASSUME Inv, NEW w \in Workers, NEW r,
           r = NoRequest \/ (r \in Request /\ RequestSound(r) /\ VouchedIn(r, vouched')),
           req' = [req EXCEPT ![w] = r], UNCHANGED <<keys, env, told>>,
           vouched \subseteq vouched', vouched' \subseteq Users, sent' \in Nat
    PROVE  Inv'
<1>1. UNCHANGED <<keys, mode, clock, members, last, told, Issued>> BY DEF env, Issued
<1>2. req' \in [Workers -> Request \cup {NoRequest}]
  BY DEF Inv, TypeOK
<1>3. ASSUME NEW v \in Workers, req'[v] # NoRequest
      PROVE  RequestSound(req'[v]) /\ VouchedIn(req'[v], vouched')
  <2>1. CASE v = w BY <1>3, <2>1 DEF Inv, TypeOK
  <2>2. CASE v # w
    <3>1. req'[v] = req[v] BY <2>2 DEF Inv, TypeOK
    <3> QED BY <1>3, <3>1, BusyRequest DEF VouchedIn
  <2> QED BY <2>1, <2>2
<1>4. ASSUME NEW k \in Issued' PROVE KeySound(k)'
  BY <1>1 DEF Inv, KeySound, Covered
<1>5. ASSUME NEW v \in Workers
      PROVE  /\ req'[v] # NoRequest => req'[v].key \in Issued \cup {NoKey}
             /\ At(v, "loaded")' =>
                  req'[v].row \in Issued /\ keys[req'[v].row].sub = req'[v].sub
  BY <1>3 DEF RequestSound, At
<1>6. TypeOK'
  BY <1>1, <1>2, <1>5 DEF Inv, TypeOK
<1>7. \A k \in told' : keys'[k].revoked BY <1>1 DEF Inv
<1>8. \A v \in Workers :
         req'[v] # NoRequest => RequestSound(req[v])' /\ VouchedIn(req'[v], vouched')
  BY <1>3, SoundKept
<1> QED BY <1>4, <1>6, <1>7, <1>8 DEF Inv

\* A worker that answers and changes no row.
LEMMA AnswerStep ==
    ASSUME Inv, NEW w \in Workers, Answer(w), UNCHANGED <<keys, env, sent, told, vouched>>
    PROVE  Inv'
<1>1. vouched \subseteq vouched' /\ vouched' \subseteq Users /\ sent' \in Nat
  BY DEF Inv, TypeOK
<1> QED BY <1>1, RequestStep DEF Answer

LEMMA SendBearerInv == ASSUME Inv, NEW w \in Workers, SendBearer(w) PROVE Inv'
<1>1. PICK u \in Users, a \in BOOLEAN :
         /\ a => MayClaimAdmin(u)
         /\ Asks(w, "bearer", "admitted", NoKey, u, a)
         /\ vouched' = vouched \cup {u}
  BY DEF SendBearer
<1>2. PICK op \in {"use", "mint", "revoke"}, e \in Lives \cup {0}, h \in Handles \cup {NoKey} :
         req' = [req EXCEPT ![w] =
           [op |-> op, pc |-> "admitted", auth |-> "bearer", key |-> NoKey, sub |-> u,
            admin |-> a, expires |-> e, handle |-> h, row |-> NoKey, late |-> NoKey \in told]]
  BY <1>1 DEF Asks
<1> DEFINE r == [op |-> op, pc |-> "admitted", auth |-> "bearer", key |-> NoKey, sub |-> u,
                 admin |-> a, expires |-> e, handle |-> h, row |-> NoKey,
                 late |-> NoKey \in told]
<1>3. r \in Request BY DEF Request
<1>4. /\ UNCHANGED <<keys, env, told>> /\ sent' \in Nat
      /\ vouched \subseteq vouched' /\ vouched' \subseteq Users /\ u \in vouched'
  BY <1>1 DEF Asks, Inv, TypeOK
<1>5. r.pc = "admitted" /\ r.auth = "bearer" /\ r.key = NoKey /\ r.sub = u /\ r.admin = a
  OBVIOUS
<1>6. req' = [req EXCEPT ![w] = r] BY <1>2
<1> HIDE DEF r
<1>7. RequestSound(r) /\ VouchedIn(r, vouched')
  BY <1>1, <1>4, <1>5 DEF RequestSound, VouchedIn
<1> QED BY <1>3, <1>4, <1>6, <1>7, RequestStep

LEMMA SendDevInv == ASSUME Inv, NEW w \in Workers, SendDev(w) PROVE Inv'
<1>1. PICK u \in Users, a \in BOOLEAN : Asks(w, "dev", "admitted", NoKey, u, a)
  BY DEF SendDev
<1>2. PICK op \in {"use", "mint", "revoke"}, e \in Lives \cup {0}, h \in Handles \cup {NoKey} :
         req' = [req EXCEPT ![w] =
           [op |-> op, pc |-> "admitted", auth |-> "dev", key |-> NoKey, sub |-> u,
            admin |-> a, expires |-> e, handle |-> h, row |-> NoKey, late |-> NoKey \in told]]
  BY <1>1 DEF Asks
<1> DEFINE r == [op |-> op, pc |-> "admitted", auth |-> "dev", key |-> NoKey, sub |-> u,
                 admin |-> a, expires |-> e, handle |-> h, row |-> NoKey,
                 late |-> NoKey \in told]
<1>3. r \in Request BY DEF Request
<1>4. /\ UNCHANGED <<keys, env, told>> /\ sent' \in Nat
      /\ vouched \subseteq vouched' /\ vouched' \subseteq Users
  BY <1>1 DEF Asks, SendDev, Inv, TypeOK
<1>5. r.pc = "admitted" /\ r.auth = "dev" /\ r.key = NoKey
  OBVIOUS
<1>6. req' = [req EXCEPT ![w] = r] BY <1>2
<1> HIDE DEF r
<1>7. RequestSound(r) /\ VouchedIn(r, vouched')
  BY <1>5 DEF RequestSound, VouchedIn, SendDev, dev_mode_enabled
<1> QED BY <1>3, <1>4, <1>6, <1>7, RequestStep

LEMMA SendKeyInv == ASSUME Inv, NEW w \in Workers, SendKey(w) PROVE Inv'
<1>1. PICK k \in Issued : Asks(w, "apikey", "sent", k, keys[k].sub, keys[k].admin)
  BY DEF SendKey
<1>2. PICK op \in {"use", "mint", "revoke"}, e \in Lives \cup {0}, h \in Handles \cup {NoKey} :
         req' = [req EXCEPT ![w] =
           [op |-> op, pc |-> "sent", auth |-> "apikey", key |-> k, sub |-> keys[k].sub,
            admin |-> keys[k].admin, expires |-> e, handle |-> h, row |-> NoKey,
            late |-> k \in told]]
  BY <1>1 DEF Asks
<1> DEFINE r == [op |-> op, pc |-> "sent", auth |-> "apikey", key |-> k, sub |-> keys[k].sub,
                 admin |-> keys[k].admin, expires |-> e, handle |-> h, row |-> NoKey,
                 late |-> k \in told]
<1>3. r \in Request BY IssuedRow DEF Request, Row
<1>4. /\ UNCHANGED <<keys, env, told>> /\ sent' \in Nat
      /\ vouched \subseteq vouched' /\ vouched' \subseteq Users
  BY <1>1 DEF Asks, SendKey, Inv, TypeOK
<1>5. /\ r.pc = "sent" /\ r.auth = "apikey" /\ r.key = k /\ r.late = (k \in told)
      /\ r.sub = keys[k].sub /\ r.admin = keys[k].admin
  OBVIOUS
<1>6. req' = [req EXCEPT ![w] = r] BY <1>2
<1> HIDE DEF r
<1>7. RequestSound(r) /\ VouchedIn(r, vouched')
  BY <1>5 DEF RequestSound, VouchedIn
<1> QED BY <1>3, <1>4, <1>6, <1>7, RequestStep

LEMMA AdmitInv == ASSUME Inv, NEW w \in Workers, Admit(w) PROVE Inv'
<1>1. req[w] # NoRequest /\ req[w].pc = "sent" BY DEF Admit, At
<1>2. req[w] \in Request /\ RequestSound(req[w]) /\ VouchedIn(req[w], vouched)
  BY <1>1, BusyRequest
<1>3. UNCHANGED <<keys, env, sent, told, vouched>> BY DEF Admit
<1>4. CASE Valid(req[w].key)
  <2> DEFINE r == [req[w] EXCEPT !.pc = "admitted"]
  <2>1. req' = [req EXCEPT ![w] = r] BY <1>4 DEF Admit, Inv, TypeOK
  <2>2. /\ r \in Request /\ r.pc = "admitted" /\ r.auth = req[w].auth /\ r.key = req[w].key
        /\ r.sub = req[w].sub /\ r.admin = req[w].admin /\ r.late = req[w].late
    BY <1>2 DEF Request
  <2> HIDE DEF r
  <2> DEFINE k == req[w].key
  <2>3. k \in Issued /\ ~keys[k].revoked /\ ~(keys[k].exp <= clock)
        /\ (keys[k].minted = "dev" => mode = "dev")
    BY <1>4 DEF Valid, Revoked, Expired, DevOnly, dev_mode_enabled
  <2>4. k \notin told BY <2>3 DEF Inv
  <2>5. clock < keys[k].exp BY <2>3, IssuedRow DEF Row, Inv, TypeOK
  <2>6. req[w].auth = "apikey" /\ req[w].late = FALSE
    BY <1>1, <1>2, <2>4 DEF RequestSound, Request
  <2>7. RequestSound(r) /\ VouchedIn(r, vouched')
    BY <1>2, <2>2, <2>3, <2>5, <2>6 DEF RequestSound, VouchedIn
  <2>8. vouched \subseteq vouched' /\ vouched' \subseteq Users /\ sent' \in Nat
    BY <1>3 DEF Inv, TypeOK
  <2> QED BY <1>3, <2>1, <2>2, <2>7, <2>8, RequestStep
<1>5. CASE Answer(w) BY <1>3, <1>5, AnswerStep
<1> QED BY <1>4, <1>5 DEF Admit

LEMMA LoadRevokeInv == ASSUME Inv, NEW w \in Workers, LoadRevoke(w) PROVE Inv'
<1>1. req[w] # NoRequest /\ req[w].pc = "admitted" BY DEF LoadRevoke, At
<1>2. req[w] \in Request /\ RequestSound(req[w]) /\ VouchedIn(req[w], vouched)
  BY <1>1, BusyRequest
<1>3. UNCHANGED <<keys, env, sent, told, vouched>> BY DEF LoadRevoke
<1>4. CASE Answer(w) BY <1>3, <1>4, AnswerStep
<1>5. ASSUME NEW k \in Issued, OwnHandle(req[w], k),
             req' = [req EXCEPT ![w].pc = "loaded", ![w].row = k]
      PROVE  Inv'
  <2> DEFINE r == [req[w] EXCEPT !.pc = "loaded", !.row = k]
  <2>1. req' = [req EXCEPT ![w] = r] BY <1>5 DEF Inv, TypeOK
  <2>2. /\ r \in Request /\ r.pc = "loaded" /\ r.auth = req[w].auth /\ r.key = req[w].key
        /\ r.sub = req[w].sub /\ r.admin = req[w].admin /\ r.late = req[w].late /\ r.row = k
    BY <1>2, IssuedRow DEF Request
  <2> HIDE DEF r
  <2>3. RequestSound(r) /\ VouchedIn(r, vouched')
    BY <1>1, <1>2, <1>3, <1>5, <2>2 DEF RequestSound, VouchedIn, OwnHandle
  <2>4. vouched \subseteq vouched' /\ vouched' \subseteq Users /\ sent' \in Nat
    BY <1>3 DEF Inv, TypeOK
  <2> QED BY <1>3, <2>1, <2>2, <2>3, <2>4, RequestStep
<1> QED BY <1>4, <1>5 DEF LoadRevoke

-----------------------------------------------------------------------------
(* Steps that write rows *)

\* A row keeps all but its revoked column, and that is never reset.
Ages(k) ==
    /\ keys'[k] \in Row
    /\ keys'[k].sub = keys[k].sub /\ keys'[k].handle = keys[k].handle
    /\ keys'[k].exp = keys[k].exp /\ keys'[k].minted = keys[k].minted
    /\ keys'[k].admin = keys[k].admin
    /\ keys[k].revoked => keys'[k].revoked

\* A worker that writes rows and answers leaves the other requests sound.
LEMMA RowsStep ==
    ASSUME Inv, NEW w \in Workers, Answer(w), UNCHANGED <<env, sent, vouched>>,
           keys' \in [Keys -> Row \cup {NoKey}],
           \A k \in Issued : Ages(k),
           \A k \in Issued' \ Issued : KeySound(k)',
           \A k, l \in Issued' :
             k # l /\ keys'[k].sub = keys'[l].sub => keys'[k].handle # keys'[l].handle,
           told \subseteq told', told' \subseteq Issued',
           \A k \in told' \ told : keys'[k].revoked
    PROVE  Inv'
<1>1. UNCHANGED <<mode, clock, members, last>> BY DEF env
<1>2. Issued \subseteq Issued' BY DEF Issued, Ages, Inv, TypeOK
<1>3. ASSUME NEW k \in Issued' PROVE KeySound(k)'
  BY <1>1 DEF Inv, KeySound, Covered, Ages
<1>4. \A k \in told' : keys'[k].revoked
  BY DEF Inv, TypeOK, Ages
<1>5. ASSUME NEW v \in Workers, req'[v] # NoRequest
      PROVE  req'[v] = req[v] /\ RequestSound(req[v]) /\ VouchedIn(req[v], vouched)
  BY <1>5 DEF Answer, Inv, TypeOK
<1>6. ASSUME NEW v \in Workers, req'[v] # NoRequest
      PROVE  /\ RequestSound(req[v])' /\ VouchedIn(req'[v], vouched')
             /\ req'[v].key \in Issued' \cup {NoKey}
             /\ req'[v].pc = "loaded" => req'[v].row \in Issued'
                                         /\ keys'[req'[v].row].sub = req'[v].sub
  <2>1. req'[v] = req[v] /\ RequestSound(req[v]) /\ VouchedIn(req[v], vouched)
    BY <1>5, <1>6
  <2> QED BY <1>1, <1>2, <2>1 DEF RequestSound, VouchedIn, MayClaimAdmin, Ages
<1>7. TypeOK'
  BY <1>1, <1>6 DEF Inv, TypeOK, Answer, At
<1> QED BY <1>3, <1>4, <1>6, <1>7 DEF Inv

\* The row of a new key: who vouches for it, and how far it reaches.
NewRow(r, h) ==
    [sub |-> r.sub, handle |-> h, exp |-> clock + r.expires,
     revoked |-> FALSE, minted |-> MintMode(r), admin |-> r.admin]

RowSound(row, r, h) ==
    /\ row \in Row /\ row.sub = r.sub /\ row.handle = h
    /\ clock < row.exp /\ row.exp <= clock + MaxExpires
    /\ row.minted = "bearer" => row.sub \in vouched
    /\ row.minted # "old" /\ row.revoked = FALSE
    /\ row.minted = "bearer" /\ row.admin => Covered(row.sub, row.exp)

LEMMA MintedRow ==
    ASSUME Inv, NEW w \in Workers, Mint(w), MayMint(req[w]), NEW h \in Handles
    PROVE  RowSound(NewRow(req[w], h), req[w], h)
<1> DEFINE r == req[w]
           row == NewRow(r, h)
<1>1. r \in Request /\ RequestSound(r) /\ VouchedIn(r, vouched) /\ r.pc = "admitted"
  BY BusyRequest DEF Mint, At
<1>2. r.expires \in Int /\ 1 <= r.expires /\ r.expires <= MaxExpires /\ clock \in Nat
  BY DEF MayMint, Inv, TypeOK
<1>3. /\ row.sub = r.sub /\ row.handle = h /\ row.exp = clock + r.expires
      /\ row.revoked = FALSE /\ row.minted = MintMode(r) /\ row.admin = r.admin
  BY DEF NewRow
<1>4. MintMode(r) \in {"bearer", "dev"} /\ (MintMode(r) = "bearer" <=> r.auth = "bearer")
  BY <1>1 DEF MintMode
<1>5. row \in Row
  <2>1. r.sub \in Users /\ r.admin \in BOOLEAN BY <1>1 DEF Request
  <2>2. clock + r.expires \in Int BY <1>2
  <2> QED BY <1>4, <2>1, <2>2 DEF Row, NewRow
<1>6. row.minted = "bearer" /\ row.admin => Covered(row.sub, row.exp)
  <2>1. SUFFICES ASSUME r.auth = "bearer", r.admin PROVE Covered(r.sub, clock + r.expires)
    BY <1>3, <1>4
  <2>2. r.sub \in members \/ clock < last[r.sub] + TokenLife
    BY <1>1, <2>1 DEF RequestSound, MayClaimAdmin
  <2>3. last[r.sub] \in Int BY <1>1 DEF Request, Inv, TypeOK
  <2> QED BY <1>2, <2>2, <2>3 DEF Covered
<1> QED BY <1>1, <1>2, <1>3, <1>4, <1>5, <1>6 DEF VouchedIn, RowSound

LEMMA MintInv == ASSUME Inv, NEW w \in Workers, Mint(w) PROVE Inv'
<1>1. Answer(w) /\ UNCHANGED <<env, sent, told, vouched>> BY DEF Mint
<1>2. CASE UNCHANGED keys BY <1>1, <1>2, AnswerStep
<1>3. ASSUME MayMint(req[w]), NEW k \in Keys, NEW h \in Handles,
             ~Clashes(k, req[w].sub, h), keys' = [keys EXCEPT ![k] = NewRow(req[w], h)]
      PROVE  Inv'
  <2> DEFINE row == NewRow(req[w], h)
  <2>0. keys' = [keys EXCEPT ![k] = row] BY <1>3
  <2>1. RowSound(row, req[w], h) BY <1>3, MintedRow
  <2> HIDE DEF row
  <2>2. k \notin Issued /\ \A l \in Issued : keys[l].sub = row.sub => keys[l].handle # h
    BY <1>3, <2>1 DEF Clashes, RowSound
  <2>3. keys' \in [Keys -> Row \cup {NoKey}] BY <2>0, <2>1 DEF Inv, TypeOK, RowSound
  <2>4. keys'[k] = row /\ \A l \in Issued : keys'[l] = keys[l]
    BY <2>0, <2>2 DEF Issued, Inv, TypeOK
  <2>5. Issued' = Issued \cup {k} BY <2>0, <2>1 DEF Issued, Inv, TypeOK, RowSound
  <2>6. \A l \in Issued : Ages(l) BY <2>4, IssuedRow DEF Ages
  <2>7. ASSUME NEW l \in Issued' \ Issued PROVE KeySound(l)'
    <3>1. l = k BY <2>5
    <3> QED BY <1>1, <2>1, <2>4, <3>1 DEF KeySound, Covered, env, RowSound
  <2>8. ASSUME NEW a \in Issued', NEW b \in Issued', a # b, keys'[a].sub = keys'[b].sub
        PROVE  keys'[a].handle # keys'[b].handle
    BY <2>1, <2>2, <2>4, <2>5, <2>8 DEF Inv, TypeOK, RowSound
  <2>9. told \subseteq told' /\ told' \subseteq Issued' /\ told' \ told = {}
    BY <1>1, <2>5 DEF Inv, TypeOK
  <2> QED BY <1>1, <2>3, <2>6, <2>7, <2>8, <2>9, RowsStep
<1> QED BY <1>2, <1>3 DEF Mint, NewRow

\* What the commit of a revocation changes: one row, which was issued.
LEMMA RevokedRow ==
    ASSUME Inv, NEW w \in Workers, CommitRevoke(w)
    PROVE  /\ req[w].row \in Issued
           /\ \A k \in Issued : Ages(k)
           /\ keys'[req[w].row].revoked
           /\ \A k \in Keys \ {req[w].row} : keys'[k] = keys[k]
           /\ keys' \in [Keys -> Row \cup {NoKey}]
<1> DEFINE k == req[w].row
           row == [keys[k] EXCEPT !.revoked = TRUE]
<1>1. k \in Issued BY BusyRequest DEF CommitRevoke, At, RequestSound
<1>2. keys[k] \in Row /\ k \in Keys BY <1>1, IssuedRow
<1>3. keys' = [keys EXCEPT ![k] = row] BY <1>2 DEF CommitRevoke, Inv, TypeOK
<1>4. /\ row \in Row /\ row.sub = keys[k].sub /\ row.handle = keys[k].handle
      /\ row.exp = keys[k].exp /\ row.minted = keys[k].minted /\ row.admin = keys[k].admin
      /\ row.revoked = TRUE
  BY <1>2 DEF Row
<1> HIDE DEF row
<1>5. ASSUME NEW l \in Issued PROVE Ages(l)
  BY <1>2, <1>3, <1>4, IssuedRow DEF Ages, Inv, TypeOK
<1> QED BY <1>1, <1>2, <1>3, <1>4, <1>5 DEF Inv, TypeOK

LEMMA CommitRevokeInv == ASSUME Inv, NEW w \in Workers, CommitRevoke(w) PROVE Inv'
<1> DEFINE k == req[w].row
<1>1. /\ k \in Issued /\ keys'[k].revoked /\ \A l \in Issued : Ages(l)
      /\ keys' \in [Keys -> Row \cup {NoKey}]
      /\ \A l \in Keys \ {k} : keys'[l] = keys[l]
  BY RevokedRow
<1>2. Issued' = Issued BY <1>1, IssuedRow DEF Issued, Ages, Inv, TypeOK
<1>3. ASSUME NEW a \in Issued', NEW b \in Issued', a # b, keys'[a].sub = keys'[b].sub
      PROVE  keys'[a].handle # keys'[b].handle
  BY <1>1, <1>2, <1>3 DEF Ages, Inv, TypeOK
<1>4. told' = told \cup {k} /\ Answer(w) /\ UNCHANGED <<env, sent, vouched>>
  BY DEF CommitRevoke
<1>5. told \subseteq told' /\ told' \subseteq Issued' /\ \A l \in told' \ told : keys'[l].revoked
  BY <1>1, <1>2, <1>4 DEF Inv, TypeOK
<1> QED BY <1>1, <1>2, <1>3, <1>4, <1>5, RowsStep

-----------------------------------------------------------------------------
(* Steps of the environment *)

LEMMA TickInv == ASSUME Inv, Tick PROVE Inv'
<1>1. /\ clock' = clock + 1 /\ clock \in Nat /\ \A w \in Workers : req[w] = NoRequest
      /\ UNCHANGED <<keys, mode, members, last, req, sent, told, vouched, Issued>>
  BY DEF Tick, Inv, TypeOK, Issued
<1>2. ASSUME NEW k \in Issued' PROVE KeySound(k)'
  <2>1. KeySound(k) /\ keys[k].exp \in Int BY <1>1, IssuedRow DEF Inv, Row
  <2>2. keys[k].exp <= clock' + MaxExpires BY <1>1, <2>1 DEF KeySound
  <2> QED BY <1>1, <2>1, <2>2 DEF KeySound, Covered
<1>3. TypeOK' BY <1>1 DEF Inv, TypeOK, At
<1> QED BY <1>1, <1>2, <1>3 DEF Inv

LEMMA RestartInv == ASSUME Inv, Restart PROVE Inv'
<1>1. /\ mode' \in {"keycloak", "dev", "closed"} /\ \A w \in Workers : req[w] = NoRequest
      /\ UNCHANGED <<keys, clock, members, last, req, sent, told, vouched, Issued>>
  BY DEF Restart, Issued
<1>2. TypeOK' BY <1>1 DEF Inv, TypeOK, At
<1>3. \A k \in Issued' : KeySound(k)' BY <1>1 DEF Inv, KeySound, Covered
<1> QED BY <1>1, <1>2, <1>3 DEF Inv

\* Who leaves has rights left for a token's life and a key's, and had no more before.
LEMMA JoinOrLeaveInv == ASSUME Inv, JoinOrLeave PROVE Inv'
<1>1. UNCHANGED <<keys, mode, clock, req, sent, told, vouched, Issued>>
  BY DEF JoinOrLeave, Issued
<1>2. PICK u \in Users :
         \/ members' = members \cup {u} /\ last' = last
         \/ members' = members \ {u} /\ last' = [last EXCEPT ![u] = clock]
  <2>1. CASE Join BY <2>1 DEF Join
  <2>2. CASE Leave BY <2>2 DEF Leave, Inv, TypeOK
  <2> QED BY <2>1, <2>2 DEF JoinOrLeave
<1>3. clock \in Nat /\ last \in [Users -> Int] /\ members \subseteq Users
  BY DEF Inv, TypeOK
<1>4. members' \subseteq Users /\ last' \in [Users -> Int] BY <1>2, <1>3
<1>5. TypeOK' BY <1>1, <1>4 DEF Inv, TypeOK, At
<1>6. ASSUME NEW v \in Users, NEW t \in Int, t <= clock + MaxExpires, Covered(v, t)
      PROVE  Covered(v, t)'
  <2>1. CASE v = u
    <3>1. CASE u \in members' BY <2>1, <3>1 DEF Covered
    <3>2. CASE u \notin members'
      <4>1. last'[v] = clock BY <1>2, <1>3, <2>1, <3>2
      <4>2. t < clock + TokenLife + MaxExpires BY <1>3, <1>6
      <4> QED BY <4>1, <4>2 DEF Covered
    <3> QED BY <3>1, <3>2
  <2>2. CASE v # u
    <3>1. last'[v] = last[v] /\ (v \in members => v \in members') BY <1>2, <1>3, <2>2
    <3> QED BY <1>6, <3>1 DEF Covered
  <2> QED BY <2>1, <2>2
<1>7. ASSUME NEW v \in Users, MayClaimAdmin(v) PROVE MayClaimAdmin(v)'
  <2>1. CASE v = u
    <3>1. CASE u \in members' BY <2>1, <3>1 DEF MayClaimAdmin
    <3>2. CASE u \notin members'
      <4>1. last'[v] = clock BY <1>2, <1>3, <2>1, <3>2
      <4>2. clock < clock + TokenLife BY <1>3
      <4> QED BY <1>1, <4>1, <4>2 DEF MayClaimAdmin
    <3> QED BY <3>1, <3>2
  <2>2. CASE v # u
    <3>1. last'[v] = last[v] /\ (v \in members => v \in members') BY <1>2, <1>3, <2>2
    <3> QED BY <1>1, <1>7, <3>1 DEF MayClaimAdmin
  <2> QED BY <2>1, <2>2
<1>8. ASSUME NEW k \in Issued' PROVE KeySound(k)'
  <2>1. KeySound(k) /\ keys[k] \in Row /\ keys[k].sub \in Users /\ keys[k].exp \in Int
    BY <1>1, IssuedRow DEF Inv, Row
  <2>2. keys[k].minted = "bearer" /\ keys[k].admin => Covered(keys[k].sub, keys[k].exp)'
    BY <1>1, <1>6, <2>1 DEF KeySound, Covered
  <2> QED BY <1>1, <2>1, <2>2 DEF KeySound
<1>9. ASSUME NEW w \in Workers, req[w] # NoRequest PROVE RequestSound(req[w])'
  <2>1. req[w] \in Request /\ RequestSound(req[w]) /\ req[w].sub \in Users
    BY <1>9, BusyRequest DEF Request
  <2>2. req[w].auth = "bearer" /\ req[w].admin => MayClaimAdmin(req[w].sub)'
    BY <1>1, <1>7, <2>1 DEF RequestSound, MayClaimAdmin
  <2> QED BY <1>1, <2>1, <2>2 DEF RequestSound
<1> QED BY <1>1, <1>5, <1>8, <1>9 DEF Inv, VouchedIn

-----------------------------------------------------------------------------
LEMMA StepInv == Inv /\ [Next]_vars => Inv'
<1> SUFFICES ASSUME Inv, [Next]_vars PROVE Inv'
  OBVIOUS
<1>1. CASE UNCHANGED vars
  <2>1. UNCHANGED <<keys, mode, clock, members, last, req, sent, told, vouched>>
    BY <1>1 DEF vars, env
  <2> QED BY <2>1 DEF Inv, TypeOK, At, Issued, KeySound, Covered, RequestSound, MayClaimAdmin,
                      VouchedIn
<1>2. CASE Tick \/ Restart \/ JoinOrLeave BY <1>2, TickInv, RestartInv, JoinOrLeaveInv
<1>3. ASSUME NEW w \in Workers, Send(w) PROVE Inv'
  BY <1>3, SendBearerInv, SendDevInv, SendKeyInv DEF Send
<1>4. ASSUME NEW w \in Workers, Use(w) \/ Cancel(w) PROVE Inv'
  BY <1>4, AnswerStep DEF Use, Cancel
<1>5. ASSUME NEW w \in Workers, Handle(w) PROVE Inv'
  BY <1>4, <1>5, AdmitInv, MintInv, LoadRevokeInv, CommitRevokeInv DEF Handle
<1> QED BY <1>1, <1>2, <1>3, <1>4, <1>5 DEF Next

LEMMA AlwaysInv == Spec => []Inv
BY InitInv, StepInv, PTL DEF Spec

\* An admitted request is sound, and past the look at its key.
LEMMA AdmittedRequest ==
    ASSUME Inv, NEW w \in Workers, Admitted(w)
    PROVE  req[w] \in Request /\ RequestSound(req[w]) /\ VouchedIn(req[w], vouched)
           /\ req[w].pc # "sent"
BY BusyRequest DEF Admitted

\* Rows and requests keep their shape, handles name one key of a user each, and a
\* revocation only ever holds a key of its caller.
THEOREM TypeCorrect == Spec => []TypeOK
<1>1. Inv => TypeOK BY DEF Inv
<1> QED BY <1>1, AlwaysInv, PTL

\* Outside dev mode every admitted name is one that Keycloak vouched for, through
\* any chain of keys and any sequence of modes, or that of a key older than the
\* column mint_mode, as long as such a key lives.
THEOREM NoInventedNames == Spec => []IdentityVouched
<1>1. Inv => IdentityVouched
  <2> SUFFICES ASSUME Inv, mode # "dev", NEW w \in Workers, Admitted(w)
               PROVE  \/ req[w].sub \in vouched
                      \/ /\ req[w].auth = "apikey" /\ keys[req[w].key].minted = "old"
                         /\ clock < MaxExpires
    BY DEF IdentityVouched
  <2> DEFINE r == req[w]
  <2>1. r \in Request /\ RequestSound(r) /\ VouchedIn(r, vouched) /\ r.pc # "sent"
    BY AdmittedRequest
  <2>2. CASE r.auth = "bearer" BY <2>1, <2>2 DEF VouchedIn
  <2>3. CASE r.auth = "apikey"
    <3>1. /\ r.key \in Issued /\ r.sub = keys[r.key].sub
          /\ keys[r.key].minted # "dev" /\ clock < keys[r.key].exp
      BY <2>1, <2>3 DEF RequestSound
    <3>2. KeySound(r.key) /\ keys[r.key] \in Row /\ clock \in Nat
      BY <3>1, IssuedRow DEF Inv, TypeOK
    <3>3. CASE keys[r.key].minted = "bearer" BY <3>1, <3>2, <3>3 DEF KeySound
    <3>4. CASE keys[r.key].minted = "old"
      <4>1. clock < MaxExpires BY <3>1, <3>2, <3>4 DEF KeySound, Row
      <4> QED BY <2>3, <3>4, <4>1
    <3> QED BY <3>1, <3>2, <3>3, <3>4 DEF Row
  <2>4. r.auth # "dev" BY <2>1 DEF RequestSound
  <2> QED BY <2>1, <2>2, <2>3, <2>4 DEF Request
<1> QED BY <1>1, AlwaysInv, PTL

\* Admin rights outlive a membership by a token's life and a key's at most, however
\* often members come and go and whatever they mint before.
THEOREM RightsEnd == Spec => []AuthorityBounded
<1>1. Inv => AuthorityBounded
  <2> SUFFICES ASSUME Inv, mode # "dev", NEW w \in Workers, Admitted(w), req[w].admin
               PROVE  \/ req[w].sub \in members
                      \/ clock + 1 < last[req[w].sub] + TokenLife + MaxExpires
    BY DEF AuthorityBounded
  <2> DEFINE r == req[w]
  <2>1. r \in Request /\ RequestSound(r) /\ r.pc # "sent" BY AdmittedRequest
  <2>2. clock \in Nat /\ last[r.sub] \in Int BY <2>1 DEF Request, Inv, TypeOK
  <2>3. CASE r.auth = "bearer"
    <3>1. r.sub \in members \/ clock < last[r.sub] + TokenLife
      BY <2>1, <2>3 DEF RequestSound, MayClaimAdmin
    <3> QED BY <2>2, <3>1
  <2>4. CASE r.auth = "apikey"
    <3> DEFINE k == r.key
    <3>1. /\ k \in Issued /\ r.sub = keys[k].sub /\ r.admin = keys[k].admin
          /\ keys[k].minted # "dev" /\ clock < keys[k].exp
      BY <2>1, <2>4 DEF RequestSound
    <3>2. KeySound(k) /\ keys[k] \in Row BY <3>1, IssuedRow DEF Inv
    <3>3. keys[k].minted = "bearer" /\ keys[k].exp \in Int
      BY <3>1, <3>2 DEF KeySound, Row
    <3>4. r.sub \in members \/ keys[k].exp < last[r.sub] + TokenLife + MaxExpires
      BY <3>1, <3>2, <3>3 DEF KeySound, Covered
    <3> QED BY <2>2, <3>1, <3>3, <3>4
  <2>5. r.auth # "dev" BY <2>1 DEF RequestSound
  <2> QED BY <2>1, <2>3, <2>4, <2>5 DEF Request
<1> QED BY <1>1, AlwaysInv, PTL

\* Once a revocation was answered, no later request is admitted with that key.
THEOREM RevocationHolds == Spec => []RevokedStays
<1>1. Inv => RevokedStays
  BY AdmittedRequest DEF RevokedStays, RequestSound
<1> QED BY <1>1, AlwaysInv, PTL

-----------------------------------------------------------------------------
(* Refinement *)

\* A row that ages, as time goes on, keeps its life or moves it on.
LEMMA LifeOfRow ==
    ASSUME Inv, NEW k \in Issued, Ages(k), clock' \in Nat, clock <= clock'
    PROVE  Life(k)' = Life(k) \/ <<Life(k), Life(k)'>> \in Promise!Forward
<1>1. keys[k] # NoKey /\ keys'[k] # NoKey /\ keys[k].exp \in Int /\ clock \in Nat
      /\ keys'[k].exp = keys[k].exp /\ (keys[k].revoked => keys'[k].revoked)
  BY IssuedRow DEF Ages, Row, Inv, TypeOK
<1>2. Life(k) \in {"live", "dead"} /\ Life(k)' \in {"live", "dead"} BY <1>1 DEF Life
<1>3. Life(k) = "dead" => Life(k)' = "dead"
  <2>1. ASSUME keys[k].revoked \/ keys[k].exp <= clock
        PROVE  keys'[k].revoked \/ keys'[k].exp <= clock'
    BY <1>1, <2>1
  <2> QED BY <1>1, <2>1 DEF Life
<1> QED BY <1>2, <1>3 DEF Promise!Forward

\* A row that appears in a step is live.
LEMMA LifeOfNew ==
    ASSUME NEW k \in Keys, keys[k] = NoKey, keys'[k] # NoKey, ~keys'[k].revoked,
           clock' \in Nat, keys'[k].exp \in Int, clock' < keys'[k].exp
    PROVE  <<Life(k), Life(k)'>> \in Promise!Forward
<1>1. Life(k) = "none" BY DEF Life
<1>2. ~(keys'[k].exp <= clock') OBVIOUS
<1>3. Life(k)' = "live" BY <1>2 DEF Life
<1> QED BY <1>1, <1>3 DEF Promise!Forward

\* In any step but an admission, lives move on and doors close.
LEMMA AgeStep ==
    ASSUME Inv, Inv',
           \A k \in Keys :
             Life(k)' = Life(k) \/ <<Life(k), Life(k)'>> \in Promise!Forward,
           \A w \in Workers : Opened(w)' \in {Opened(w), NoKey}
    PROVE  Promise!Next
<1>1. \A k \in Keys : Life(k)' \in {"none", "live", "dead"} BY DEF Life
<1>2. \A w \in Workers : Opened(w)' \in Keys \cup {NoKey}
  BY DEF Opened, Admitted, Inv, TypeOK, Request
<1>3. Promise!Age BY <1>1, <1>2 DEF Promise!Age
<1> QED BY <1>3 DEF Promise!Next

\* Rows stay as they are.
LEMMA RowsStay ==
    ASSUME Inv, UNCHANGED keys, clock' \in Nat, clock <= clock', NEW k \in Keys
    PROVE  Life(k)' = Life(k) \/ <<Life(k), Life(k)'>> \in Promise!Forward
<1>1. CASE k \in Issued
  <2>1. Ages(k) BY <1>1, IssuedRow DEF Ages
  <2> QED BY <1>1, <2>1, LifeOfRow
<1>2. CASE k \notin Issued BY <1>2 DEF Issued, Life
<1> QED BY <1>1, <1>2

\* A worker that answers closes its door, and the others keep theirs.
LEMMA AnswerCloses ==
    ASSUME Inv, NEW w \in Workers, Answer(w), NEW v \in Workers
    PROVE  Opened(v)' \in {Opened(v), NoKey}
BY DEF Answer, Opened, Admitted, Inv, TypeOK

\* A request admitted without a key opens no door.
LEMMA KeylessCloses ==
    ASSUME Inv, NEW w \in Workers, SendBearer(w) \/ SendDev(w) \/ SendKey(w),
           NEW v \in Workers
    PROVE  Opened(v)' \in {Opened(v), NoKey}
<1>1. PICK auth, pc, k, u, a :
         Asks(w, auth, pc, k, u, a) /\ (pc = "sent" \/ k = NoKey)
  BY DEF SendBearer, SendDev, SendKey
<1>2. CASE v = w
  <2>1. req'[w] # NoRequest => req'[w].pc = pc /\ req'[w].key = k
    BY <1>1 DEF Asks, Inv, TypeOK
  <2> QED BY <1>1, <1>2, <2>1 DEF Opened, Admitted
<1>3. CASE v # w
  <2>1. req'[v] = req[v] BY <1>1, <1>3 DEF Asks, Inv, TypeOK
  <2> QED BY <2>1 DEF Opened, Admitted
<1> QED BY <1>2, <1>3

\* The admission of a live key opens its door.
LEMMA AdmitOpens ==
    ASSUME Inv, NEW w \in Workers, Admit(w), Valid(req[w].key)
    PROVE  Promise!Next
<1> DEFINE k == req[w].key
<1>1. req[w] # NoRequest /\ req[w].pc = "sent" /\ req[w] \in Request
  BY BusyRequest DEF Admit, At
<1>2. k \in Keys /\ Life(k) = "live"
  BY IssuedRow DEF Valid, Revoked, Expired, Life
<1>3. \A l \in Keys : Life(l)' = Life(l) BY DEF Admit, Life, env
<1>4. Opened(w) = NoKey BY <1>1 DEF Opened, Admitted
<1>5. req'[w] # NoRequest /\ req'[w].pc = "admitted" /\ req'[w].key = k
  <2> DEFINE r == [req[w] EXCEPT !.pc = "admitted"]
  <2>1. req'[w] = r BY DEF Admit, Inv, TypeOK
  <2>2. r \in Request /\ r.pc = "admitted" /\ r.key = k BY <1>1 DEF Request
  <2> HIDE DEF r
  <2> QED BY <2>1, <2>2
<1>6. Opened(w)' = k BY <1>5 DEF Opened, Admitted
<1>7. ASSUME NEW v \in Workers, v # w PROVE Opened(v)' = Opened(v)
  <2>1. req'[v] = req[v] BY <1>7 DEF Admit, Inv, TypeOK
  <2> QED BY <2>1 DEF Opened, Admitted
<1> HIDE DEF k
<1>8. Promise!Open(w, k)
  BY <1>2, <1>3, <1>4, <1>6, <1>7 DEF Promise!Open
<1> QED BY <1>2, <1>8 DEF Promise!Next

\* The steps that write rows.
LEMMA MintAges == ASSUME Inv, Inv', NEW w \in Workers, Mint(w) PROVE Promise!Next
<1>1. UNCHANGED <<clock, mode>> /\ Answer(w) /\ clock \in Nat BY DEF Mint, env, Inv, TypeOK
<1>2. CASE UNCHANGED keys BY <1>1, <1>2, RowsStay, AnswerCloses, AgeStep
<1>3. ASSUME MayMint(req[w]), NEW k \in Keys, NEW h \in Handles,
             ~Clashes(k, req[w].sub, h), keys' = [keys EXCEPT ![k] = NewRow(req[w], h)]
      PROVE  Promise!Next
  <2> DEFINE row == NewRow(req[w], h)
  <2>1. RowSound(row, req[w], h) /\ keys' = [keys EXCEPT ![k] = row] BY <1>3, MintedRow
  <2> HIDE DEF row
  <2>2. keys[k] = NoKey BY <1>3 DEF Clashes, Issued
  <2>3. keys'[k] = row BY <2>1 DEF Inv, TypeOK
  <2>4. <<Life(k), Life(k)'>> \in Promise!Forward
    BY <1>1, <2>1, <2>2, <2>3, LifeOfNew DEF RowSound, Row
  <2>5. ASSUME NEW l \in Keys, l # k PROVE Life(l)' = Life(l)
    BY <1>1, <2>1, <2>5 DEF Life, Inv, TypeOK
  <2> QED BY <1>1, <2>4, <2>5, AnswerCloses, AgeStep
<1> QED BY <1>2, <1>3 DEF Mint, NewRow

LEMMA RevokeAges == ASSUME Inv, Inv', NEW w \in Workers, CommitRevoke(w) PROVE Promise!Next
<1>1. clock' = clock /\ clock \in Nat /\ clock <= clock' /\ Answer(w)
  BY DEF CommitRevoke, env, Inv, TypeOK
<1>2. ASSUME NEW k \in Keys
      PROVE  Life(k)' = Life(k) \/ <<Life(k), Life(k)'>> \in Promise!Forward
  <2>1. CASE k \in Issued BY <1>1, <2>1, RevokedRow, LifeOfRow
  <2>2. CASE k \notin Issued
    <3>1. keys'[k] = keys[k] BY <2>2, RevokedRow
    <3> QED BY <2>2, <3>1 DEF Issued, Life
  <2> QED BY <2>1, <2>2
<1> QED BY <1>1, <1>2, AnswerCloses, AgeStep

\* Every step is one of the promise, or none.
LEMMA PromiseStep == ASSUME Inv, Inv', [Next]_vars PROVE Promise!Next
<1>1. clock \in Nat /\ clock' \in Nat BY DEF Inv, TypeOK
<1>2. ASSUME UNCHANGED keys, clock <= clock',
             \A v \in Workers : Opened(v)' \in {Opened(v), NoKey}
      PROVE  Promise!Next
  BY <1>1, <1>2, RowsStay, AgeStep
<1>3. CASE UNCHANGED vars
  <2>1. UNCHANGED <<keys, clock, req>> BY <1>3 DEF vars, env
  <2> QED BY <1>1, <1>2, <2>1 DEF Opened, Admitted
<1>4. CASE Tick \/ Restart \/ JoinOrLeave
  <2>1. UNCHANGED <<keys, req>> /\ clock <= clock'
    BY <1>1, <1>4 DEF Tick, Restart, JoinOrLeave
  <2> QED BY <1>2, <2>1 DEF Opened, Admitted
<1>5. ASSUME NEW w \in Workers, Send(w) PROVE Promise!Next
  <2>1. UNCHANGED <<keys, clock>>
    BY <1>5 DEF Send, SendBearer, SendDev, SendKey, Asks, env
  <2> QED BY <1>1, <1>2, <1>5, <2>1, KeylessCloses DEF Send
<1>6. ASSUME NEW w \in Workers, UNCHANGED <<keys, env>>, Answer(w) PROVE Promise!Next
  BY <1>1, <1>2, <1>6, AnswerCloses DEF env
<1>7. ASSUME NEW w \in Workers, LoadRevoke(w), ~Answer(w) PROVE Promise!Next
  <2>1. PICK k \in Issued : req' = [req EXCEPT ![w].pc = "loaded", ![w].row = k]
    BY <1>7 DEF LoadRevoke
  <2>2. req[w] \in Request /\ req[w] # NoRequest /\ req[w].pc = "admitted"
    BY <1>7, BusyRequest DEF LoadRevoke, At
  <2>3. ASSUME NEW v \in Workers PROVE Opened(v)' = Opened(v)
    <3>1. CASE v = w
      <4> DEFINE r == [req[w] EXCEPT !.pc = "loaded", !.row = k]
      <4>1. req'[w] = r BY <2>1 DEF Inv, TypeOK
      <4>2. r \in Request /\ r.pc = "loaded" /\ r.key = req[w].key
        BY <2>2, IssuedRow DEF Request
      <4> HIDE DEF r
      <4> QED BY <2>2, <3>1, <4>1, <4>2 DEF Opened, Admitted
    <3>2. CASE v # w
      <4>1. req'[v] = req[v] BY <2>1, <3>2 DEF Inv, TypeOK
      <4> QED BY <4>1 DEF Opened, Admitted
    <3> QED BY <3>1, <3>2
  <2> QED BY <1>1, <1>2, <1>7, <2>3 DEF LoadRevoke, env
<1>8. ASSUME NEW w \in Workers, Handle(w) \/ Cancel(w) PROVE Promise!Next
  <2>1. CASE Admit(w) BY <1>6, <2>1, AdmitOpens DEF Admit
  <2>2. CASE Mint(w) BY <2>2, MintAges
  <2>3. CASE CommitRevoke(w) BY <2>3, RevokeAges
  <2>4. CASE LoadRevoke(w) BY <1>6, <1>7, <2>4 DEF LoadRevoke
  <2>5. CASE Use(w) \/ Cancel(w) BY <1>6, <2>5 DEF Use, Cancel
  <2> QED BY <1>8, <2>1, <2>2, <2>3, <2>4, <2>5 DEF Handle
<1> QED BY <1>3, <1>4, <1>5, <1>8 DEF Next

\* Rows, requests and the clock implement the promise: a key lives once, and only a
\* live key opens a door, in every mode and after every restart.
THEOREM KeepsPromise == Spec => ImplementsKeyLife
<1>1. Init => Promise!Init
  <2> SUFFICES ASSUME Init PROVE Promise!Init
    OBVIOUS
  <2>1. ASSUME NEW k \in Keys PROVE Life(k) \in {"none", "live"}
    <3>1. CASE keys[k] = NoKey BY <3>1 DEF Life
    <3>2. CASE keys[k] # NoKey
      <4>1. keys[k].exp = MaxExpires /\ keys[k].revoked = FALSE /\ clock = 0
        BY <3>2 DEF Init
      <4>2. ~(keys[k].exp <= clock) BY <4>1
      <4> QED BY <3>2, <4>1, <4>2 DEF Life
    <3> QED BY <3>1, <3>2
  <2>2. \A w \in Workers : Opened(w) = NoKey BY DEF Init, Opened, Admitted
  <2> QED BY <2>1, <2>2 DEF Promise!Init
<1>2. Inv /\ Inv' /\ [Next]_vars => Promise!Next BY PromiseStep
<1> QED
  BY <1>1, <1>2, AlwaysInv, PTL DEF Spec, ImplementsKeyLife, Promise!Spec
=============================================================================
