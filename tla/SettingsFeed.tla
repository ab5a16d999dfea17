---------------------------- MODULE SettingsFeed ----------------------------
(***************************************************************************)
(* How a client follows the scoped settings: on a settings.changed event   *)
(* for a scope it fetches the snapshot of that scope again, naming the     *)
(* ETag of the copy it has.  The event is sent after the commit, by a      *)
(* process that may die in between, over a bus that may drop it, and two   *)
(* workers may send theirs in the opposite order of their commits.         *)
(***************************************************************************)
EXTENDS ScopedSettings

CONSTANT NoFetch
ASSUME NoFetchAssumption == NoFetch \notin [scope : Scopes, row : MaybeRow]

VARIABLES
    view,    \* scope -> the snapshot the client holds
    due,     \* scopes with an event the client has not acted on
    fetch,   \* the snapshot request under way, or NoFetch
    lost     \* scopes whose latest change was not announced: the event was
             \* lost, or a migration made the change

feedVars == <<settings, locks, audit, req, sent, view, due, fetch, lost>>

\* snapshot leaves out a row whose spec forbids the scope.
Visible(s) == IF s \in Allowed THEN settings[s] ELSE NoRow
Snapshot(row, locked) == [row |-> row, locked |-> locked]
Current(s) == Snapshot(Visible(s), s \in locks)

\* Fault: a tag made of versions and locks only.
EtagOfVersion(snap) == <<VersionOf(snap.row), snap.locked>>
Etag(snap) == <<snap.row, snap.locked>>

-----------------------------------------------------------------------------
FeedInit ==
    /\ Init
    /\ view = [s \in Scopes |-> Current(s)]
    /\ due = {}
    /\ fetch = NoFetch
    /\ lost = {}

\* A value that is migrated has no event.
Untold(w) ==
    lost' = IF AtOp(w, "commit", "migrate") /\ At(w, "publish")'
              THEN lost \cup {req[w].scope} ELSE lost
Serve(w) == (Begin(w) \/ Handle(w)) /\ Untold(w) /\ UNCHANGED <<view, due, fetch>>

\* _publish: best effort, an event that cannot be sent is only logged.
Announces(w) == At(w, "publish") /\ req[w].op # "migrate"
Announce(w) ==
    /\ Announces(w)
    /\ Publish(w)
    /\ due' = due \cup {req[w].scope}
    /\ lost' = lost \ {req[w].scope}
    /\ UNCHANGED <<view, fetch>>

DropEvent(w) ==
    /\ Announces(w)
    /\ Publish(w)
    /\ lost' = lost \cup {req[w].scope}
    /\ UNCHANGED <<view, due, fetch>>

EndMigration(w) ==
    /\ AtOp(w, "publish", "migrate")
    /\ Publish(w)
    /\ UNCHANGED <<view, due, fetch, lost>>

Die(w) ==
    /\ Crash(w)
    /\ lost' = IF Announces(w) THEN lost \cup {req[w].scope} ELSE lost
    /\ UNCHANGED <<view, due, fetch>>

\* The two queries of the snapshot handler: rows first, then locks.
FetchRows ==
    /\ fetch = NoFetch
    /\ \E s \in due :
         /\ due' = due \ {s}
         /\ fetch' = [scope |-> s, row |-> Visible(s)]
    /\ UNCHANGED <<vars, view, lost>>

\* 304 when the tag is the one the client sent: it keeps what it has.
FetchLocks ==
    /\ fetch # NoFetch
    /\ LET snap == Snapshot(fetch.row, fetch.scope \in locks)
       IN  view' = IF Etag(snap) = Etag(view[fetch.scope])
                     THEN view ELSE [view EXCEPT ![fetch.scope] = snap]
    /\ fetch' = NoFetch
    /\ UNCHANGED <<vars, due, lost>>

FeedNext ==
    \/ \E w \in Workers : Serve(w) \/ Announce(w) \/ DropEvent(w) \/ EndMigration(w) \/ Die(w)
    \/ FetchRows
    \/ FetchLocks

\* The event loop runs every task that is ready and the bus delivers; nothing
\* is assumed of the clients that send requests.
FeedFairness ==
    /\ \A w \in Workers :
         /\ WF_feedVars(Handle(w) /\ Untold(w) /\ UNCHANGED <<view, due, fetch>>)
         /\ WF_feedVars(Announce(w) \/ DropEvent(w) \/ EndMigration(w))
    /\ WF_feedVars(FetchRows)
    /\ WF_feedVars(FetchLocks)

FeedSpec == FeedInit /\ [][FeedNext]_feedVars /\ FeedFairness

-----------------------------------------------------------------------------
(* Properties *)

\* Whatever the order of commits, events and fetches, a copy that differs from
\* the database has a reason to be fetched again: an event on its way or the
\* worker about to send it, unless the event was lost or a migration made the
\* change (scoped_api.py publishes after every commit and never before).
NewsOnTheWay(s) ==
    \/ s \in due
    \/ \E w \in Workers : Announces(w) /\ req[w].scope = s
NeverStaleInSilence ==
    \A s \in Scopes :
        \/ s \in lost
        \/ NewsOnTheWay(s)
        \/ view[s] = Current(s)
        \/ fetch # NoFetch /\ fetch.scope = s /\ fetch.row = Visible(s)

\* When the requests are over, the client ends up with what is stored, at every
\* scope whose last event reached it.
CatchesUp ==
    \A s \in Scopes : <>[](s \in lost \/ view[s] = Current(s))
=============================================================================
