------------------------------ MODULE OrmCache ------------------------------
(***************************************************************************)
(* One row and one entry of it in the ORM cache (depends/orm_cache.py):     *)
(* readers fill the entry through Cache, routes write the row and           *)
(* invalidate or store the entry, each in an order of its own. A link or a  *)
(* contact has one entry. A client has one for each group it was ever read  *)
(* or stored under, since the key holds the group: the entry here is that   *)
(* of some group, and routes that work under another one never touch it. A  *)
(* row's contents are the set of the routes whose change they hold; row and *)
(* entry are sets of at most one such value, empty when there is none.      *)
(* Entries of these caches have no expiry.                                  *)
(***************************************************************************)
EXTENDS Naturals, Sequences, FiniteSets

CONSTANTS Reader, Writer,
          MaxFaults    \* bound of the model: routes that raise or stop half-way

ASSUME OrmCacheAssumption == IsFiniteSet(Writer) /\ MaxFaults \in Nat

\* The routes, as what they do to the row and to the entry: "save" and "delete"
\* are statements of a transaction, "write" and "erase" commit by themselves,
\* "fetch" is the DB_Get of a Store that is given no object.

\* update_client gets past client.group.group_id only if it has set the group, for
\* GetClient does not fetch it: here to the entry's group, ...
UpdateClient_Uncached == <<"load", "save", "commit">>
UpdateClient  == <<"load", "save", "invalid", "store", "commit">>
\* ... to another one or to none, ...
MoveClient    == <<"load", "save", "commit">>
\* ... or not at all: AttributeError
KeepClient    == <<"load", "save", "rollback">>
\* the same AttributeError, after the commit: Invalid is never come to
RevokeTokens  == <<"load", "save", "commit">>
IssueAuth     == <<"load", "save", "commit">>
\* the BEFORE trigger returns NEW, which a DELETE has not, so no row goes; then
\* the AttributeError
DeleteClient  == <<"load", "delete", "rollback">>
UpdateLink_InvalidFirst == <<"load", "invalid", "write">>
UpdateLink    == <<"load", "write", "invalid">>
DeleteLink    == <<"load", "delete", "invalid", "commit">>
UpdateContact == <<"load", "write", "fetch", "store">>
DeleteContact == <<"load", "invalid", "erase">>

Program == [update_client |-> UpdateClient, move_client |-> MoveClient,
            keep_client |-> KeepClient, revoke_tokens |-> RevokeTokens,
            issue_auth |-> IssueAuth, delete_client |-> DeleteClient,
            update_link |-> UpdateLink, delete_link |-> DeleteLink,
            update_contact |-> UpdateContact, delete_contact |-> DeleteContact]

\* the routes that share a cache
Families == {{"update_client", "move_client", "keep_client", "revoke_tokens",
              "issue_auth", "delete_client"},
             {"update_link", "delete_link"}, {"update_contact", "delete_contact"}}

\* the routes that change the row and leave the entry as it is
Unaware == {"move_client", "revoke_tokens", "issue_auth"}

VARIABLES
    row, cache,
    lock,      \* the writer whose open transaction has the row, if any
    route,     \* the route a writer runs
    at, own,   \* per writer: the steps it has done, the object it holds
    rpc, got,  \* per reader: where in Cache it is, the row it fetched
    faults,
    done,      \* history: the writers whose change was committed
    crossed,   \* history: the row changed under a fill, or under another writer
    landed     \* history: an entry was stored before the change of another writer
               \* that had already seen to the entry

writers == <<route, at, own>>
readers == <<rpc, got>>
history == <<done, crossed, landed>>
vars    == <<row, cache, lock, writers, readers, faults, history>>

Ended == 9
Active(w) == at[w] \in 1..(Len(Program[route[w]]) - 1)
AtRest == /\ \A w \in Writer : ~Active(w)
          /\ \A r \in Reader : rpc[r] = "idle"

TypeOK ==
    /\ row \in SUBSET SUBSET Writer /\ Cardinality(row) <= 1
    /\ cache \in SUBSET SUBSET Writer /\ Cardinality(cache) <= 1
    /\ lock \in SUBSET Writer /\ Cardinality(lock) <= 1

Init ==
    /\ row = {{}} /\ cache = {} /\ lock = {}
    /\ \E F \in Families : route \in [Writer -> F]
    /\ at = [w \in Writer |-> 0] /\ own = [w \in Writer |-> {}]
    /\ rpc = [r \in Reader |-> "idle"] /\ got = [r \in Reader |-> {}]
    /\ faults = 0
    /\ done = {} /\ crossed = FALSE /\ landed = FALSE
-----------------------------------------------------------------------------
\* Cache: a hit is served as it is, a miss goes to the database
Get(r) ==
    /\ rpc[r] = "idle" /\ cache = {}
    /\ rpc' = [rpc EXCEPT ![r] = "fetch"]
    /\ UNCHANGED <<row, cache, lock, writers, got, faults, history>>

\* DB_Get sees what is committed; no row, no entry
Fetch(r) ==
    /\ rpc[r] = "fetch"
    /\ rpc' = [rpc EXCEPT ![r] = IF row = {} THEN "idle" ELSE "store"]
    /\ got' = [got EXCEPT ![r] = row]
    /\ UNCHANGED <<row, cache, lock, writers, faults, history>>

Ops(w, from, to) == {Program[route[w]][i] : i \in from..to}

\* w has done what it does to the entry, its change of the row is still to come
Exposed(w) ==
    /\ Active(w)
    /\ {"invalid", "store"} \cap Ops(w, 1, at[w]) # {}
    /\ {"commit", "erase"} \cap Ops(w, at[w] + 1, Len(Program[route[w]])) # {}

Land(others) == landed' = (landed \/ \E w \in others : Exposed(w))

Store(r) ==
    /\ rpc[r] = "store"
    /\ cache' = got[r]
    /\ rpc' = [rpc EXCEPT ![r] = "idle"] /\ got' = [got EXCEPT ![r] = {}]
    /\ Land(Writer)
    /\ UNCHANGED <<row, lock, writers, faults, done, crossed>>
-----------------------------------------------------------------------------
Due(w, o) == at[w] < Len(Program[route[w]]) /\ Program[route[w]][at[w] + 1] = o
Op(w, o) == Due(w, o) /\ at' = [at EXCEPT ![w] = @ + 1]

Load_Cached(w) ==
    /\ Op(w, "load") /\ row # {}
    /\ own' = [own EXCEPT ![w] = (UNION (IF cache = {} THEN row ELSE cache)) \cup {w}]
    /\ UNCHANGED <<row, cache, lock, route, readers, faults, history>>

\* the route's dependency reads the row, the handler changes the object
Load(w) ==
    /\ Op(w, "load") /\ row # {}
    /\ own' = [own EXCEPT ![w] = (UNION row) \cup {w}]
    /\ UNCHANGED <<row, cache, lock, route, readers, faults, history>>

\* the statement waits for the row's lock and keeps it
Change(w) ==
    /\ Op(w, "save") \/ Op(w, "delete")
    /\ lock = {} /\ lock' = {w}
    /\ UNCHANGED <<row, cache, route, own, readers, faults, history>>

Alter(w, new) ==
    /\ row' = new
    /\ done' = done \cup {w}
    /\ crossed' = (\/ crossed
                   \/ \E r \in Reader : rpc[r] = "store"
                   \/ \E v \in Writer \ {w} : Active(v))

\* save writes every field of the object, to no row if it was deleted meanwhile
Commit(w) ==
    /\ Op(w, "commit")
    /\ Alter(w, IF row = {} \/ "delete" \in Ops(w, 1, at[w]) THEN {} ELSE {own[w]})
    /\ lock' = {}
    /\ UNCHANGED <<cache, route, own, readers, faults, landed>>

\* the handler raises inside its transaction
Rollback(w) ==
    /\ Op(w, "rollback")
    /\ lock' = {}
    /\ UNCHANGED <<row, cache, route, own, readers, faults, history>>

Write(w) ==
    /\ Op(w, "write") /\ lock = {}
    /\ Alter(w, IF row = {} THEN {} ELSE {own[w]})
    /\ UNCHANGED <<cache, lock, route, own, readers, faults, landed>>

Erase(w) ==
    /\ Op(w, "erase") /\ lock = {}
    /\ Alter(w, {})
    /\ UNCHANGED <<cache, lock, route, own, readers, faults, landed>>

Invalid(w) ==
    /\ Op(w, "invalid")
    /\ cache' = {}
    /\ UNCHANGED <<row, lock, route, own, readers, faults, history>>

Reload(w) ==
    /\ Op(w, "fetch") /\ row # {}
    /\ own' = [own EXCEPT ![w] = UNION row]
    /\ UNCHANGED <<row, cache, lock, route, readers, faults, history>>

StoreObject(w) ==
    /\ Op(w, "store")
    /\ cache' = {own[w]}
    /\ Land(Writer \ {w})
    /\ UNCHANGED <<row, lock, route, own, readers, faults, done, crossed>>

\* the route raises or its process stops; a transaction is rolled back, the entry
\* stays as it is
Fail(w) ==
    /\ Active(w)
    /\ faults < MaxFaults /\ faults' = faults + 1
    /\ at' = [at EXCEPT ![w] = Ended]
    /\ lock' = lock \ {w}
    /\ UNCHANGED <<row, cache, route, own, readers, history>>

\* there is no row to load: 404, or a TypeError of the Store that fetched none
NotFound(w) ==
    /\ row = {}
    /\ Due(w, "load") \/ Due(w, "fetch")
    /\ at' = [at EXCEPT ![w] = Ended]
    /\ UNCHANGED <<row, cache, lock, route, own, readers, faults, history>>

Next ==
    \/ \E r \in Reader : Get(r) \/ Fetch(r) \/ Store(r)
    \/ \E w \in Writer : \/ Load(w) \/ Change(w) \/ Commit(w) \/ Rollback(w) \/ Write(w)
                         \/ Erase(w) \/ Invalid(w) \/ Reload(w) \/ StoreObject(w)
                         \/ Fail(w) \/ NotFound(w)

Spec == Init /\ [][Next]_vars
-----------------------------------------------------------------------------
Routes == {route[w] : w \in Writer}
Quiet == AtRest /\ faults = 0

\* Routes that see to the entry after their change is committed leave a stale one
\* behind only if the row changed under a fill or under another such route: a fill
\* that is stored while they run does no harm.
AfterCommitHeals ==
    /\ Routes \subseteq {"update_link", "update_contact"}
    /\ Quiet /\ ~crossed
    => cache \subseteq row

\* Routes that see to the entry before their commit leave a stale one in one case
\* more, an entry stored in between; deleting routes leave no entry of a row that is
\* gone otherwise. (Not so the routes that are Unaware of the entry.)
TransactionHeals ==
    /\ Routes \cap Unaware = {}
    /\ Quiet /\ ~crossed /\ ~landed
    => cache \subseteq row

\* A committed change is in the row as long as there is one, unless another route
\* had loaded the row before it: save writes every field.
LostOnlyToRivals ==
    \A w \in done, v \in row : w \in v \/ crossed
=============================================================================
