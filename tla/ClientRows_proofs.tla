------------------------- MODULE ClientRows_proofs -------------------------
(***************************************************************************)
(* What holds of a client's row and its cached copy (OrmCache), and of its  *)
(* challenges (Challenges), for every value of their constants.             *)
(***************************************************************************)
EXTENDS OrmCache, Challenges, TLAPS

\* How the routes are put together: each loads the row first and once, and the only
\* one that fetches it again has written it by then.
LEMMA Programs ==
    ASSUME NEW f \in DOMAIN Program
    PROVE  /\ Len(Program[f]) \in 2..5 /\ Program[f][1] = "load"
           /\ \A i \in 2..Len(Program[f]) :
                 /\ Program[f][i] # "load"
                 /\ Program[f][i] = "fetch" => f = "update_contact" /\ i = 3
           /\ f = "update_contact" => Program[f][2] = "write"
<1>1. CASE f = "update_client"
  BY <1>1 DEF Program, UpdateClient
<1>2. CASE f = "revoke_tokens"
  BY <1>2 DEF Program, RevokeTokens
<1>2a. CASE f = "move_client"
  BY <1>2a DEF Program, MoveClient
<1>2b. CASE f = "keep_client"
  BY <1>2b DEF Program, KeepClient
<1>3. CASE f = "issue_auth"
  BY <1>3 DEF Program, IssueAuth
<1>4. CASE f = "delete_client"
  BY <1>4 DEF Program, DeleteClient
<1>5. CASE f = "update_link"
  BY <1>5 DEF Program, UpdateLink
<1>6. CASE f = "delete_link"
  BY <1>6 DEF Program, DeleteLink
<1>7. CASE f = "update_contact"
  BY <1>7 DEF Program, UpdateContact
<1>8. CASE f = "delete_contact"
  BY <1>8 DEF Program, DeleteContact
<1>9. QED
  BY <1>1, <1>2, <1>2a, <1>2b, <1>3, <1>4, <1>5, <1>6, <1>7, <1>8 DEF Program

Wrote(w) == route[w] = "update_contact" /\ at[w] \in 2..4

\* A writer that holds a row which still exists holds every committed change of it,
\* unless the row changed under it.
RowInv ==
    /\ route \in [Writer -> DOMAIN Program] /\ at \in [Writer -> Nat]
    /\ own \in [Writer -> SUBSET Writer]
    /\ row \in SUBSET SUBSET Writer /\ \A u, v \in row : u = v
    /\ \A w \in Writer : Wrote(w) => w \in done
    /\ ~crossed => /\ \A w \in done, v \in row : w \in v
                   /\ \A w \in Writer : Active(w) /\ row # {} => done \cup {w} \subseteq own[w]

\* A route that alters the row stores its own object, or leaves none.
LEMMA Altered ==
    ASSUME RowInv, NEW w \in Writer, NEW o \in {"commit", "write", "erase"}, Op(w, o),
           NEW new \in {{}, {own[w]}}, row = {} => new = {}, Alter(w, new),
           UNCHANGED <<route, own>>
    PROVE  RowInv'
<1> USE DEF RowInv
<1>1. /\ at[w] \in Nat /\ at[w] < Len(Program[route[w]])
      /\ Program[route[w]][at[w] + 1] = o /\ at' = [at EXCEPT ![w] = @ + 1]
  BY DEF Op, Due
<1>2. Active(w)
  BY <1>1, Programs DEF Active
<1>3. /\ route' = route /\ own' = own /\ row' = new /\ done' = done \cup {w}
      /\ ~crossed' => ~crossed /\ \A v \in Writer \ {w} : ~Active(v)
  BY DEF Alter
<1>4. \A v \in Writer : Wrote(v)' => v \in done'
  BY <1>1, <1>3 DEF Wrote
<1>5. \A v \in Writer \ {w} : Active(v)' = Active(v)
  BY <1>1, <1>3 DEF Active
<1>6. ASSUME ~crossed'
      PROVE  /\ \A u \in done', v \in row' : u \in v
             /\ \A v \in Writer : Active(v)' /\ row' # {} => done' \cup {v} \subseteq own'[v]
  <2>1. row # {} => done \cup {w} \subseteq own[w]
    BY <1>2, <1>3, <1>6
  <2>2. QED
    BY <1>3, <1>5, <1>6, <2>1
<1>7. at' \in [Writer -> Nat] /\ row' \in SUBSET SUBSET Writer /\ \A u, v \in row' : u = v
  BY <1>1, <1>3
<1>8. QED
  BY <1>3, <1>4, <1>6, <1>7

\* A step that leaves the row alone and a writer's object too.
LEMMA Untouched ==
    ASSUME RowInv, NEW w \in Writer, NEW n \in Nat, at' = [at EXCEPT ![w] = n],
           \/ n = at[w] + 1 /\ at[w] >= 1 /\ (n = 2 => route[w] # "update_contact")
           \/ n = Ended,
           UNCHANGED <<row, route, own, done, crossed>>
    PROVE  RowInv'
<1>1. \A v \in Writer : Wrote(v)' => Wrote(v)
  BY DEF RowInv, Wrote, Ended
<1>2. ASSUME NEW v \in Writer, Active(v)' PROVE Active(v)
  <2> DEFINE len == Len(Program[route[v]])
  <2>1. len \in 2..5
    BY Programs DEF RowInv
  <2>2. at'[v] \in 1..len - 1
    BY <1>2 DEF Active
  <2> HIDE DEF len
  <2>3. at'[v] \in 1..len - 1 /\ at'[v] # 9 /\ at'[v] = (IF v = w THEN n ELSE at[v])
    BY <2>1, <2>2 DEF RowInv
  <2>4. at[v] \in 1..len - 1
    BY <2>1, <2>3 DEF RowInv, Ended
  <2>5. QED
    BY <2>4 DEF len, Active
<1>3. QED
  BY <1>1, <1>2 DEF RowInv

\* What a route that loads the row has.
LEMMA Loaded ==
    ASSUME NEW R \in SUBSET SUBSET Writer, NEW w \in Writer, NEW D
    PROVE  /\ (UNION R) \cup {w} \in SUBSET Writer
           /\ R # {} /\ (\A d \in D, v \in R : d \in v) =>
                 D \cup {w} \subseteq (UNION R) \cup {w}
  OBVIOUS

\* RowInv is inductive.
LEMMA RowInvStep == ASSUME RowInv, [Next]_vars PROVE RowInv'
<1> USE DEF RowInv
<1>1. ASSUME UNCHANGED <<row, at, own, route, done, crossed>> PROVE RowInv'
  BY <1>1 DEF Wrote, Active
<1>2. ASSUME NEW r \in Reader, Get(r) \/ Fetch(r) \/ Store(r) PROVE RowInv'
  BY <1>1, <1>2 DEF Get, Fetch, Store, writers, history
<1>3. ASSUME NEW w \in Writer, NEW o, Op(w, o)
      PROVE  /\ at[w] \in Nat /\ at' = [at EXCEPT ![w] = at[w] + 1]
             /\ at[w] < Len(Program[route[w]]) /\ Program[route[w]][at[w] + 1] = o
             /\ o # "load" => at[w] >= 1
             /\ o = "load" => at[w] = 0
             /\ o # "write" => (at[w] = 1 => route[w] # "update_contact")
             /\ o = "fetch" => route[w] = "update_contact" /\ at[w] = 2
  BY <1>3, Programs DEF Op, Due
<1>4. ASSUME NEW w \in Writer, Load(w) PROVE RowInv'
  <2>1. /\ at[w] = 0 /\ at' = [at EXCEPT ![w] = 1] /\ row # {}
        /\ own' = [own EXCEPT ![w] = (UNION row) \cup {w}]
        /\ UNCHANGED <<row, route, done, crossed>>
    <3>1. Op(w, "load")
      BY <1>4 DEF Load
    <3>2. QED
      BY <1>3, <1>4, <3>1 DEF Load, history
  <2>2. own' \in [Writer -> SUBSET Writer] /\ at' \in [Writer -> Nat]
    <3>1. (UNION row) \cup {w} \in SUBSET Writer
      BY Loaded
    <3>2. QED
      BY <2>1, <3>1
  <2>3. \A v \in Writer : Wrote(v)' => Wrote(v)
    BY <2>1 DEF Wrote
  <2>4. \A v \in Writer : v # w => Active(v)' = Active(v) /\ own'[v] = own[v]
    BY <2>1 DEF Active
  <2>5. ~crossed => done \cup {w} \subseteq own'[w]
    <3>1. ~crossed => done \cup {w} \subseteq (UNION row) \cup {w}
      BY <2>1, Loaded
    <3>2. own'[w] = (UNION row) \cup {w}
      BY <2>1
    <3>3. QED
      BY <3>1, <3>2
  <2>6. QED
    BY <2>1, <2>2, <2>3, <2>4, <2>5
<1>5. ASSUME NEW w \in Writer, Change(w) \/ Rollback(w) \/ Invalid(w) \/ StoreObject(w) PROVE RowInv'
  <2>1. PICK o \in {"save", "delete", "rollback", "invalid", "store"} : Op(w, o)
    BY <1>5 DEF Change, Rollback, Invalid, StoreObject
  <2>2. UNCHANGED <<row, route, own, done, crossed>>
    BY <1>5 DEF Change, Rollback, Invalid, StoreObject, history
  <2>3. at[w] + 1 \in Nat /\ at' = [at EXCEPT ![w] = at[w] + 1] /\ at[w] >= 1
        /\ (at[w] = 1 => route[w] # "update_contact")
    BY <1>3, <2>1
  <2>4. at[w] + 1 = 2 => route[w] # "update_contact"
    BY <2>3
  <2>5. QED
    BY <2>2, <2>3, <2>4, Untouched
<1>6. ASSUME NEW w \in Writer, Commit(w) PROVE RowInv'
  BY <1>6, Altered DEF Commit
<1>7. ASSUME NEW w \in Writer, Write(w) PROVE RowInv'
  BY <1>7, Altered DEF Write
<1>8. ASSUME NEW w \in Writer, Erase(w) PROVE RowInv'
  BY <1>8, Altered DEF Erase
<1>9. ASSUME NEW w \in Writer, Reload(w) PROVE RowInv'
  <2>1. /\ Wrote(w) /\ at' = [at EXCEPT ![w] = 3] /\ row # {}
        /\ own' = [own EXCEPT ![w] = UNION row]
        /\ UNCHANGED <<row, route, done, crossed>>
    <3>1. Op(w, "fetch")
      BY <1>9 DEF Reload
    <3>2. QED
      BY <1>3, <1>9, <3>1 DEF Reload, history, Wrote
  <2>2. own' \in [Writer -> SUBSET Writer] /\ at' \in [Writer -> Nat]
    BY <2>1
  <2>3. \A v \in Writer : Wrote(v)' => Wrote(v)
    BY <2>1 DEF Wrote
  <2>4. \A v \in Writer : v # w => Active(v)' = Active(v) /\ own'[v] = own[v]
    BY <2>1 DEF Active
  <2>5. ~crossed => done \cup {w} \subseteq own'[w]
    BY <2>1
  <2>6. QED
    BY <2>1, <2>2, <2>3, <2>4, <2>5
<1>10. ASSUME NEW w \in Writer, Fail(w) \/ NotFound(w) PROVE RowInv'
  <2>1. at' = [at EXCEPT ![w] = Ended] /\ UNCHANGED <<row, route, own, done, crossed>>
    BY <1>10 DEF Fail, NotFound, history
  <2>2. Ended \in Nat
    BY DEF Ended
  <2>3. QED
    BY <2>1, <2>2, Untouched
<1>11. CASE UNCHANGED vars
  BY <1>1, <1>11 DEF vars, writers, history
<1>12. QED
  BY <1>2, <1>4, <1>5, <1>6, <1>7, <1>8, <1>9, <1>10, <1>11 DEF Next

\* For any writers and readers, and routes of whatever families: a committed change is
\* in the row as long as there is one, unless a route had loaded the row before it.
THEOREM LostOnlyToRivalsAlways == Spec => []LostOnlyToRivals
<1>1. Init => RowInv
  BY DEF Init, RowInv, Families, Program, Wrote, Active
<1>2. RowInv => LostOnlyToRivals
  BY DEF RowInv, LostOnlyToRivals
<1>3. QED
  BY <1>1, <1>2, RowInvStep, PTL DEF Spec

-----------------------------------------------------------------------------
(* When the entry heals *)

\* Where a route is when its next step is o.
LEMMA Placed ==
    ASSUME NEW f \in DOMAIN Program, NEW i \in Nat, i < Len(Program[f]), NEW o, Program[f][i + 1] = o
    PROVE  /\ i = 0 <=> o = "load"
           /\ o \in {"save", "delete"} => i = 1 /\ f # "delete_contact"
           /\ o = "commit" => \/ f = "update_client" /\ i = 4
                              \/ f \in Unaware /\ i = 2
                              \/ f = "delete_link" /\ i = 3
           /\ o = "write" => f \in {"update_link", "update_contact"} /\ i = 1
           /\ o = "erase" => f = "delete_contact" /\ i = 2
           /\ o = "fetch" => f = "update_contact" /\ i = 2
           /\ o = "store" => f \in {"update_client", "update_contact"} /\ i = 3
           /\ o = "rollback" => f \in {"keep_client", "delete_client"} /\ i = 2
           /\ o = "invalid" => f # "update_contact" /\ i # 4
<1> USE DEF Unaware
<1>1. CASE f = "update_client"
  BY <1>1 DEF Program, UpdateClient
<1>2. CASE f = "revoke_tokens"
  BY <1>2 DEF Program, RevokeTokens
<1>2a. CASE f = "move_client"
  BY <1>2a DEF Program, MoveClient
<1>2b. CASE f = "keep_client"
  BY <1>2b DEF Program, KeepClient
<1>3. CASE f = "issue_auth"
  BY <1>3 DEF Program, IssueAuth
<1>4. CASE f = "delete_client"
  BY <1>4 DEF Program, DeleteClient
<1>5. CASE f = "update_link"
  BY <1>5 DEF Program, UpdateLink
<1>6. CASE f = "delete_link"
  BY <1>6 DEF Program, DeleteLink
<1>7. CASE f = "update_contact"
  BY <1>7 DEF Program, UpdateContact
<1>8. CASE f = "delete_contact"
  BY <1>8 DEF Program, DeleteContact
<1>9. QED
  BY <1>1, <1>2, <1>2a, <1>2b, <1>3, <1>4, <1>5, <1>6, <1>7, <1>8 DEF Program

\* The positions in which a route is Exposed.
ExposedAt(f, i) ==
    \/ f = "update_client" /\ i \in {3, 4}
    \/ f = "delete_link" /\ i = 3
    \/ f = "delete_contact" /\ i = 2

LEMMA ExposedPlaces ==
    ASSUME NEW f \in DOMAIN Program, NEW i \in Nat
    PROVE  (/\ i \in 1..Len(Program[f]) - 1
            /\ \E j \in 1..i : Program[f][j] \in {"invalid", "store"}
            /\ \E j \in i + 1..Len(Program[f]) : Program[f][j] \in {"commit", "erase"})
           <=> ExposedAt(f, i)
<1> USE DEF ExposedAt
<1>1. CASE f = "update_client"
  BY <1>1 DEF Program, UpdateClient
<1>2. CASE f = "revoke_tokens"
  BY <1>2 DEF Program, RevokeTokens
<1>2a. CASE f = "move_client"
  BY <1>2a DEF Program, MoveClient
<1>2b. CASE f = "keep_client"
  BY <1>2b DEF Program, KeepClient
<1>3. CASE f = "issue_auth"
  BY <1>3 DEF Program, IssueAuth
<1>4. CASE f = "delete_client"
  BY <1>4 DEF Program, DeleteClient
<1>5. CASE f = "update_link"
  BY <1>5 DEF Program, UpdateLink
<1>6. CASE f = "delete_link"
  BY <1>6 DEF Program, DeleteLink
<1>7. CASE f = "update_contact"
  BY <1>7 DEF Program, UpdateContact
<1>8. CASE f = "delete_contact"
  BY <1>8 DEF Program, DeleteContact
<1>9. QED
  BY <1>1, <1>2, <1>2a, <1>2b, <1>3, <1>4, <1>5, <1>6, <1>7, <1>8 DEF Program

LEMMA ExposedThere ==
    ASSUME NEW w \in Writer
    PROVE  /\ route[w] \in DOMAIN Program /\ at[w] \in Nat =>
                 (Exposed(w) <=> ExposedAt(route[w], at[w]))
           /\ route'[w] \in DOMAIN Program /\ at'[w] \in Nat =>
                 (Exposed(w)' <=> ExposedAt(route'[w], at'[w]))
<1> DEFINE Somewhere(f, i) ==
               /\ i \in 1..Len(Program[f]) - 1
               /\ \E j \in 1..i : Program[f][j] \in {"invalid", "store"}
               /\ \E j \in i + 1..Len(Program[f]) : Program[f][j] \in {"commit", "erase"}
<1>1. /\ Exposed(w) <=> Somewhere(route[w], at[w])
      /\ Exposed(w)' <=> Somewhere(route'[w], at'[w])
  BY DEF Exposed, Active, Ops
<1>2. \A f \in DOMAIN Program, i \in Nat : Somewhere(f, i) <=> ExposedAt(f, i)
  BY ExposedPlaces
<1> HIDE DEF Somewhere
<1>3. QED
  BY <1>1, <1>2

Length(f) == Len(Program[f])

LEMMA Lengths ==
    /\ \A f \in DOMAIN Program : Length(f) \in 2..5
    /\ Length("update_client") = 5 /\ Length("update_contact") = 4
    /\ Length("delete_link") = 4 /\ Length("delete_contact") = 3
    /\ Length("keep_client") = 3 /\ Length("delete_client") = 3 /\ Length("update_link") = 3
<1>1. \A f \in DOMAIN Program : Length(f) \in 2..5
  BY Programs DEF Length
<1>2. /\ Length("update_client") = 5 /\ Length("update_contact") = 4
      /\ Length("delete_link") = 4 /\ Length("delete_contact") = 3
      /\ Length("keep_client") = 3 /\ Length("delete_client") = 3 /\ Length("update_link") = 3
  BY DEF Length, Program, UpdateClient, UpdateContact, DeleteLink, DeleteContact, KeepClient,
           DeleteClient, UpdateLink
<1>3. QED
  BY <1>1, <1>2

LEMMA ActiveThere ==
    ASSUME NEW w \in Writer
    PROVE  /\ Active(w) <=> at[w] \in 1..Length(route[w]) - 1
           /\ Active(w)' <=> at'[w] \in 1..Length(route'[w]) - 1
  BY DEF Active, Length

\* w has altered the row, and what it does to the entry is still to come.
Pending(w) ==
    \/ route[w] = "update_link" /\ at[w] = 2
    \/ route[w] = "update_contact" /\ at[w] \in {2, 3}

Healing == Routes \cap Unaware = {} /\ faults = 0 /\ ~crossed /\ ~landed

\* As long as nothing came between: a fill carries the row as it is,
Fills == \A r \in Reader : rpc[r] = "store" => got[r] = row

\* while a route is Exposed the entry is empty or already its object,
Saved(w) == route[w] = "update_client" /\ at[w] = 4
Exposes == \A w \in Writer : Exposed(w) => cache \subseteq (IF Saved(w) THEN {own[w]} ELSE {})

\* the entry is the row's but for a route that has yet to see to it or to write it,
Entry == cache \subseteq row \/ \E w \in Writer : Pending(w) \/ Saved(w)

\* and what a route fetched, or loaded, is still there.
Fetched == \A w \in Writer : route[w] = "update_contact" /\ at[w] = 3 => row = {own[w]}
There == \A w \in Writer : Active(w) => row # {}

HealInv == Healing => Fills /\ Exposes /\ Entry /\ Fetched /\ There

CacheTypeOK ==
    /\ rpc \in [Reader -> {"idle", "fetch", "store"}]
    /\ got \in [Reader -> SUBSET SUBSET Writer] /\ faults \in Nat

CacheInv == RowInv /\ CacheTypeOK /\ HealInv

\* A route that stays where it is.
LEMMA OthersStay ==
    ASSUME route' = route, NEW v \in Writer, at'[v] = at[v]
    PROVE  /\ Exposed(v)' = Exposed(v) /\ Pending(v)' = Pending(v) /\ Active(v)' = Active(v)
           /\ Saved(v)' = Saved(v)
  BY DEF Exposed, Active, Ops, Pending, Saved

\* The healing is kept by the readers: a fill stores the row itself.
LEMMA HealReader ==
    ASSUME CacheInv, RowInv', NEW r \in Reader, Get(r) \/ Fetch(r) \/ Store(r)
    PROVE  HealInv'
<1> SUFFICES ASSUME Healing' PROVE (Fills /\ Exposes /\ Entry /\ Fetched /\ There)'
  BY DEF HealInv
<1> USE DEF CacheTypeOK
<1>1. UNCHANGED <<row, route, at, own, faults, done, crossed>> /\ CacheTypeOK
  BY DEF Get, Fetch, Store, writers, history, CacheInv
<1>2. Healing
  <2>1. ~crossed /\ ~landed
    <3>1. CASE Get(r) \/ Fetch(r)
      BY <3>1 DEF Healing, Get, Fetch, history
    <3>2. CASE Store(r)
      BY <3>2, Zenon DEF Healing, Store, Land
    <3>3. QED
      BY <3>1, <3>2
  <2>2. QED
    BY <1>1, <2>1 DEF Healing, Routes
<1>3. Fills /\ Exposes /\ Entry /\ Fetched /\ There
  BY <1>2 DEF CacheInv, HealInv
<1>4. (Fetched /\ There)' /\ \A w \in Writer : Exposed(w)' = Exposed(w) /\ Pending(w)' = Pending(w) /\ Saved(w)' = Saved(w)
  BY <1>1, <1>3 DEF Fetched, There, Active, Exposed, Ops, Pending, Saved
<1>5. CASE Get(r) \/ Fetch(r)
  <2>1. cache' = cache
    BY <1>5 DEF Get, Fetch
  <2>2. Fills'
    BY <1>1, <1>3, <1>5 DEF Get, Fetch, Fills
  <2>3. QED
    BY <1>1, <1>3, <1>4, <2>1, <2>2 DEF Exposes, Entry
<1>6. CASE Store(r)
  <2>1. cache' = row
    BY <1>3, <1>6 DEF Store, Fills
  <2>2. \A w \in Writer : ~Exposed(w)
    BY <1>6 DEF Store, Land, Healing
  <2>3. Fills'
    BY <1>1, <1>3, <1>6 DEF Store, Fills
  <2>4. QED
    BY <1>1, <1>4, <2>1, <2>2, <2>3 DEF Exposes, Entry
<1>7. QED
  BY <1>5, <1>6

\* A step of w that leaves the row and the entry, or empties the entry.
LEMMA HealQuiet ==
    ASSUME RowInv, RowInv', Fills /\ Exposes /\ Entry /\ Fetched /\ There, NEW w \in Writer,
           \A v \in Writer \ {w} : at'[v] = at[v], UNCHANGED <<route, row, rpc, got>>, cache' \in {cache, {}},
           \A v \in Writer \ {w} : own'[v] = own[v],
           Exposed(w)' => cache' = {} \/ (Exposed(w) /\ ~Saved(w)),
           cache' = {} \/ (Pending(w) \/ Saved(w) => Pending(w)'),
           at'[w] = 3 /\ route[w] = "update_contact" => row = {own'[w]},
           Active(w)' => row # {}
    PROVE  (Fills /\ Exposes /\ Entry /\ Fetched /\ There)'
<1>1. \A v \in Writer \ {w} : /\ Exposed(v)' = Exposed(v) /\ Pending(v)' = Pending(v)
                              /\ Active(v)' = Active(v) /\ Saved(v)' = Saved(v) /\ at'[v] = at[v]
  BY OthersStay
<1>2. Fills'
  BY DEF Fills
<1>3. Exposes'
  BY <1>1 DEF Exposes
<1>4. Entry'
  BY <1>1 DEF Entry
<1>5. Fetched'
  BY <1>1 DEF Fetched
<1>6. There'
  BY <1>1 DEF There
<1>7. QED
  BY <1>2, <1>3, <1>4, <1>5, <1>6

\* An alteration of the row that nobody else is in the middle of.
LEMMA HealAltered ==
    ASSUME CacheInv, RowInv', NEW w \in Writer, NEW o \in {"commit", "write", "erase"}, Op(w, o),
           NEW new, Alter(w, new), UNCHANGED <<cache, route, own, rpc, got, faults, landed>>,
           new = IF row = {} \/ o = "erase" \/ (route[w] = "delete_link" /\ o = "commit") THEN {} ELSE {own[w]}
    PROVE  HealInv'
<1> SUFFICES ASSUME Healing' PROVE (Fills /\ Exposes /\ Entry /\ Fetched /\ There)'
  BY DEF HealInv
<1>1. Healing /\ row' = new
  BY DEF Healing, Routes, Alter
<1>2. Fills /\ Exposes /\ Entry /\ Fetched /\ There
  BY <1>1 DEF CacheInv, HealInv
<1>3. /\ route[w] \in DOMAIN Program /\ route[w] \notin Unaware /\ at[w] \in Nat
      /\ at[w] < Len(Program[route[w]]) /\ Program[route[w]][at[w] + 1] = o
      /\ at' = [at EXCEPT ![w] = at[w] + 1] /\ at'[w] = at[w] + 1
  BY <1>1 DEF CacheInv, RowInv, Op, Due, Healing, Routes
<1>4. \/ Saved(w) /\ o = "commit"
      \/ route[w] = "delete_link" /\ at[w] = 3 /\ o = "commit"
      \/ route[w] \in {"update_link", "update_contact"} /\ at[w] = 1 /\ o = "write"
      \/ route[w] = "delete_contact" /\ at[w] = 2 /\ o = "erase"
  BY <1>3, Placed DEF Saved
<1>5. /\ \A r \in Reader : rpc[r] # "store"
      /\ \A v \in Writer \ {w} : ~Active(v)' /\ ~Exposed(v)' /\ at'[v] = at[v]
      /\ \A v \in Writer \ {w} : route[v] = "update_contact" => at[v] # 3
  <2>1. \A v \in Writer \ {w} : ~Active(v)
    BY DEF Alter, Healing
  <2>2. \A v \in Writer \ {w} : route[v] = "update_contact" => at[v] # 3
    BY <2>1, Lengths, ActiveThere
  <2>3. \A v \in Writer \ {w} : ~Active(v)' /\ ~Exposed(v)' /\ at'[v] = at[v]
    <3>1. RowInv
      BY DEF CacheInv
    <3>2. ASSUME NEW v \in Writer \ {w} PROVE ~Active(v)' /\ ~Exposed(v)' /\ at'[v] = at[v]
      <4>3. at'[v] = at[v]
        BY <1>3, <3>1 DEF RowInv
      <4>1. Active(v)' = Active(v) /\ Exposed(v)' = Exposed(v)
        BY <4>3, OthersStay
      <4>2. ~Exposed(v)
        BY <2>1 DEF Exposed
      <4>4. QED
        BY <2>1, <4>1, <4>2, <4>3
    <3>3. QED
      BY <3>2
  <2>4. QED
    BY <2>2, <2>3 DEF Alter, Healing
<1>6. Active(w) /\ row # {}
  BY <1>2, <1>3, <1>4 DEF Active, There, Saved
<1>7. Fills'
  BY <1>5 DEF Fills
<1>8. Fetched'
  BY <1>3, <1>4, <1>5 DEF Fetched, Saved
<1>9. ~Exposed(w)' /\ (Active(w)' => new # {})
  <2>1. ~ExposedAt(route[w], at[w] + 1)
    BY <1>4 DEF ExposedAt, Saved
  <2>2. ~Exposed(w)'
    BY <1>3, <2>1, ExposedThere
  <2>4. ASSUME Active(w)' PROVE new # {}
    <3>1. at[w] + 1 <= Length(route[w]) - 1 /\ at[w] \in Nat
      BY <1>3, <2>4, ActiveThere
    <3>2. ~(route[w] = "delete_link" /\ at[w] = 3) /\ ~(route[w] = "delete_contact" /\ at[w] = 2)
      BY <3>1, Lengths
    <3>3. o # "erase" /\ ~(route[w] = "delete_link" /\ o = "commit")
      BY <1>4, <3>2 DEF Saved
    <3>4. QED
      BY <1>6, <3>3
  <2>5. QED
    BY <2>2, <2>4
<1>10. Exposes' /\ There'
  BY <1>1, <1>5, <1>9 DEF Exposes, There
<1>11. Entry'
  <2>1. CASE Saved(w) /\ o = "commit"
    <3>1. Exposed(w)
      BY <1>3, <2>1, ExposedThere DEF ExposedAt, Saved
    <3>2. QED
      BY <1>1, <1>2, <1>6, <2>1, <3>1 DEF Exposes, Entry, Saved
  <2>2. CASE \/ route[w] = "delete_link" /\ at[w] = 3 /\ o = "commit"
             \/ route[w] = "delete_contact" /\ at[w] = 2 /\ o = "erase"
    <3>1. Exposed(w)
      BY <1>3, <2>2, ExposedThere DEF ExposedAt
    <3>2. QED
      BY <1>2, <2>2, <3>1 DEF Exposes, Entry, Saved
  <2>3. CASE route[w] \in {"update_link", "update_contact"} /\ at[w] = 1
    BY <1>3, <2>3 DEF Entry, Pending
  <2>4. QED
    BY <1>4, <2>1, <2>2, <2>3
<1>12. QED
  BY <1>7, <1>8, <1>10, <1>11

\* The one transaction that deletes.
LEMMA Deletes ==
    ASSUME NEW f \in DOMAIN Program, NEW i \in Nat, i < Len(Program[f]), Program[f][i + 1] = "commit"
    PROVE  (\E j \in 1..i : Program[f][j] = "delete") <=> f = "delete_link"
<1>1. CASE f = "update_client"
  BY <1>1 DEF Program, UpdateClient
<1>2. CASE f = "revoke_tokens"
  BY <1>2 DEF Program, RevokeTokens
<1>2a. CASE f = "move_client"
  BY <1>2a DEF Program, MoveClient
<1>2b. CASE f = "keep_client"
  BY <1>2b DEF Program, KeepClient
<1>3. CASE f = "issue_auth"
  BY <1>3 DEF Program, IssueAuth
<1>4. CASE f = "delete_client"
  BY <1>4 DEF Program, DeleteClient
<1>5. CASE f = "update_link"
  BY <1>5 DEF Program, UpdateLink
<1>6. CASE f = "delete_link"
  BY <1>6 DEF Program, DeleteLink
<1>7. CASE f = "update_contact"
  BY <1>7 DEF Program, UpdateContact
<1>8. CASE f = "delete_contact"
  BY <1>8 DEF Program, DeleteContact
<1>9. QED
  BY <1>1, <1>2, <1>2a, <1>2b, <1>3, <1>4, <1>5, <1>6, <1>7, <1>8 DEF Program

\* The healing is kept by every step of a route.
LEMMA HealWriter ==
    ASSUME CacheInv, RowInv', NEW w \in Writer,
           \/ Load(w) \/ Change(w) \/ Commit(w) \/ Rollback(w) \/ Write(w) \/ Erase(w)
           \/ Invalid(w) \/ Reload(w) \/ StoreObject(w) \/ Fail(w) \/ NotFound(w)
    PROVE  HealInv'
<1> SUFFICES ASSUME Healing' PROVE (Fills /\ Exposes /\ Entry /\ Fetched /\ There)'
  BY DEF HealInv
<1> DEFINE All == Fills /\ Exposes /\ Entry /\ Fetched /\ There
<1>1. RowInv /\ faults \in Nat /\ own \in [Writer -> SUBSET Writer] /\ at \in [Writer -> Nat]
      /\ route[w] \in DOMAIN Program /\ at[w] \in Nat /\ (Healing => All)
  BY DEF CacheInv, CacheTypeOK, RowInv, HealInv
<1>2. ASSUME NEW o, Op(w, o), route[w] \notin Unaware
      PROVE  /\ at' = [at EXCEPT ![w] = at[w] + 1] /\ at'[w] = at[w] + 1 /\ at[w] < Len(Program[route[w]])
             /\ Program[route[w]][at[w] + 1] = o
             /\ o = "load" <=> at[w] = 0
             /\ o \in {"save", "delete"} => at[w] = 1 /\ route[w] # "delete_contact"
             /\ o = "fetch" => route[w] = "update_contact" /\ at[w] = 2
             /\ o = "store" => route[w] \in {"update_client", "update_contact"} /\ at[w] = 3
             /\ o = "rollback" => route[w] \in {"keep_client", "delete_client"} /\ at[w] = 2
             /\ o = "invalid" => route[w] # "update_contact" /\ at[w] # 4
  <2>1. /\ at' = [at EXCEPT ![w] = at[w] + 1] /\ at[w] < Len(Program[route[w]])
        /\ Program[route[w]][at[w] + 1] = o
    BY <1>2 DEF Op, Due
  <2>2. at'[w] = at[w] + 1
    BY <1>1, <2>1
  <2>3. QED
    <3> DEFINE f == route[w]
               i == at[w]
    <3>1. f \in DOMAIN Program /\ i \in Nat /\ i < Len(Program[f]) /\ Program[f][i + 1] = o
      BY <1>1, <2>1
    <3> HIDE DEF f, i
    <3>2. /\ o = "load" <=> i = 0
          /\ o \in {"save", "delete"} => i = 1 /\ f # "delete_contact"
          /\ o = "fetch" => f = "update_contact" /\ i = 2
          /\ o = "store" => f \in {"update_client", "update_contact"} /\ i = 3
          /\ o = "rollback" => f \in {"keep_client", "delete_client"} /\ i = 2
          /\ o = "invalid" => f # "update_contact" /\ i # 4
      BY <3>1, Placed
    <3>3. QED
      BY <1>2, <2>1, <2>2, <3>2 DEF f, i, Saved
<1> HIDE DEF All
<1>3. ASSUME UNCHANGED <<faults, crossed, landed, route>>
      PROVE  Healing /\ route[w] \notin Unaware /\ All
  BY <1>1, <1>3 DEF Healing, Routes
<1>4. CASE Load(w)
  <2>1. /\ UNCHANGED <<row, cache, route, rpc, got, faults, crossed, landed>> /\ Op(w, "load") /\ row # {}
        /\ own' = [own EXCEPT ![w] = (UNION row) \cup {w}]
    BY <1>4 DEF Load, history, readers
  <2>2. All /\ at[w] = 0 /\ at' = [at EXCEPT ![w] = 1]
    BY <1>2, <1>3, <2>1
  <2>3. ~Exposed(w)' /\ ~Pending(w) /\ ~Saved(w)
    BY <1>1, <2>1, <2>2, ExposedThere DEF ExposedAt, Pending, Saved
  <2>4. \A v \in Writer \ {w} : own'[v] = own[v] /\ at'[v] = at[v]
    BY <1>1, <2>1, <2>2
  <2>5. at'[w] = 1 /\ Fills /\ Exposes /\ Entry /\ Fetched /\ There
    BY <1>1, <2>2 DEF All
  <2>6. QED
    BY <1>1, <2>1, <2>3, <2>4, <2>5, HealQuiet
<1>5. CASE Change(w)
  <2>1. /\ UNCHANGED <<row, cache, route, own, rpc, got, faults, crossed, landed>>
        /\ \E o \in {"save", "delete"} : Op(w, o)
    BY <1>5 DEF Change, history, readers
  <2>2. All /\ at[w] = 1 /\ at' = [at EXCEPT ![w] = 2] /\ route[w] # "delete_contact"
    BY <1>2, <1>3, <2>1
  <2>3. ~Exposed(w)' /\ ~Pending(w) /\ ~Saved(w)
    BY <1>1, <2>1, <2>2, ExposedThere DEF ExposedAt, Pending, Saved
  <2>4. row # {}
    <3>1. Length(route[w]) \in 2..5
      BY <1>1, Lengths
    <3>2. Active(w)
      BY <2>2, <3>1, ActiveThere
    <3>3. QED
      BY <2>2, <3>2 DEF All, There
  <2>5. /\ Fills /\ Exposes /\ Entry /\ Fetched /\ There /\ at'[w] = 2
        /\ \A v \in Writer \ {w} : own'[v] = own[v] /\ at'[v] = at[v]
    BY <1>1, <2>1, <2>2 DEF All
  <2>6. QED
    BY <1>1, <2>1, <2>3, <2>4, <2>5, HealQuiet
<1>6. CASE Commit(w)
  <2> DEFINE new == IF row = {} \/ "delete" \in Ops(w, 1, at[w]) THEN {} ELSE {own[w]}
  <2>1. Op(w, "commit") /\ Alter(w, new) /\ UNCHANGED <<cache, route, own, rpc, got, faults, landed>>
    BY <1>6 DEF Commit, readers
  <2>2. "delete" \in Ops(w, 1, at[w]) <=> route[w] = "delete_link"
    BY <1>1, <2>1, Deletes DEF Op, Due, Ops
  <2> HIDE DEF new
  <2>3. new = IF row = {} \/ route[w] = "delete_link" THEN {} ELSE {own[w]}
    BY <2>2 DEF new
  <2>4. HealInv'
    BY <2>1, <2>3, HealAltered
  <2>5. QED
    BY <2>4 DEF HealInv
<1>6a. CASE Rollback(w)
  <2>1. /\ UNCHANGED <<row, cache, route, own, rpc, got, faults, crossed, landed>>
        /\ Op(w, "rollback")
    BY <1>6a DEF Rollback, history, readers
  <2>2. /\ All /\ at[w] = 2 /\ at' = [at EXCEPT ![w] = 3]
        /\ route[w] \in {"keep_client", "delete_client"}
    BY <1>2, <1>3, <2>1
  <2>3. ~Exposed(w)' /\ ~Pending(w) /\ ~Saved(w)
    BY <1>1, <2>1, <2>2, ExposedThere DEF ExposedAt, Pending, Saved
  <2>4. ~Active(w)'
    BY <1>1, <2>1, <2>2, Lengths, ActiveThere
  <2>5. /\ Fills /\ Exposes /\ Entry /\ Fetched /\ There /\ at'[w] = 3
        /\ \A v \in Writer \ {w} : own'[v] = own[v] /\ at'[v] = at[v]
    BY <1>1, <2>1, <2>2 DEF All
  <2>6. QED
    BY <1>1, <2>1, <2>2, <2>3, <2>4, <2>5, HealQuiet
<1>7. CASE Write(w)
  <2> DEFINE new == IF row = {} THEN {} ELSE {own[w]}
  <2>1. Op(w, "write") /\ Alter(w, new) /\ UNCHANGED <<cache, route, own, rpc, got, faults, landed>>
    BY <1>7 DEF Write, readers
  <2> HIDE DEF new
  <2>2. HealInv'
    <3>1. new = IF row = {} \/ "write" = "erase" \/ (route[w] = "delete_link" /\ "write" = "commit")
                THEN {} ELSE {own[w]}
      BY DEF new
    <3>2. QED
      BY <2>1, <3>1, HealAltered
  <2>3. QED
    BY <2>2 DEF HealInv
<1>8. CASE Erase(w)
  <2>1. Op(w, "erase") /\ Alter(w, {}) /\ UNCHANGED <<cache, route, own, rpc, got, faults, landed>>
    BY <1>8 DEF Erase, readers
  <2>2. HealInv'
    <3>1. {} = IF row = {} \/ "erase" = "erase" \/ (route[w] = "delete_link" /\ "erase" = "commit")
               THEN {} ELSE {own[w]}
      OBVIOUS
    <3>2. QED
      BY <2>1, <3>1, HealAltered
  <2>3. QED
    BY <2>2 DEF HealInv
<1>9. CASE Invalid(w)
  <2>1. /\ UNCHANGED <<row, route, own, rpc, got, faults, crossed, landed>> /\ cache' = {}
        /\ Op(w, "invalid")
    BY <1>9 DEF Invalid, history, readers
  <2>2. All /\ at[w] # 0 /\ at' = [at EXCEPT ![w] = at[w] + 1] /\ route[w] # "update_contact" /\ at[w] < Len(Program[route[w]])
    BY <1>2, <1>3, <2>1
  <2>3. Active(w)' => Active(w)
    <3>1. Length(route[w]) \in 2..5 /\ at'[w] = at[w] + 1 /\ route' = route
      BY <1>1, <2>1, <2>2, Lengths
    <3>2. QED
      BY <1>1, <2>2, <3>1, ActiveThere
  <2>4. Active(w)' => row # {}
    BY <2>2, <2>3 DEF All, There
  <2>5. /\ Fills /\ Exposes /\ Entry /\ Fetched /\ There
        /\ cache' \in {cache, {}} /\ \A v \in Writer \ {w} : own'[v] = own[v] /\ at'[v] = at[v]
    BY <1>1, <2>1, <2>2 DEF All
  <2>6. QED
    BY <1>1, <2>1, <2>2, <2>4, <2>5, HealQuiet
<1>10. CASE Reload(w)
  <2>1. /\ UNCHANGED <<row, cache, route, rpc, got, faults, crossed, landed>> /\ Op(w, "fetch") /\ row # {}
        /\ own' = [own EXCEPT ![w] = UNION row]
    BY <1>10 DEF Reload, history, readers
  <2>2. All /\ route[w] = "update_contact" /\ at[w] = 2 /\ at' = [at EXCEPT ![w] = 3]
    BY <1>2, <1>3, <2>1
  <2>3. row = {own'[w]}
    <3>1. PICK v \in row : TRUE
      BY <2>1
    <3>2. row = {v}
      BY <1>1, <3>1 DEF RowInv
    <3>3. own'[w] = UNION row
      BY <1>1, <2>1
    <3>4. UNION row = v
      BY <3>2
    <3>5. QED
      BY <3>2, <3>3, <3>4
  <2>4. ~Exposed(w)' /\ ~Saved(w) /\ Pending(w)'
    BY <1>1, <2>1, <2>2, ExposedThere DEF ExposedAt, Pending, Saved
  <2>5. /\ Fills /\ Exposes /\ Entry /\ Fetched /\ There /\ at'[w] = 3
        /\ \A v \in Writer \ {w} : own'[v] = own[v] /\ at'[v] = at[v]
    BY <1>1, <2>1, <2>2 DEF All
  <2>6. QED
    BY <1>1, <2>1, <2>3, <2>4, <2>5, HealQuiet
<1>11. CASE StoreObject(w)
  <2>1. /\ UNCHANGED <<row, route, own, rpc, got, faults, crossed>> /\ Op(w, "store")
        /\ cache' = {own[w]} /\ Land(Writer \ {w})
    BY <1>11 DEF StoreObject, readers
  <2>2. ~crossed /\ ~landed /\ \A v \in Writer \ {w} : ~Exposed(v)
    BY <2>1, Zenon DEF Land, Healing
  <2>3. All /\ route[w] \notin Unaware
    BY <1>1, <2>1, <2>2 DEF Healing, Routes
  <2>4. /\ route[w] \in {"update_client", "update_contact"} /\ at[w] = 3
        /\ at' = [at EXCEPT ![w] = 4] /\ at'[w] = 4
    BY <1>2, <2>1, <2>3
  <2>5. \A v \in Writer \ {w} : ~Exposed(v)' /\ Active(v)' = Active(v) /\ at'[v] = at[v]
    <3>1. ASSUME NEW v \in Writer \ {w} PROVE ~Exposed(v)' /\ Active(v)' = Active(v) /\ at'[v] = at[v]
      <4>2. at'[v] = at[v]
        BY <1>1, <2>4
      <4>1. Exposed(v)' = Exposed(v) /\ Active(v)' = Active(v)
        BY <2>1, <4>2, OthersStay
      <4>3. QED
        BY <2>2, <4>1, <4>2
    <3>2. QED
      BY <3>1
  <2>6. Fills'
    BY <2>1, <2>3 DEF All, Fills
  <2>7. Exposes'
    <3>1. CASE route[w] = "update_client"
      BY <2>1, <2>4, <2>5, <3>1 DEF Exposes, Saved
    <3>2. CASE route[w] = "update_contact"
      <4>1. ~Exposed(w)'
        BY <1>1, <2>1, <2>4, <3>2, ExposedThere DEF ExposedAt
      <4>2. QED
        BY <2>5, <4>1 DEF Exposes
    <3>3. QED
      BY <2>4, <3>1, <3>2
  <2>8. Entry'
    BY <2>1, <2>3, <2>4 DEF All, Entry, Fetched, Saved
  <2>9. Fetched'
    BY <2>1, <2>3, <2>4, <2>5 DEF All, Fetched
  <2>10. There'
    <3>1. Active(w)
      BY <2>4, Lengths, ActiveThere
    <3>2. QED
      BY <2>1, <2>3, <2>5, <3>1 DEF All, There
  <2>11. QED
    BY <2>6, <2>7, <2>8, <2>9, <2>10
<1>12. CASE Fail(w)
  BY <1>1, <1>12 DEF Fail, Healing
<1>13. CASE NotFound(w)
  <2>1. UNCHANGED <<row, cache, route, own, rpc, got, faults, crossed, landed>> /\ row = {}
        /\ (Due(w, "load") \/ Due(w, "fetch")) /\ at' = [at EXCEPT ![w] = Ended]
    BY <1>13 DEF NotFound, history, readers
  <2>2. All /\ ~Active(w)
    BY <1>3, <2>1 DEF All, There
  <2>3. at[w] = 0
    BY <1>1, <2>1, <2>2, Placed, Programs DEF Due, Active
  <2>4. ~Exposed(w)' /\ ~Active(w)' /\ ~Pending(w) /\ ~Saved(w)
    <3>1. at'[w] = 9 /\ Length(route[w]) \in 2..5 /\ route'[w] = route[w]
      BY <1>1, <2>1, Lengths DEF Ended
    <3>2. ~Active(w)'
      BY <3>1, ActiveThere
    <3>3. QED
      BY <2>3, <3>2 DEF Exposed, Pending, Saved
  <2>5. /\ Fills /\ Exposes /\ Entry /\ Fetched /\ There /\ at'[w] # 3
        /\ \A v \in Writer \ {w} : own'[v] = own[v] /\ at'[v] = at[v]
    BY <1>1, <2>1, <2>2 DEF All, Ended
  <2>6. QED
    BY <1>1, <2>1, <2>4, <2>5, HealQuiet
<1>14. QED
  BY <1>4, <1>5, <1>6, <1>6a, <1>7, <1>8, <1>9, <1>10, <1>11, <1>12, <1>13

\* CacheInv is inductive.
LEMMA CacheInvStep == ASSUME CacheInv, [Next]_vars PROVE CacheInv'
<1>1. RowInv'
  BY RowInvStep DEF CacheInv
<1>2. CacheTypeOK'
  <2>1. CacheTypeOK /\ row \in SUBSET SUBSET Writer
    BY DEF CacheInv, RowInv
  <2>2. CASE \E r \in Reader : Get(r) \/ Fetch(r) \/ Store(r)
    BY <2>1, <2>2 DEF Get, Fetch, Store, CacheTypeOK
  <2>3. ASSUME UNCHANGED readers, faults' \in {faults, faults + 1} PROVE CacheTypeOK'
    BY <2>1, <2>3 DEF readers, CacheTypeOK
  <2>4. CASE \E w \in Writer : \/ Load(w) \/ Change(w) \/ Commit(w) \/ Rollback(w) \/ Write(w) \/ Erase(w)
                                \/ Invalid(w) \/ Reload(w) \/ StoreObject(w) \/ Fail(w) \/ NotFound(w)
    BY <2>3, <2>4 DEF Load, Change, Commit, Rollback, Write, Erase, Invalid, Reload, StoreObject,
                     Fail, NotFound
  <2>5. QED
    BY <2>2, <2>3, <2>4 DEF Next, vars
<1>3. HealInv'
  <2>1. CASE UNCHANGED vars
    <3>1. /\ UNCHANGED <<row, cache, route, at, own, rpc, got, faults, crossed, landed>>
          /\ HealInv
      BY <2>1 DEF vars, writers, readers, history, CacheInv
    <3>2. \A w \in Writer : /\ Exposed(w)' = Exposed(w) /\ Pending(w)' = Pending(w)
                             /\ Active(w)' = Active(w) /\ Saved(w)' = Saved(w)
      BY <3>1, OthersStay
    <3>3. Healing' = Healing
      BY <3>1 DEF Healing, Routes
    <3>4. QED
      BY <3>1, <3>2, <3>3 DEF HealInv, Fills, Exposes, Entry, Fetched, There
  <2>2. QED
    BY <1>1, <2>1, HealReader, HealWriter DEF Next
<1>4. QED
  BY <1>1, <1>2, <1>3 DEF CacheInv

LEMMA CacheInvariance == Spec => []CacheInv
<1>1. Init => CacheInv
  <2> SUFFICES ASSUME Init PROVE CacheInv
    OBVIOUS
  <2>1. RowInv
    BY DEF Init, RowInv, Families, Program, Wrote, Active
  <2>2. CacheTypeOK
    <3>1. {} \in SUBSET SUBSET Writer
      OBVIOUS
    <3>2. QED
      BY <3>1 DEF Init, CacheTypeOK
  <2>3. \A w \in Writer : ~Active(w) /\ ~Exposed(w)
    BY DEF Init, Active, Exposed
  <2>4. HealInv
    BY <2>3 DEF Init, HealInv, Fills, Exposes, Entry, Fetched, There
  <2>5. QED
    BY <2>1, <2>2, <2>4 DEF CacheInv
<1>2. QED
  BY <1>1, CacheInvStep, PTL DEF Spec

\* Routes that see to the entry before their commit leave a stale one only if the row
\* changed under another, or an entry was stored meanwhile.
THEOREM TransactionHealsAlways == Spec => []TransactionHeals
<1>1. CacheInv => TransactionHeals
  <2> SUFFICES ASSUME CacheInv, Healing, AtRest PROVE cache \subseteq row
    BY DEF TransactionHeals, Healing, Quiet
  <2>1. ASSUME NEW w \in Writer PROVE ~Pending(w) /\ ~Saved(w)
    <3>1. ~Active(w)
      BY DEF AtRest
    <3>2. QED
      BY <3>1, ActiveThere, Lengths DEF Pending, Saved
  <2>2. QED
    BY <2>1 DEF CacheInv, HealInv, Entry
<1>2. QED
  BY <1>1, CacheInvariance, PTL

\* These routes are never Exposed.
AfterCommit == Routes \subseteq {"update_link", "update_contact"}
NoneLanded == AfterCommit => ~landed

LEMMA NoneLandedStep == ASSUME CacheInv, NoneLanded, [Next]_vars PROVE NoneLanded'
<1> SUFFICES ASSUME AfterCommit' PROVE ~landed'
  BY DEF NoneLanded
<1>1. route' = route
  BY DEF Next, vars, writers, Get, Fetch, Store, Load, Change, Commit, Rollback, Write, Erase, Invalid, Reload,
         StoreObject, Fail, NotFound
<1>2. AfterCommit /\ ~landed
  BY <1>1 DEF AfterCommit, Routes, NoneLanded
<1>3. ASSUME NEW w \in Writer PROVE ~Exposed(w)
  <2>1. route[w] \in {"update_link", "update_contact"}
    BY <1>2 DEF AfterCommit, Routes
  <2>2. route[w] \in DOMAIN Program /\ at[w] \in Nat
    BY DEF CacheInv, RowInv
  <2>3. QED
    BY <2>1, <2>2, ExposedThere DEF ExposedAt
<1>4. ASSUME NEW W \in SUBSET Writer, Land(W) PROVE ~landed'
  BY <1>2, <1>3, <1>4, Zenon DEF Land
<1>5. ASSUME NEW r \in Reader, Get(r) \/ Fetch(r) \/ Store(r) PROVE ~landed'
  <2>1. landed' = landed \/ Land(Writer)
    BY <1>5 DEF Get, Fetch, Store, history
  <2>2. QED
    BY <1>2, <1>4, <2>1
<1>6. ASSUME NEW w \in Writer,
             \/ Load(w) \/ Change(w) \/ Commit(w) \/ Rollback(w) \/ Write(w) \/ Erase(w)
             \/ Invalid(w) \/ Reload(w) \/ StoreObject(w) \/ Fail(w) \/ NotFound(w)
      PROVE  ~landed'
  <2>1. landed' = landed \/ Land(Writer \ {w})
    BY <1>6 DEF Load, Change, Commit, Rollback, Write, Erase, Invalid, Reload, StoreObject,
                     Fail, NotFound, history
  <2>2. QED
    BY <1>2, <1>4, <2>1
<1>7. CASE UNCHANGED vars
  BY <1>2, <1>7 DEF vars, history
<1>8. QED
  BY <1>5, <1>6, <1>7 DEF Next

\* Routes that see to the entry after their commit leave a stale one only if the row
\* changed under a fill or under another of them.
THEOREM AfterCommitHealsAlways == Spec => []AfterCommitHeals
<1>1. Init => NoneLanded
  BY DEF Init, NoneLanded
<1>2. TransactionHeals /\ NoneLanded => AfterCommitHeals
  BY DEF TransactionHeals, NoneLanded, AfterCommit, AfterCommitHeals, Unaware
<1>3. QED
  BY <1>1, <1>2, NoneLandedStep, CacheInvariance, TransactionHealsAlways, PTL DEF Spec

-----------------------------------------------------------------------------
USE ChallengesAssumption DEF Kind

\* What Renew does to a date: that of the renewed kind is replaced where it has
\* lapsed, the others stay.
LEMMA Renewed ==
    ASSUME NEW dates \in [Client -> [Kind -> Int]], life \in [Client -> [Kind -> Int]],
           NEW k \in Kind
    PROVE  /\ Renew(k, dates) \in [Client -> [Kind -> Int]]
           /\ \A c \in Client, j \in Kind :
                 Renew(k, dates)[c][j] =
                     IF dates[c][k] <= 0 /\ j = k THEN life[c][k] ELSE dates[c][j]
  BY DEF Renew

\* Counting one further, modulo n.
LEMMA Wraps ==
    ASSUME NEW n \in Nat \ {0}, NEW x \in 1..n
    PROVE  x % n = IF x = n THEN 0 ELSE x
<1> DEFINE q == x \div n
           r == x % n
           d == IF x = n THEN 1 - q ELSE -q
<1>1. q \in Int /\ r \in 0..n - 1 /\ x = (n * q) + r
  OBVIOUS
<1> HIDE DEF q, r
<1>2. d \in Int /\ n * d = IF x = n THEN r ELSE r - x
  BY <1>1
<1>3. -n < n * d /\ n * d < n /\ n * d \in Int
  BY <1>1, <1>2
<1> HIDE DEF d
<1>4. CASE d >= 1
  <2>1. n * d >= n
    BY <1>2, <1>4
  <2>2. QED
    BY <1>3, <2>1
<1>5. CASE d <= -1
  <2>1. n * d <= -n
    BY <1>2, <1>5
  <2>2. QED
    BY <1>3, <2>1
<1>6. CASE d = 0
  <2>1. n * d = 0
    BY <1>6
  <2>2. r = IF x = n THEN 0 ELSE x
    BY <1>1, <1>2, <2>1
  <2>3. QED
    BY <2>2 DEF r
<1>7. QED
  BY <1>2, <1>4, <1>5, <1>6

\* minutes since the job last ran, or should have run for the first time
Age == IF due THEN Period + phase ELSE phase

\* A date is no further in the past than the job's last run.
ChInv ==
    /\ ChTypeOK
    /\ \A c \in Client, k \in Kind : life[c][k] > 0
    /\ due => phase <= MaxLate
    /\ \/ \E c \in Client : BothLapsed(c)
       \/ \A c \in Client, k \in Kind : left[c][k] > -Age

\* The routes change the lifetimes and the tokens, never a date.
LEMMA RoutesKeep ==
    ASSUME ChInv, NEW c \in Client,
           IssueAuthTokens(c) \/ AcceptRefresh(c) \/ RefreshAuth(c) \/ RouteFails(c)
    PROVE  ChInv' /\ left' = left
<1> USE DEF ChInv, ChTypeOK, BothLapsed, Lapsed, Age, clock
<1>1. ASSUME NEW kinds \in SUBSET Kind, RawRevoke(c, kinds) 
      PROVE  /\ left' = left /\ phase' = phase /\ due' = due
             /\ life' \in [Client -> [Kind -> Int]]
             /\ \A d \in Client, k \in Kind : life'[d][k] > 0
  BY <1>1 DEF RawRevoke, Guarded
<1>2. CASE IssueAuthTokens(c)
  BY <1>1, <1>2 DEF IssueAuthTokens
<1>3. CASE AcceptRefresh(c)
  BY <1>3 DEF AcceptRefresh
<1>4. CASE RefreshAuth(c)
  BY <1>1, <1>4 DEF RefreshAuth
<1>5. CASE RouteFails(c)
  BY <1>5 DEF RouteFails
<1>6. QED
  BY <1>2, <1>3, <1>4, <1>5

\* A minute passes for the dates and for the job.
LEMMA TickKeeps == ASSUME ChInv, Tick PROVE ChInv'
<1> USE DEF ChInv, ChTypeOK, tokens
<1>1. ChTypeOK' /\ (due' => phase' <= MaxLate) /\ Age' = Age + 1
  <2>1. phase' = IF phase + 1 = Period THEN 0 ELSE phase + 1
    <3>1. phase + 1 \in 1..Period
      OBVIOUS
    <3>2. (phase + 1) % Period = IF phase + 1 = Period THEN 0 ELSE phase + 1
      BY <3>1, Wraps
    <3>3. QED
      BY <3>2 DEF Tick
  <2>2. Floor \in Int
    BY DEF Floor
  <2>3. left' \in [Client -> [Kind -> Int]]
    BY <2>2 DEF Tick
  <2>4. life' = life /\ held' = held /\ passed' = passed
    BY DEF Tick
  <2>5. CASE due
    <3>1. phase < MaxLate
      BY <2>5, Zenon DEF Tick
    <3>2. phase' = phase + 1 /\ phase' \in 0..Period - 1 /\ phase' <= MaxLate
      BY <2>1, <3>1
    <3>3. due' = TRUE
      BY <2>5, Zenon DEF Tick
    <3>4. QED
      BY <2>3, <2>4, <2>5, <3>2, <3>3 DEF Age
  <2>6. CASE ~due
    <3>1. due' = (phase' = 0)
      BY <2>6 DEF Tick
    <3>2. CASE phase + 1 = Period
      <4>1. phase' = 0
        BY <2>1, <3>2
      <4>2. due' = TRUE
        BY <3>1, <4>1
      <4>3. QED
        BY <2>3, <2>4, <2>6, <3>2, <4>1, <4>2 DEF Age
    <3>3. CASE phase + 1 # Period
      BY <2>1, <2>3, <2>4, <2>6, <3>1, <3>3 DEF Age
    <3>4. QED
      BY <3>2, <3>3
  <2>7. QED
    BY <2>5, <2>6
<1>2. Floor <= -Age /\ Floor <= 0 /\ Floor \in Int /\ Age \in Nat
  BY DEF Floor, Age
<1>3. CASE \E c \in Client : BothLapsed(c)
  BY <1>1, <1>2, <1>3 DEF Tick, BothLapsed, Lapsed
<1>4. CASE \A c \in Client, k \in Kind : left[c][k] > -Age
  <2>1. \A c \in Client, k \in Kind : left'[c][k] = left[c][k] - 1
    BY <1>2, <1>4 DEF Tick
  <2>2. \A c \in Client, k \in Kind : left'[c][k] > -Age'
    BY <1>1, <1>2, <1>4, <2>1
  <2>3. QED
    BY <1>1, <2>2 DEF Tick
<1>5. QED
  BY <1>3, <1>4

\* The job undoes what it did if a row has both dates in the past; if none has, all
\* dates are in the future once it has run.
LEMMA JobOutcome ==
    ASSUME ChInv, UpdateChallenge
    PROVE  /\ left' \in [Client -> [Kind -> Int]]
           /\ (\E c \in Client : BothLapsed(c)) => left' = left
           /\ ~(\E c \in Client : BothLapsed(c)) =>
                 \A c \in Client, k \in Kind : left'[c][k] > 0
<1> DEFINE auth == Renew("auth", left)
           both == Renew("refresh", auth)
           fails == Raises("auth", left) \/ Raises("refresh", auth)
<1>1. /\ left \in [Client -> [Kind -> Int]] /\ life \in [Client -> [Kind -> Int]]
      /\ \A c \in Client, k \in Kind : life[c][k] > 0
  BY DEF ChInv, ChTypeOK
<1>2. left' = IF fails THEN left ELSE both
  BY DEF UpdateChallenge
<1>3. /\ auth \in [Client -> [Kind -> Int]]
      /\ \A c \in Client : /\ auth[c]["auth"] = IF left[c]["auth"] <= 0 THEN life[c]["auth"]
                                                ELSE left[c]["auth"]
                           /\ auth[c]["refresh"] = left[c]["refresh"]
  BY <1>1, Renewed
<1> HIDE DEF auth
<1>4. /\ both \in [Client -> [Kind -> Int]]
      /\ \A c \in Client : /\ both[c]["auth"] = auth[c]["auth"]
                           /\ both[c]["refresh"] =
                                 IF auth[c]["refresh"] <= 0 THEN life[c]["refresh"]
                                 ELSE auth[c]["refresh"]
  BY <1>1, <1>3, Renewed
<1> HIDE DEF both
<1>5. ASSUME NEW c \in Client, BothLapsed(c) PROVE fails
  BY <1>1, <1>3, <1>5 DEF auth, Raises, Guarded, BothLapsed, Lapsed
<1>6. ASSUME \A c \in Client : ~BothLapsed(c) PROVE ~fails
  <2>1. ~Raises("auth", left)
    BY <1>1, <1>3, <1>6 DEF auth, Raises, Guarded, BothLapsed, Lapsed
  <2>2. ~Raises("refresh", auth)
    BY <1>1, <1>3, <1>4, <1>6 DEF both, Raises, Guarded, BothLapsed, Lapsed
  <2>3. QED
    BY <2>1, <2>2
<1> HIDE DEF fails
<1>7. \A c \in Client, k \in Kind : both[c][k] > 0
  BY <1>1, <1>3, <1>4
<1>8. QED
  BY <1>1, <1>2, <1>4, <1>5, <1>6, <1>7

\* A run of the job leaves all dates in the future, or a row it can never mend.
LEMMA JobKeeps == ASSUME ChInv, UpdateChallenge PROVE ChInv'
<1>1. ChTypeOK' /\ due' = FALSE /\ life' = life /\ phase' = phase
  BY JobOutcome DEF UpdateChallenge, ChInv, ChTypeOK
<1>2. CASE \E c \in Client : BothLapsed(c)
  BY <1>1, <1>2, JobOutcome DEF ChInv, BothLapsed, Lapsed
<1>3. CASE ~\E c \in Client : BothLapsed(c)
  <2>1. \A c \in Client, k \in Kind : left'[c][k] > 0
    BY <1>3, JobOutcome
  <2>2. \A c \in Client, k \in Kind : left'[c][k] > -Age'
    BY <1>1, <2>1 DEF ChTypeOK, Age
  <2>3. QED
    BY <1>1, <2>2 DEF ChInv
<1>4. QED
  BY <1>2, <1>3

\* ChInv is inductive.
LEMMA ChInvariance == ChSpec => []ChInv
<1>1. ChInit => ChInv
  <2> SUFFICES ASSUME ChInit PROVE ChInv
    OBVIOUS
  <2>1. ChTypeOK /\ due = FALSE /\ life = left
    <3>1. Lifetime \in [Kind -> Int]
      OBVIOUS
    <3>2. left \in [Client -> [Kind -> Int]] /\ life = left
      BY <3>1 DEF ChInit
    <3>3. QED
      BY <3>2 DEF ChInit, ChTypeOK
  <2>2. \A c \in Client, k \in Kind : left[c][k] > 0
    BY DEF ChInit
  <2>3. Age \in Nat
    BY <2>1 DEF ChTypeOK, Age
  <2>4. \A c \in Client, k \in Kind : left[c][k] > -Age
    BY <2>1, <2>2, <2>3 DEF ChTypeOK
  <2>5. QED
    BY <2>1, <2>2, <2>4 DEF ChInv
<1>2. ChInv /\ [ChNext]_chVars => ChInv'
  <2> SUFFICES ASSUME ChInv, [ChNext]_chVars PROVE ChInv'
    OBVIOUS
  <2>1. CASE Tick
    BY <2>1, TickKeeps
  <2>2. CASE UpdateChallenge
    BY <2>2, JobKeeps
  <2>3. ASSUME NEW c \in Client,
               IssueAuthTokens(c) \/ AcceptRefresh(c) \/ RefreshAuth(c) \/ RouteFails(c)
        PROVE  ChInv'
    BY <2>3, RoutesKeep
  <2>4. CASE UNCHANGED chVars
    BY <2>4 DEF chVars, tokens, clock, ChInv, ChTypeOK, BothLapsed, Lapsed, Age
  <2>5. QED
    BY <2>1, <2>2, <2>3, <2>4 DEF ChNext
<1>3. QED
  BY <1>1, <1>2, PTL DEF ChSpec

\* Without a row that has both dates in the past, no date is further in the past
\* than one period of the job and its delay.
THEOREM LapseIsShortAlways == ChSpec => []LapseIsShort
<1>1. ChInv => LapseIsShort
  <2> SUFFICES ASSUME ChInv, ~\E c \in Client : BothLapsed(c),
                      NEW c \in Client, NEW k \in Kind
               PROVE  left[c][k] > Floor
    BY DEF LapseIsShort
  <2>1. left[c][k] > -Age /\ left[c][k] \in Int
    BY DEF ChInv, ChTypeOK
  <2>2. Floor <= -Age /\ Floor \in Int /\ Age \in Nat
    BY DEF ChInv, ChTypeOK, Floor, Age
  <2>3. QED
    BY <2>1, <2>2
<1>2. QED
  BY <1>1, ChInvariance, PTL
=============================================================================
