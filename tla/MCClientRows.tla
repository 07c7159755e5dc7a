---------------------------- MODULE MCClientRows ----------------------------
(* What a client has in the database, for TLC: its row and the row's cached  *)
(* copy (OrmCache), and its challenges (Challenges). They share no state: the *)
(* one is explored while the other is at rest. Writers are interchangeable,  *)
(* and so are readers.                                                       *)
EXTENDS OrmCache, MCChallenges, TLC

Symmetry == Permutations(Writer) \cup Permutations(Reader)

CacheResting ==
    /\ AtRest /\ faults = 0 /\ row = {{}} /\ cache = {} /\ done = {}
    /\ \A w \in Writer : at[w] = 0 /\ route[w] = "update_link"

ChallengesResting ==
    /\ phase = 0 /\ ~due /\ passed = {}
    /\ \A c \in Client : left[c] = Lifetime /\ held[c] = {}

RowsInit == Init /\ ChInit

RowsSpec ==
    /\ RowsInit
    /\ [][\/ Next /\ ChallengesResting /\ UNCHANGED chVars
          \/ ChNext /\ CacheResting /\ UNCHANGED vars]_<<vars, chVars>>
=============================================================================
