--------------------------- MODULE Credits_proofs ---------------------------
(***************************************************************************)
(* The ledger of one credit stays a gapless account that adds up, the credit *)
(* is never overdrawn, every charge has its bill, a payment loses its tries  *)
(* to rivals or to the network only, and paying is atomic: Credits implements *)
(* Account.  For any requests, costs, months, faults and values of the       *)
(* operator.                                                                 *)
(***************************************************************************)
EXTENDS Credits, WellFoundedInduction, TLAPS

\* Months to come have no bill.
FutureIsEmpty == \A m \in Months : m > month => bills[m] = <<>>

\* A request whose WATCH still stands has seen the balance, and its bill will be
\* the newest wherever it is filed.
Standing(r) ==
    /\ seen[r] = balance
    /\ \A m \in Months : m > filed[r] => bills[m] = <<>>
    /\ bills[filed[r]] # <<>> => Head(bills[filed[r]]).after = balance

QueuedInv ==
    \A r \in Request :
        pc[r] = "exec" =>
            /\ filed[r] <= month
            /\ OverdraftAllowed \/ seen[r] >= cost[r]
            /\ ~dirty[r] => Standing(r)

CauseInv(r) ==
    /\ rivals[r] + lost[r] >= tries[r]
    /\ pc[r] \in {"get", "exec"} /\ dirty[r] => rivals[r] + lost[r] > tries[r]
    /\ pc[r] # "failed" => tries[r] < RetryLimit
RivalsInv == \A r \in Request : CauseInv(r)

IInv == TypeOK /\ FutureIsEmpty /\ LedgerChain /\ NoOverdraft /\ QueuedInv /\ RivalsInv

-----------------------------------------------------------------------------
\* Every nonempty set of numbers has a least one.
LEMMA Least == ASSUME NEW S \in SUBSET Nat, S # {} PROVE \E n \in S : \A m \in S : n <= m
<1>1. \E n \in S : \A m \in S : ~(<<m, n>> \in OpToRel(<, Nat))
  BY WFMin, NatLessThanWellFounded
<1>2. \A m, n \in Nat : m < n => <<m, n>> \in OpToRel(<, Nat)
  BY DEF OpToRel
<1>3. PICK n \in S : \A m \in S : ~(<<m, n>> \in OpToRel(<, Nat))
  BY <1>1
<1>4. ASSUME NEW m \in S PROVE n <= m
  <2>1. ~(m < n)
    BY <1>2, <1>3
  <2> QED BY <2>1
<1> QED BY <1>4

\* Induction up to n: what is true of 0 and passed on is true of all.
LEMMA Induct ==
    ASSUME NEW n \in Nat, NEW S, 0 \in S,
           \A k \in 0..(n - 1) : k \in S => k + 1 \in S
    PROVE  0..n \subseteq S
<1> DEFINE T == (0..n) \ S
<1> SUFFICES ASSUME T # {} PROVE FALSE
  OBVIOUS
<1>1. T \in SUBSET Nat
  OBVIOUS
<1>2. PICK k \in T : \A m \in T : k <= m
  <2> HIDE DEF T
  <2> QED BY <1>1, Least
<1>3. k # 0 /\ k - 1 \in 0..(n - 1) /\ k - 1 \notin T /\ (k - 1) + 1 = k
  BY <1>2
<1> QED BY <1>2, <1>3

\* s holds the sums of f's first 0, 1, ..., n entries.
IsSum(f, n, s) == s = [k \in 0..n |-> IF k = 0 THEN 0 ELSE s[k - 1] + f[k]]

\* One more entry can be summed.
LEMMA Extend == ASSUME NEW k \in Nat, k # 0, NEW f, f[k] \in Int, NEW s \in [0..(k - 1) -> Int], IsSum(f, k - 1, s)
  PROVE \E t \in [0..k -> Int] : IsSum(f, k, t)
<1> DEFINE t == [i \in 0..k |-> IF i = k THEN s[k - 1] + f[k] ELSE s[i]]
<1>6. t \in [0..k -> Int]
  OBVIOUS
<1>1. \A i \in 0..(k-1) : s[i] = IF i = 0 THEN 0 ELSE s[i - 1] + f[i]
    BY DEF IsSum
<1>2. ASSUME NEW i \in 0..k PROVE t[i] = IF i = 0 THEN 0 ELSE t[i - 1] + f[i]
  <2>1. CASE i = k
    <3>1. t[k - 1] = s[k - 1] /\ t[k] = s[k - 1] + f[k]
      OBVIOUS
    <3> QED BY <2>1, <3>1
  <2>2. CASE i = 0
    BY <2>2, <1>1
  <2>3. CASE i \in 1..(k - 1)
    <3>1. t[i] = s[i] /\ t[i - 1] = s[i - 1]
      BY <2>3
    <3> HIDE DEF t
    <3> QED BY <2>3, <3>1, <1>1
  <2> QED BY <2>1, <2>2, <2>3
<1>7. t = [i \in 0..k |-> IF i = 0 THEN 0 ELSE t[i - 1] + f[i]]
  BY <1>2
<1> HIDE DEF t
<1> QED BY <1>6, <1>7 DEF IsSum

\* So can any number of entries: the least one that could not follows one that can.
LEMMA SumExists == ASSUME NEW n \in Nat, NEW f \in [1..n -> Int]
  PROVE  \E s \in [0..n -> Int] : IsSum(f, n, s)
<1> DEFINE T == {k \in 0..n : ~\E s \in [0..k -> Int] : IsSum(f, k, s)}
<1>1. SUFFICES ASSUME T # {} PROVE FALSE
  BY <1>1
<1>2. PICK k \in T : \A m \in T : k <= m
  <2>1. T \in SUBSET Nat
    OBVIOUS
  <2> HIDE DEF T
  <2> QED BY <1>1, <2>1, Least
<1>3. k # 0
  <2>1. [i \in 0..0 |-> 0] \in [0..0 -> Int]
    OBVIOUS
  <2>2. IsSum(f, 0, [i \in 0..0 |-> 0])
    BY DEF IsSum
  <2> QED BY <2>1, <2>2, <1>2
<1>4. k - 1 \in 0..n /\ k - 1 \notin T
  BY <1>2, <1>3
<1>5. PICK s \in [0..(k - 1) -> Int] : IsSum(f, k - 1, s)
  BY <1>4
<1>6. k \in Nat /\ f[k] \in Int
  BY <1>2, <1>3
<1> QED BY <1>2, <1>3, <1>5, <1>6, Extend

\* SumTo's recursive definition is the last of the sums.
LEMMA SumDef ==
    ASSUME NEW n \in Nat, NEW f \in [1..n -> Int]
    PROVE  \E s \in [0..n -> Int] : IsSum(f, n, s) /\ SumTo(f, n) = s[n]
<1> DEFINE s == CHOOSE t : IsSum(f, n, t)
<1>1. PICK t \in [0..n -> Int] : IsSum(f, n, t)
  BY SumExists
<1>2. IsSum(f, n, s)
  BY <1>1
<1>3. SumTo(f, n) = s[n]
  BY DEF IsSum, SumTo
<1>4. \A k \in 0..n : s[k] = IF k = 0 THEN 0 ELSE s[k - 1] + f[k]
  <2> HIDE DEF s
  <2> QED BY <1>2 DEF IsSum
<1>5. DOMAIN s = 0..n
  <2> HIDE DEF s
  <2> QED BY <1>2 DEF IsSum
<1> HIDE DEF s
<1>6. 0..n \subseteq {k \in 0..n : s[k] \in Int}
  <2> DEFINE S == {k \in 0..n : s[k] \in Int}
  <2>1. 0 \in S
    BY <1>4
  <2>2. ASSUME NEW k \in 0..(n - 1), k \in S PROVE k + 1 \in S
    <3>1. k + 1 \in 0..n /\ k + 1 # 0 /\ (k + 1) - 1 = k /\ f[k + 1] \in Int
      OBVIOUS
    <3> QED BY <2>2, <3>1, <1>4
  <2> HIDE DEF S
  <2>3. 0..n \subseteq S
    BY <2>1, <2>2, Induct
  <2> QED BY <2>3 DEF S
<1>7. s = [k \in 0..n |-> s[k]]
  BY <1>2 DEF IsSum
<1>8. s \in [0..n -> Int]
  BY <1>6, <1>7
<1> QED BY <1>2, <1>3, <1>8

\* Any list of partial sums ends in SumTo.
LEMMA SumUnique ==
    ASSUME NEW n \in Nat, NEW f \in [1..n -> Int], NEW t \in [0..n -> Int],
           t[0] = 0, \A k \in 1..n : t[k] = t[k - 1] + f[k]
    PROVE  SumTo(f, n) = t[n]
<1>1. PICK s \in [0..n -> Int] : IsSum(f, n, s) /\ SumTo(f, n) = s[n]
  BY SumDef
<1>2. \A k \in 0..n : s[k] = IF k = 0 THEN 0 ELSE s[k - 1] + f[k]
  BY <1>1 DEF IsSum
<1> DEFINE S == {k \in 0..n : s[k] = t[k]}
<1>3. 0 \in S
  BY <1>2
<1>4. ASSUME NEW k \in 0..(n - 1), k \in S PROVE k + 1 \in S
  <2>1. k + 1 \in 1..n /\ (k + 1) - 1 = k
    OBVIOUS
  <2>2. s[k + 1] = s[k] + f[k + 1]
    BY <2>1, <1>2
  <2>3. t[k + 1] = t[k] + f[k + 1]
    BY <2>1
  <2> QED BY <1>4, <2>1, <2>2, <2>3
<1> HIDE DEF S
<1>5. 0..n \subseteq S
  BY <1>3, <1>4, Induct
<1> QED BY <1>1, <1>5 DEF S

\* A sum is a number; the empty one is zero.
LEMMA SumType ==
    ASSUME NEW n \in Nat, NEW f \in [1..n -> Int]
    PROVE  SumTo(f, n) \in Int /\ (n = 0 => SumTo(f, n) = 0)
<1>1. PICK s \in [0..n -> Int] : IsSum(f, n, s) /\ SumTo(f, n) = s[n]
  BY SumDef
<1>2. s[0] = 0
  BY <1>1 DEF IsSum
<1> QED BY <1>1, <1>2

\* An entry put before the others is added.
LEMMA SumFirst ==
    ASSUME NEW n \in Nat, NEW f \in [1..n -> Int], NEW g \in [1..(n + 1) -> Int],
           \A i \in 1..n : g[i + 1] = f[i]
    PROVE  SumTo(g, n + 1) = g[1] + SumTo(f, n)
<1>1. PICK s \in [0..n -> Int] : IsSum(f, n, s) /\ SumTo(f, n) = s[n]
  BY SumDef
<1>2. \A k \in 0..n : s[k] = IF k = 0 THEN 0 ELSE s[k - 1] + f[k]
  BY <1>1 DEF IsSum
<1> DEFINE t == [k \in 0..(n + 1) |-> IF k = 0 THEN 0 ELSE g[1] + s[k - 1]]
<1>3. t \in [0..(n + 1) -> Int] /\ t[0] = 0 /\ t[n + 1] = g[1] + s[n]
  OBVIOUS
<1>4. ASSUME NEW k \in 1..(n + 1) PROVE t[k] = t[k - 1] + g[k]
  <2>1. t[k] = g[1] + s[k - 1]
    OBVIOUS
  <2>2. CASE k = 1
    <3>1. t[0] = 0 /\ s[0] = 0
      BY <1>2
    <3> HIDE DEF t
    <3> QED BY <2>1, <2>2, <3>1
  <2>3. CASE k # 1
    <3>1. k - 1 \in 1..n /\ t[k - 1] = g[1] + s[(k - 1) - 1]
      BY <2>3
    <3> DEFINE j == k - 1
    <3>2. s[k - 1] = s[(k - 1) - 1] + f[k - 1]
      BY <3>1, <1>2
    <3>3. g[k] = f[k - 1]
      <4>1. j \in 1..n /\ j + 1 = k
        BY <3>1
      <4> HIDE DEF j
      <4>2. g[j + 1] = f[j]
        BY <4>1
      <4> QED BY <4>1, <4>2 DEF j
    <3>4. s[k - 1] \in Int /\ s[(k - 1) - 1] \in Int /\ g[1] \in Int /\ f[k - 1] \in Int
      <4>1. k - 1 \in 0..n /\ (k - 1) - 1 \in 0..n /\ 1 \in 1..(n + 1)
        BY <3>1
      <4> HIDE DEF t, j
      <4> QED BY <3>1, <4>1
    <3>5. t[k] = g[1] + (s[(k - 1) - 1] + f[k - 1])
      BY <2>1, <3>2
    <3> HIDE DEF t, j
    <3> QED BY <3>1, <3>3, <3>4, <3>5
  <2> QED BY <2>2, <2>3
<1> HIDE DEF t
<1>5. n + 1 \in Nat
  OBVIOUS
<1>6. SumTo(g, n + 1) = t[n + 1]
  BY <1>3, <1>4, <1>5, SumUnique
<1> QED BY <1>1, <1>3, <1>6

\* Changing one entry changes the sum by as much.
LEMMA SumChange ==
    ASSUME NEW n \in Nat, NEW f \in [1..n -> Int], NEW g \in [1..n -> Int],
           NEW m \in 1..n, \A i \in (1..n) \ {m} : g[i] = f[i]
    PROVE  SumTo(g, n) = SumTo(f, n) + (g[m] - f[m])
<1>1. PICK s \in [0..n -> Int] : IsSum(f, n, s) /\ SumTo(f, n) = s[n]
  BY SumDef
<1>2. \A k \in 0..n : s[k] = IF k = 0 THEN 0 ELSE s[k - 1] + f[k]
  BY <1>1 DEF IsSum
<1> DEFINE d == g[m] - f[m]
           t == [k \in 0..n |-> IF k < m THEN s[k] ELSE s[k] + d]
<1>0. d \in Int
  OBVIOUS
<1>3. t \in [0..n -> Int] /\ t[0] = 0 /\ t[n] = s[n] + d
  <2>1. 0 < m /\ ~(n < m) /\ 0 \in 0..n /\ n \in 0..n /\ s[0] = 0
    BY <1>2
  <2> HIDE DEF d
  <2> QED BY <1>0, <2>1
<1>4. ASSUME NEW k \in 1..n PROVE t[k] = t[k - 1] + g[k]
  <2>1. s[k] = s[k - 1] + f[k] /\ s[k] \in Int /\ s[k - 1] \in Int /\ d \in Int
    <3>1. k \in 0..n /\ k # 0 /\ k - 1 \in 0..n
      OBVIOUS
    <3>2. s[k] = s[k - 1] + f[k]
      BY <3>1, <1>2
    <3> HIDE DEF d, t
    <3> QED BY <3>1, <3>2, <1>0
  <2>2. CASE k < m
    <3>1. t[k] = s[k] /\ t[k - 1] = s[k - 1] /\ g[k] = f[k]
      BY <2>2
    <3> QED BY <2>1, <3>1
  <2>3. CASE k = m
    <3>1. t[k] = s[k] + d /\ t[k - 1] = s[k - 1]
      BY <2>3
    <3>2. f[k] \in Int /\ g[k] \in Int /\ d = g[k] - f[k]
      BY <2>3
    <3> HIDE DEF t, d
    <3> QED BY <2>1, <3>1, <3>2
  <2>4. CASE k > m
    <3>1. t[k] = s[k] + d /\ t[k - 1] = s[k - 1] + d /\ g[k] = f[k] /\ f[k] \in Int
      <4>1. ~(k < m) /\ ~(k - 1 < m) /\ k \in 0..n /\ k - 1 \in 0..n
        BY <2>4
      <4>2. g[k] = f[k] /\ f[k] \in Int
        BY <2>4
      <4> HIDE DEF d
      <4> QED BY <4>1, <4>2
    <3> HIDE DEF t, d
    <3> QED BY <2>1, <3>1
  <2> QED BY <2>2, <2>3, <2>4
<1> HIDE DEF t
<1>5. SumTo(g, n) = t[n]
  BY <1>3, <1>4, SumUnique
<1> QED BY <1>1, <1>3, <1>5

-----------------------------------------------------------------------------
\* What bills or receipts add up to is a number; the entry LPUSH puts first adds its
\* own total.
LEMMA TotalType ==
    ASSUME NEW R, \A e \in R : e.total \in Int, NEW bs \in Seq(R)
    PROVE  TotalOf(bs) \in Int /\ (bs = <<>> => TotalOf(bs) = 0)
<1> DEFINE f == [i \in 1..Len(bs) |-> bs[i].total]
<1>1. Len(bs) \in Nat /\ (bs = <<>> => Len(bs) = 0)
  OBVIOUS
<1>2. f \in [1..Len(bs) -> Int]
  <2>1. \A i \in 1..Len(bs) : bs[i] \in R
    OBVIOUS
  <2> QED BY <2>1
<1> HIDE DEF f
<1>3. SumTo(f, Len(bs)) \in Int /\ (Len(bs) = 0 => SumTo(f, Len(bs)) = 0)
  BY <1>1, <1>2, SumType
<1> QED BY <1>1, <1>3 DEF TotalOf, f

LEMMA TotalPush ==
    ASSUME NEW R, \A e \in R : e.total \in Int, NEW bs \in Seq(R), NEW b \in R
    PROVE  TotalOf(<<b>> \o bs) = b.total + TotalOf(bs)
<1> DEFINE new == <<b>> \o bs
           n == Len(bs)
           f == [i \in 1..n |-> bs[i].total]
           g == [i \in 1..(n + 1) |-> new[i].total]
<1>1. n \in Nat /\ Len(new) = n + 1
  OBVIOUS
<1>2. new[1] = b /\ \A i \in 1..n : new[i + 1] = bs[i]
  OBVIOUS
<1>3. new \in Seq(R)
  OBVIOUS
<1>4. f \in [1..n -> Int]
  <2>1. \A i \in 1..n : bs[i] \in R
    OBVIOUS
  <2> QED BY <2>1
<1>5. g \in [1..(n + 1) -> Int]
  <2>1. \A i \in 1..(n + 1) : new[i] \in R
    BY <1>1, <1>3
  <2> HIDE DEF new
  <2> QED BY <2>1
<1>6. g[1] = b.total /\ \A i \in 1..n : g[i + 1] = f[i]
  <2> HIDE DEF new, n
  <2>1. \A i \in 1..n : i + 1 \in 1..(n + 1) /\ 1 \in 1..(n + 1)
    BY <1>1
  <2>2. 1 \in 1..(n + 1)
    BY <1>1
  <2> QED BY <1>2, <2>1, <2>2
<1>7. TotalOf(bs) = SumTo(f, n) /\ TotalOf(new) = SumTo(g, n + 1)
  BY <1>1 DEF TotalOf
<1> HIDE DEF f, g, n, new
<1>8. SumTo(g, n + 1) = g[1] + SumTo(f, n)
  BY <1>1, <1>4, <1>5, <1>6, SumFirst
<1>9. TotalOf(new) = b.total + TotalOf(bs)
  BY <1>6, <1>7, <1>8
<1> QED BY <1>9 DEF new

\* Every bill and every receipt has a total.
LEMMA HaveTotals == (\A b \in Bill : b.total \in Int) /\ (\A c \in Receipt : c.total \in Int)
BY DEF Bill, Receipt

\* bill_squash writes a receipt, and it is for what the bills it trims add up to.
LEMMA SquashedTotal ==
    ASSUME TypeOK, NEW m \in Months
    PROVE  Squashed(m) \in Receipt /\ Squashed(m).total = TotalOf(bills[m])
<1>1. bills[m] \in Seq(Bill) /\ Amount \in Int
  BY DEF TypeOK, Amount
<1>2. TotalOf(bills[m]) \in Int /\ (bills[m] = <<>> => TotalOf(bills[m]) = 0)
  BY <1>1, HaveTotals, TotalType
<1>3. CASE bills[m] = <<>>
  BY <1>1, <1>2, <1>3 DEF Squashed, Receipt
<1>4. CASE bills[m] # <<>>
  <2>1. Head(bills[m]) \in Bill /\ Last(bills[m]) \in Bill /\ Len(bills[m]) \in Nat
    <3>1. Len(bills[m]) \in Nat /\ Len(bills[m]) \in 1..Len(bills[m])
      BY <1>1, <1>4
    <3> QED BY <1>1, <1>4, <3>1 DEF Last
  <2>2. Head(bills[m]).before \in Int /\ Last(bills[m]).after \in Int
    BY <2>1 DEF Bill
  <2> QED BY <1>2, <1>4, <2>1, <2>2 DEF Squashed, Receipt
<1> QED BY <1>3, <1>4

-----------------------------------------------------------------------------
\* A bill pushed before a chain that ends where the bill starts makes a chain.
LEMMA PushChain ==
    ASSUME NEW bs \in Seq(Bill), NEW b \in Bill, Chained(bs),
           bs # <<>> => Head(bs).after = b.before
    PROVE  /\ <<b>> \o bs \in Seq(Bill) /\ <<b>> \o bs # <<>>
           /\ Head(<<b>> \o bs) = b
           /\ Chained(<<b>> \o bs)
<1> DEFINE new == <<b>> \o bs
<1>1. new \in Seq(Bill) /\ Len(new) = Len(bs) + 1 /\ Len(bs) \in Nat
  OBVIOUS
<1>2. new[1] = b /\ \A i \in 1..Len(bs) : new[i + 1] = bs[i]
  OBVIOUS
<1>3. new # <<>> /\ Head(new) = b
  BY <1>1, <1>2
<1>4. ASSUME NEW i \in 1..(Len(new) - 1) PROVE new[i].before = new[i + 1].after
  <2>1. CASE i = 1
    <3>1. bs # <<>> /\ Head(bs) = bs[1]
      BY <2>1, <1>1
    <3>2. new[2] = bs[1]
      BY <2>1, <1>1, <1>2
    <3> QED BY <2>1, <3>1, <3>2, <1>2
  <2>2. CASE i > 1
    <3>1. PICK j \in 1..(Len(bs) - 1) : i = j + 1
      <4>1. i - 1 \in 1..(Len(bs) - 1)
        BY <2>2, <1>1
      <4> QED BY <4>1
    <3>2. new[i] = bs[j] /\ new[i + 1] = bs[j + 1]
      BY <3>1, <1>1, <1>2
    <3> QED BY <3>1, <3>2 DEF Chained
  <2> QED BY <2>1, <2>2
<1> QED BY <1>1, <1>3, <1>4 DEF Chained

\* The invariant holds initially.
LEMMA InitIInv == Init => IInv
<1> SUFFICES ASSUME Init PROVE IInv
  OBVIOUS
<1>1. 1 \in Months /\ Months \subseteq Nat
  BY CreditsAssumption DEF Months
<1>2. TypeOK
  BY <1>1, CreditsAssumption DEF Init, TypeOK, Kinds, Paying, Ended
<1>3. LedgerChain /\ FutureIsEmpty
  BY <1>1 DEF Init, LedgerChain, Chained, FutureIsEmpty
<1>4. NoOverdraft
  BY CreditsAssumption DEF Init, NoOverdraft, Amount
<1>5. QueuedInv /\ RivalsInv
  BY CreditsAssumption DEF Init, QueuedInv, RivalsInv, CauseInv
<1> QED BY <1>2, <1>3, <1>4, <1>5 DEF IInv

-----------------------------------------------------------------------------
\* A step that leaves Redis alone keeps what is said of Redis.
LEMMA StoreUnchanged ==
    ASSUME IInv, UNCHANGED store
    PROVE  FutureIsEmpty' /\ LedgerChain' /\ NoOverdraft'
BY DEF IInv, store, FutureIsEmpty, LedgerChain, NoOverdraft, Amount, Chained

\* Steps of a request that sends nothing.
LEMMA AsideInv ==
    ASSUME IInv, NEW r \in Request,
           CheckEnoughCredits(r) \/ Work(r) \/ RefundCredits(r)
    PROVE  IInv'
<1> USE DEF IInv
<1>1. /\ UNCHANGED <<store, local, dirty, rivals>>
      /\ pc[r] # "failed"
      /\ \E to \in {"work", "refused", "broke", "done", "refund", "watch"} :
            pc' = [pc EXCEPT ![r] = to]
  BY DEF CheckEnoughCredits, Work, RefundCredits, Goto, TypeOK, Kinds
<1>2. PICK to \in {"work", "refused", "broke", "done", "refund", "watch"} :
          pc' = [pc EXCEPT ![r] = to]
  BY <1>1
<1>3. TypeOK'
  BY <1>1, <1>2 DEF TypeOK, store, local, Paying, Ended
<1>4. pc'[r] = to /\ \A s \in Request \ {r} : pc'[s] = pc[s]
  BY <1>2 DEF TypeOK
<1>5. QueuedInv'
  BY <1>1, <1>4 DEF QueuedInv, Standing, store, local
<1>6. RivalsInv'
  BY <1>1, <1>4 DEF RivalsInv, CauseInv, local
<1> QED BY <1>1, <1>3, <1>5, <1>6, StoreUnchanged

\* A new try starts with a WATCH of its own.
LEMMA WatchInv ==
    ASSUME IInv, NEW r \in Request, Watch(r)
    PROVE  IInv'
<1> USE DEF IInv
<1>1. /\ UNCHANGED <<store, local, rivals>> /\ pc[r] = "watch"
      /\ pc' = [pc EXCEPT ![r] = "get"] /\ dirty' = [dirty EXCEPT ![r] = FALSE]
  BY DEF Watch, Goto
<1>2. TypeOK'
  BY <1>1 DEF TypeOK, store, local, Paying, Ended
<1>3. /\ pc'[r] = "get" /\ ~dirty'[r]
      /\ \A s \in Request \ {r} : pc'[s] = pc[s] /\ dirty'[s] = dirty[s]
  BY <1>1 DEF TypeOK
<1>4. QueuedInv'
  BY <1>1, <1>3 DEF QueuedInv, Standing, store, local
<1>5. RivalsInv'
  BY <1>1, <1>3 DEF RivalsInv, CauseInv, local
<1> QED BY <1>1, <1>2, <1>4, <1>5, StoreUnchanged

\* Without Redis a request ends before it has tried anything.
LEMMA UnreachableInv ==
    ASSUME IInv, NEW r \in Request, Unreachable(r)
    PROVE  IInv'
<1> USE DEF IInv
<1>1. /\ UNCHANGED <<store, kind, cost, seen, filed, tries, lost, unheard, dirty, rivals>>
      /\ pc' = [pc EXCEPT ![r] = "failed"] /\ faults' = faults + 1 /\ faults < MaxFaults
  BY DEF Unreachable, Fault, Goto
<1>2. TypeOK'
  BY <1>1, CreditsAssumption DEF TypeOK, store, Paying, Ended
<1>3. pc'[r] = "failed" /\ \A s \in Request \ {r} : pc'[s] = pc[s]
  BY <1>1 DEF TypeOK
<1>4. QueuedInv'
  BY <1>1, <1>3 DEF QueuedInv, Standing, store
<1>5. RivalsInv'
  BY <1>1, <1>3 DEF RivalsInv, CauseInv
<1> QED BY <1>1, <1>2, <1>4, <1>5, StoreUnchanged

\* A balance that was read stands until somebody writes it.
LEMMA GetInv ==
    ASSUME IInv, NEW r \in Request, Get(r)
    PROVE  IInv'
<1> USE DEF IInv
<1>1. CASE Goto(r, "refused") /\ UNCHANGED <<store, local, dirty, rivals>>
  <2>1. TypeOK'
    BY <1>1 DEF Goto, TypeOK, store, local, Paying, Ended
  <2>2. pc[r] = "get" /\ pc'[r] = "refused" /\ \A s \in Request \ {r} : pc'[s] = pc[s]
    BY <1>1 DEF Get, Goto, TypeOK
  <2>3. QueuedInv' /\ RivalsInv'
    BY <1>1, <2>2 DEF QueuedInv, RivalsInv, CauseInv, Standing, store, local
  <2> QED BY <1>1, <2>1, <2>3, StoreUnchanged
<1>2. CASE balance # Absent /\ (Amount >= cost[r] \/ OverdraftAllowed) /\ Queue(r)
  <2>1. /\ UNCHANGED <<store, kind, cost, tries, faults, lost, unheard, dirty, rivals>> /\ pc[r] = "get"
        /\ pc' = [pc EXCEPT ![r] = "exec"]
        /\ seen' = [seen EXCEPT ![r] = balance] /\ filed' = [filed EXCEPT ![r] = month]
    BY <1>2 DEF Get, Queue, Goto
  <2>2. TypeOK'
    BY <1>2, <2>1 DEF TypeOK, store, Paying, Ended
  <2>3. /\ pc'[r] = "exec" /\ seen'[r] = balance /\ filed'[r] = month
        /\ \A s \in Request \ {r} :
              pc'[s] = pc[s] /\ seen'[s] = seen[s] /\ filed'[s] = filed[s]
    BY <2>1 DEF TypeOK
  <2>4. RivalsInv'
    BY <2>1, <2>3 DEF RivalsInv, CauseInv
  <2>5. Standing(r)'
    BY <2>1, <2>3 DEF Standing, FutureIsEmpty, LedgerChain, store
  <2>6. month <= month
    BY CreditsAssumption DEF TypeOK, Months
  <2>7. OverdraftAllowed \/ balance >= cost[r]
    BY <1>2 DEF Amount
  <2>8. \A s \in Request \ {r} : Standing(s) => Standing(s)'
    BY <2>1, <2>3 DEF Standing, store
  <2>9. QueuedInv'
    <3> SUFFICES ASSUME NEW s \in Request, pc'[s] = "exec"
                 PROVE  /\ filed'[s] <= month'
                        /\ OverdraftAllowed \/ seen'[s] >= cost'[s]
                        /\ ~dirty'[s] => Standing(s)'
      BY DEF QueuedInv
    <3>1. CASE s = r
      BY <3>1, <2>1, <2>3, <2>5, <2>6, <2>7 DEF store
    <3>2. CASE s # r
      BY <3>2, <2>1, <2>3, <2>8 DEF QueuedInv, store
    <3> QED BY <3>1, <3>2
  <2> QED BY <2>1, <2>2, <2>4, <2>9, StoreUnchanged
<1> QED BY <1>1, <1>2 DEF Get

-----------------------------------------------------------------------------
\* Every way a bill gets into a list: the balance is written, a bill that tells
\* so is put in the current month's list, or in the one a standing request chose.
LEMMA PushInv ==
    ASSUME IInv, NEW by, NEW new \in Int, Write(by, new),
           NEW m \in Months, NEW b \in Bill, Push(m, b),
           b.after = new, b.before = Amount,
           m <= month, month' = month, receipts' = receipts,
           \A k \in Months : k > m => bills[k] = <<>>,
           bills[m] # <<>> => Head(bills[m]).after = balance
    PROVE  bills' \in [Months -> Seq(Bill)] /\ FutureIsEmpty' /\ LedgerChain'
<1> USE DEF IInv
<1>1. bills \in [Months -> Seq(Bill)] /\ bills[m] \in Seq(Bill)
  BY DEF TypeOK
<1>2. bills[m] # <<>> => Head(bills[m]).after = b.before
  <2>1. bills[m] # <<>> => Head(bills[m]) \in Bill
    BY <1>1
  <2>2. bills[m] # <<>> => Head(bills[m]).after \in Int
    BY <2>1 DEF Bill
  <2> QED BY <2>2, CreditsAssumption DEF Amount
<1>3. Chained(bills[m])
  BY DEF LedgerChain
<1>4. /\ <<b>> \o bills[m] \in Seq(Bill) /\ <<b>> \o bills[m] # <<>>
      /\ Head(<<b>> \o bills[m]) = b /\ Chained(<<b>> \o bills[m])
  BY <1>1, <1>2, <1>3, PushChain
<1>5. bills' = [bills EXCEPT ![m] = <<b>> \o bills[m]]
  BY DEF Push
<1>6. bills' \in [Months -> Seq(Bill)]
  BY <1>1, <1>4, <1>5
<1>7. bills'[m] = <<b>> \o bills[m] /\ \A k \in Months \ {m} : bills'[k] = bills[k]
  BY <1>1, <1>5
<1>8. FutureIsEmpty'
  BY <1>7, CreditsAssumption DEF FutureIsEmpty, TypeOK, Months
<1>9. \A k \in Months : Chained(bills'[k])
  BY <1>4, <1>7 DEF LedgerChain
<1>10. bills'[month] # <<>> => Head(bills'[month]).after = new
  <2>1. CASE month = m
    BY <2>1, <1>4, <1>7
  <2>2. CASE month # m
    <3>1. month \in Months /\ month > m
      BY <2>2, CreditsAssumption DEF TypeOK, Months
    <3> QED BY <3>1, <2>2, <1>7
  <2> QED BY <2>1, <2>2
<1>11. LedgerChain'
  <2>1. balance' = new
    BY DEF Write
  <2>2. \A k \in Months : Chained(bills[k])'
    BY <1>9 DEF Chained
  <2> QED BY <2>1, <2>2, <1>10 DEF LedgerChain
<1> QED BY <1>6, <1>8, <1>11

\* After a write no other request's WATCH stands.
LEMMA WriteDirties ==
    ASSUME IInv, NEW by, NEW new, Write(by, new),
           NEW s \in Request, s # by, pc[s] \in {"get", "exec"}
    PROVE  dirty'[s] /\ rivals'[s] = rivals[s] + 1
BY DEF Write, Paying

\* A write by another only adds to a request's rivals.
LEMMA WriteTypes ==
    ASSUME IInv, NEW by, NEW new \in Int, Write(by, new)
    PROVE  /\ balance' \in Int \cup {Absent}
           /\ dirty' \in [Request -> BOOLEAN] /\ rivals' \in [Request -> Nat]
           /\ \A s \in Request : rivals'[s] >= rivals[s]
<1>1. TypeOK
  BY DEF IInv
<1>2. \A s \in Request : dirty[s] \in BOOLEAN /\ rivals[s] \in Nat
  BY <1>1 DEF TypeOK
<1> QED BY <1>2 DEF Write

\* What a write means for the requests it is not by, when they do not move.
LEMMA WriteRivals ==
    ASSUME IInv, NEW by, NEW new \in Int, Write(by, new),
           NEW s \in Request, s # by,
           pc'[s] = pc[s], tries'[s] = tries[s], lost'[s] = lost[s]
    PROVE  CauseInv(s)' /\ (pc'[s] = "exec" => dirty'[s])
<1>1. /\ rivals[s] \in Nat /\ lost[s] \in Nat /\ tries[s] \in Nat /\ CauseInv(s)
      /\ rivals[s] + lost[s] >= tries[s]
  BY CreditsAssumption DEF IInv, TypeOK, RivalsInv, CauseInv
<1>2. rivals'[s] >= rivals[s] /\ rivals'[s] \in Nat
  BY WriteTypes DEF IInv, TypeOK
<1>3. CASE pc[s] \in {"get", "exec"}
  <2>1. dirty'[s] /\ rivals'[s] = rivals[s] + 1
    BY <1>3, WriteDirties
  <2> QED BY <2>1, <1>1 DEF CauseInv
<1>4. CASE pc[s] \notin {"get", "exec"}
  BY <1>4, <1>1, <1>2 DEF CauseInv
<1> QED BY <1>3, <1>4

-----------------------------------------------------------------------------
\* What a transaction does that Redis runs, whether or not the request hears of it.
LEMMA ChargeInv ==
    ASSUME IInv, NEW r \in Request, pc[r] = "exec", ~dirty[r], Charge(r)
    PROVE  /\ FutureIsEmpty' /\ LedgerChain' /\ NoOverdraft'
           /\ balance' \in Int \cup {Absent} /\ bills' \in [Months -> Seq(Bill)]
           /\ dirty' \in [Request -> BOOLEAN] /\ rivals' \in [Request -> Nat]
           /\ rivals'[r] >= rivals[r] /\ UNCHANGED <<receipts, month, ops>>
           /\ \E new \in Int : Write(r, new)
<1> DEFINE new == seen[r] - cost[r]
<1> USE DEF IInv
<1>1. /\ seen[r] \in Int /\ cost[r] \in Nat /\ filed[r] \in Months
      /\ filed[r] <= month /\ Standing(r)
      /\ OverdraftAllowed \/ seen[r] >= cost[r]
  BY CreditsAssumption DEF TypeOK, QueuedInv
<1>2. new \in Int /\ Write(r, new) /\ UNCHANGED <<receipts, month, ops>>
  BY <1>1 DEF Charge
<1>3. balance' = new /\ Amount = seen[r] /\ balance = seen[r]
  BY <1>1, <1>2, CreditsAssumption DEF Write, Standing, Amount
<1>4. bills' \in [Months -> Seq(Bill)] /\ FutureIsEmpty' /\ LedgerChain'
  <2>1. CASE cost[r] = 0
    <3>1. bills' = bills /\ balance' = balance /\ month' = month
      BY <2>1, <1>1, <1>2, <1>3 DEF Charge
    <3> QED BY <3>1 DEF TypeOK, FutureIsEmpty, LedgerChain, Chained
  <2>2. CASE cost[r] # 0
    <3>1. Push(filed[r], BillOf(r))
      BY <2>2 DEF Charge
    <3>2. BillOf(r) \in Bill /\ BillOf(r).after = new /\ BillOf(r).before = Amount
      BY <1>1, <1>2, <1>3 DEF BillOf, Bill
    <3>3. /\ \A k \in Months : k > filed[r] => bills[k] = <<>>
          /\ bills[filed[r]] # <<>> => Head(bills[filed[r]]).after = balance
      BY <1>1 DEF Standing
    <3> QED BY <3>1, <3>2, <3>3, <1>1, <1>2, PushInv
  <2> QED BY <2>1, <2>2
<1>5. NoOverdraft'
  BY <1>1, <1>3, CreditsAssumption DEF NoOverdraft, Amount
<1> QED BY <1>2, <1>4, <1>5, WriteTypes

\* What it means for the others, who do not move.
LEMMA ChargeOthers ==
    ASSUME IInv, NEW r \in Request, pc[r] = "exec", ~dirty[r], Charge(r),
           NEW to \in {"work", "done", "watch", "failed"}, pc' = [pc EXCEPT ![r] = to],
           UNCHANGED <<cost, seen, filed>>,
           \A s \in Request \ {r} : tries'[s] = tries[s] /\ lost'[s] = lost[s]
    PROVE  QueuedInv' /\ \A s \in Request \ {r} : CauseInv(s)'
<1>1. PICK new \in Int : Write(r, new)
  BY ChargeInv
<1>2. month' = month /\ pc'[r] = to /\ \A s \in Request \ {r} : pc'[s] = pc[s]
  BY DEF Charge, IInv, TypeOK
<1>3. \A s \in Request \ {r} : CauseInv(s)' /\ (pc'[s] = "exec" => dirty'[s])
  BY <1>1, <1>2, WriteRivals
<1>4. QueuedInv'
  <2> SUFFICES ASSUME NEW s \in Request, pc'[s] = "exec"
               PROVE  /\ filed'[s] <= month'
                      /\ OverdraftAllowed \/ seen'[s] >= cost'[s]
                      /\ dirty'[s]
    BY DEF QueuedInv
  <2>1. s # r /\ pc[s] = "exec"
    BY <1>2
  <2> QED BY <2>1, <1>2, <1>3 DEF QueuedInv, IInv
<1> QED BY <1>3, <1>4

\* The transaction of a payment: committed, or lost to a rival.
LEMMA CommitInv ==
    ASSUME IInv, NEW r \in Request, pc[r] = "exec", ~dirty[r], Commit(r)
    PROVE  IInv'
<1> USE DEF IInv
<1>1. Charge(r) /\ UNCHANGED local
  BY DEF Commit
<1>2. PICK to \in {"work", "done"} : pc' = [pc EXCEPT ![r] = to]
  BY DEF Commit, Goto
<1>3. /\ FutureIsEmpty' /\ LedgerChain' /\ NoOverdraft'
      /\ balance' \in Int \cup {Absent} /\ bills' \in [Months -> Seq(Bill)]
      /\ dirty' \in [Request -> BOOLEAN] /\ rivals' \in [Request -> Nat]
      /\ rivals'[r] >= rivals[r] /\ UNCHANGED <<receipts, month, ops>>
  BY <1>1, ChargeInv
<1>4. TypeOK'
  BY <1>1, <1>2, <1>3 DEF TypeOK, local, Paying, Ended
<1>5. QueuedInv' /\ \A s \in Request \ {r} : CauseInv(s)'
  BY <1>1, <1>2, ChargeOthers DEF local
<1>6. CauseInv(r)'
  <2>1. rivals[r] \in Nat /\ lost[r] \in Nat /\ tries[r] \in 0..RetryLimit /\ rivals'[r] \in Nat
    BY <1>3 DEF TypeOK
  <2>2. lost' = lost /\ tries' = tries
    BY <1>1 DEF local
  <2>3. pc'[r] = to
    BY <1>2 DEF TypeOK
  <2>4. CauseInv(r)
    BY DEF RivalsInv
  <2> QED BY <2>1, <2>2, <2>3, <2>4, <1>3, CreditsAssumption DEF CauseInv
<1> QED BY <1>3, <1>4, <1>5, <1>6 DEF RivalsInv

\* What Retry leaves of a request.
LEMMA RetryTypes ==
    ASSUME IInv, NEW r \in Request, pc[r] \in {"get", "exec"}, Retry(r)
    PROVE  /\ tries' \in [Request -> 0..RetryLimit] /\ tries'[r] = tries[r] + 1
           /\ \E to \in {"watch", "failed"} :
                 /\ pc' = [pc EXCEPT ![r] = to] /\ pc'[r] = to
                 /\ to # "failed" => tries'[r] < RetryLimit
           /\ \A s \in Request \ {r} : pc'[s] = pc[s] /\ tries'[s] = tries[s]
           /\ UNCHANGED <<kind, cost, seen, filed>>
<1>1. TypeOK /\ tries[r] < RetryLimit
  BY DEF IInv, RivalsInv, CauseInv
<1>2. /\ tries' = [tries EXCEPT ![r] = tries[r] + 1]
      /\ pc' = [pc EXCEPT ![r] = IF tries[r] + 1 < RetryLimit THEN "watch" ELSE "failed"]
      /\ UNCHANGED <<kind, cost, seen, filed>>
  BY DEF Retry, Goto
<1>3. tries'[r] = tries[r] + 1 /\ pc'[r] = IF tries[r] + 1 < RetryLimit THEN "watch" ELSE "failed"
  BY <1>1, <1>2 DEF TypeOK
<1>4. tries' \in [Request -> 0..RetryLimit]
  BY <1>1, <1>2, CreditsAssumption DEF TypeOK
<1>5. \A s \in Request \ {r} : pc'[s] = pc[s] /\ tries'[s] = tries[s]
  BY <1>1, <1>2 DEF TypeOK
<1> QED BY <1>2, <1>3, <1>4, <1>5

LEMMA ExecInv ==
    ASSUME IInv, NEW r \in Request, Exec(r)
    PROVE  IInv'
<1> USE DEF IInv
<1>1. CASE ~dirty[r] /\ Commit(r)
  BY <1>1, CommitInv DEF Exec
<1>2. CASE dirty[r] /\ Retry(r) /\ UNCHANGED <<store, faults, lost, unheard, dirty, rivals>>
  <2>0. pc[r] = "exec"
    BY DEF Exec
  <2>1. /\ tries' \in [Request -> 0..RetryLimit] /\ tries'[r] = tries[r] + 1
        /\ \A s \in Request \ {r} : pc'[s] = pc[s] /\ tries'[s] = tries[s]
        /\ UNCHANGED <<kind, cost, seen, filed>>
    BY <1>2, <2>0, RetryTypes
  <2>2. PICK to \in {"watch", "failed"} :
            /\ pc' = [pc EXCEPT ![r] = to] /\ pc'[r] = to
            /\ to # "failed" => tries'[r] < RetryLimit
    BY <1>2, <2>0, RetryTypes
  <2>3. TypeOK'
    BY <1>2, <2>1, <2>2 DEF TypeOK, store, Paying, Ended
  <2>4. RivalsInv'
    <3>1. CauseInv(r)'
      <4>1. tries[r] \in Nat /\ rivals[r] \in Nat /\ lost[r] \in Nat /\ rivals[r] + lost[r] > tries[r]
        BY <1>2, <2>0, CreditsAssumption DEF TypeOK, RivalsInv, CauseInv
      <4> QED BY <1>2, <2>1, <2>2, <4>1 DEF CauseInv
    <3>2. \A s \in Request \ {r} : CauseInv(s)'
      BY <1>2, <2>1 DEF RivalsInv, CauseInv
    <3> QED BY <3>1, <3>2 DEF RivalsInv
  <2>5. QueuedInv'
    <3>1. \A s \in Request : Standing(s) => Standing(s)'
      BY <1>2, <2>1 DEF Standing, store
    <3> QED BY <3>1, <1>2, <2>1, <2>2 DEF QueuedInv, store
  <2> QED BY <1>2, <2>3, <2>4, <2>5, StoreUnchanged
<1> QED BY <1>1, <1>2 DEF Exec

\* A try that ends with its connection has that for its cause, and the next one reads
\* the balance again, whether or not it was charged.
LEMMA DisconnectInv ==
    ASSUME IInv, NEW r \in Request, Disconnect(r)
    PROVE  IInv'
<1> USE DEF IInv
<1>1. /\ pc[r] \in {"get", "exec"} /\ faults' = faults + 1 /\ faults < MaxFaults /\ Retry(r)
      /\ lost' = [lost EXCEPT ![r] = lost[r] + 1]
  BY DEF Disconnect, Fault
<1>2. /\ tries' \in [Request -> 0..RetryLimit] /\ tries'[r] = tries[r] + 1
      /\ \A s \in Request \ {r} : pc'[s] = pc[s] /\ tries'[s] = tries[s]
      /\ UNCHANGED <<kind, cost, seen, filed>>
  BY <1>1, RetryTypes
<1>3. PICK to \in {"watch", "failed"} :
          /\ pc' = [pc EXCEPT ![r] = to] /\ pc'[r] = to
          /\ to # "failed" => tries'[r] < RetryLimit
  BY <1>1, RetryTypes
<1>4. /\ lost' \in [Request -> Nat] /\ lost'[r] = lost[r] + 1
      /\ \A s \in Request \ {r} : lost'[s] = lost[s]
  BY <1>1 DEF TypeOK
<1>5. /\ tries[r] \in Nat /\ rivals[r] \in Nat /\ lost[r] \in Nat /\ rivals[r] + lost[r] >= tries[r]
      /\ faults' \in 0..MaxFaults
  BY <1>1, CreditsAssumption DEF TypeOK, RivalsInv, CauseInv
<1>6. CASE UNCHANGED <<store, unheard, dirty, rivals>>
  <2>1. TypeOK'
    BY <1>2, <1>3, <1>4, <1>5, <1>6 DEF TypeOK, store, Paying, Ended
  <2>2. RivalsInv'
    <3>1. CauseInv(r)'
      BY <1>2, <1>3, <1>4, <1>5, <1>6 DEF CauseInv
    <3>2. \A s \in Request \ {r} : CauseInv(s)'
      BY <1>2, <1>4, <1>6 DEF RivalsInv, CauseInv
    <3> QED BY <3>1, <3>2 DEF RivalsInv
  <2>3. QueuedInv'
    <3>1. \A s \in Request : Standing(s) => Standing(s)'
      BY <1>2, <1>6 DEF Standing, store
    <3> QED BY <3>1, <1>2, <1>3, <1>6 DEF QueuedInv, store
  <2> QED BY <1>6, <2>1, <2>2, <2>3, StoreUnchanged
<1>7. CASE pc[r] = "exec" /\ ~dirty[r] /\ Charge(r) /\ unheard' = [unheard EXCEPT ![r] = @ + 1]
  <2>1. /\ FutureIsEmpty' /\ LedgerChain' /\ NoOverdraft'
        /\ balance' \in Int \cup {Absent} /\ bills' \in [Months -> Seq(Bill)]
        /\ dirty' \in [Request -> BOOLEAN] /\ rivals' \in [Request -> Nat]
        /\ rivals'[r] >= rivals[r] /\ UNCHANGED <<receipts, month, ops>>
    BY <1>7, ChargeInv
  <2>2. TypeOK'
    <3>1. unheard' \in [Request -> Nat]
      BY <1>7 DEF TypeOK
    <3>2. pc' \in [Request -> {"check", "work", "refund"} \cup Paying \cup Ended]
      BY <1>3 DEF TypeOK, Paying, Ended
    <3> QED BY <1>2, <1>4, <1>5, <2>1, <3>1, <3>2 DEF TypeOK
  <2>3. QueuedInv' /\ \A s \in Request \ {r} : CauseInv(s)'
    BY <1>2, <1>3, <1>4, <1>7, ChargeOthers
  <2>4. CauseInv(r)'
    <3>1. rivals'[r] \in Nat
      BY <2>1
    <3> QED BY <1>2, <1>3, <1>4, <1>5, <2>1, <3>1 DEF CauseInv
  <2> QED BY <2>1, <2>2, <2>3, <2>4 DEF RivalsInv
<1> QED BY <1>6, <1>7 DEF Disconnect

-----------------------------------------------------------------------------
\* The operator's steps and the calendar.
LEMMA TransactionInv ==
    ASSUME IInv, NEW v \in Nat, NEW new \in Int, Transaction(v, new),
           OverdraftAllowed \/ new >= 0
    PROVE  IInv'
<1> DEFINE b == [req |-> "operator", total |-> 0 - v, before |-> Amount, after |-> new]
<1> USE DEF IInv
<1>1. /\ Write("operator", new) /\ Push(month, b)
      /\ UNCHANGED <<receipts, month, pc, local>> /\ ops' = ops + 1 /\ ops < MaxOps
  BY DEF Transaction, Operate
<1>2. b \in Bill /\ b.after = new /\ b.before = Amount
  BY CreditsAssumption DEF Bill, TypeOK, Amount
<1>3. month \in Months /\ month \in Nat
  BY DEF TypeOK, Months
<1>4. bills' \in [Months -> Seq(Bill)] /\ FutureIsEmpty' /\ LedgerChain'
  <2>1. /\ month <= month /\ month' = month /\ receipts' = receipts
        /\ \A k \in Months : k > month => bills[k] = <<>>
        /\ bills[month] # <<>> => Head(bills[month]).after = balance
    BY <1>1, <1>3 DEF FutureIsEmpty, LedgerChain
  <2> HIDE DEF b
  <2> QED BY <1>1, <1>2, <1>3, <2>1, PushInv
<1>5. TypeOK'
  BY <1>1, <1>4, WriteTypes, CreditsAssumption DEF TypeOK, local
<1>6. NoOverdraft'
  BY <1>1, CreditsAssumption DEF NoOverdraft, Amount, Write
<1>7. RivalsInv'
  BY <1>1, WriteRivals, CreditsAssumption DEF RivalsInv, local
<1>8. QueuedInv'
  BY <1>1, WriteRivals, CreditsAssumption DEF QueuedInv, local
<1> QED BY <1>4, <1>5, <1>6, <1>7, <1>8

LEMMA SquashInv ==
    ASSUME IInv, NEW m \in Months, Squash(m)
    PROVE  IInv'
<1> USE DEF IInv
<1>1. /\ bills' = [bills EXCEPT ![m] = <<>>] /\ ops' = ops + 1 /\ ops < MaxOps
      /\ UNCHANGED <<balance, month, pc, local, dirty, rivals>>
  BY DEF Squash, Operate
<1>2. \A k \in Months : bills'[k] = bills[k] \/ bills'[k] = <<>>
  BY <1>1 DEF TypeOK
<1>3. TypeOK'
  <2>1. receipts' = <<Squashed(m)>> \o receipts /\ Squashed(m) \in Receipt
    BY SquashedTotal DEF Squash
  <2>2. receipts' \in Seq(Receipt)
    BY <2>1 DEF TypeOK
  <2> QED BY <1>1, <2>2, CreditsAssumption DEF TypeOK, local
<1>4. Chained(<<>>)
  BY DEF Chained
<1>5. FutureIsEmpty' /\ LedgerChain' /\ NoOverdraft'
  <2>1. \A k \in Months : Chained(bills[k])'
    BY <1>2, <1>4 DEF LedgerChain, Chained
  <2>2. month \in Months
    BY DEF TypeOK
  <2> QED BY <1>1, <1>2, <2>1, <2>2 DEF FutureIsEmpty, LedgerChain, NoOverdraft, Amount
<1>6. \A s \in Request : Standing(s) => Standing(s)'
  BY <1>1, <1>2 DEF Standing, local, TypeOK
<1>7. QueuedInv' /\ RivalsInv'
  BY <1>1, <1>6 DEF QueuedInv, RivalsInv, CauseInv, local
<1> QED BY <1>3, <1>5, <1>7

LEMMA NextMonthInv == ASSUME IInv, NextMonth PROVE IInv'
<1> USE DEF IInv
<1>1. /\ month' = month + 1 /\ month < MaxMonth
      /\ UNCHANGED <<balance, bills, receipts, ops, pc, local, dirty, rivals>>
  BY DEF NextMonth
<1>2. month \in Nat /\ month + 1 \in Months /\ Months \subseteq Nat
  BY <1>1, CreditsAssumption DEF TypeOK, Months
<1>3. TypeOK'
  BY <1>1, <1>2 DEF TypeOK, local
<1>4. FutureIsEmpty'
  BY <1>1, <1>2 DEF FutureIsEmpty
<1>5. LedgerChain' /\ NoOverdraft'
  <2>1. bills[month + 1] = <<>>
    BY <1>2 DEF FutureIsEmpty
  <2>2. \A k \in Months : Chained(bills[k])'
    BY <1>1 DEF LedgerChain, Chained
  <2>3. NoOverdraft'
    BY <1>1 DEF NoOverdraft, Amount
  <2> QED BY <1>1, <2>1, <2>2, <2>3 DEF LedgerChain
<1>6. \A s \in Request : filed[s] \in Nat /\ (Standing(s) => Standing(s)')
  BY <1>1, <1>2 DEF Standing, local, TypeOK
<1>7. QueuedInv' /\ RivalsInv'
  BY <1>1, <1>2, <1>6 DEF QueuedInv, RivalsInv, CauseInv, local
<1> QED BY <1>3, <1>4, <1>5, <1>7

LEMMA StutterInv == ASSUME IInv, UNCHANGED vars PROVE IInv'
BY DEF IInv, vars, TypeOK, FutureIsEmpty, LedgerChain, NoOverdraft, Amount, Chained,
       QueuedInv, Standing, RivalsInv, CauseInv

\* Every step keeps the invariant.
LEMMA NextIInv == IInv /\ [Next]_vars => IInv'
<1> SUFFICES ASSUME IInv, [Next]_vars PROVE IInv'
  OBVIOUS
<1>1. CASE \E r \in Request : RequestStep(r)
  BY <1>1, AsideInv, WatchInv, GetInv, ExecInv, DisconnectInv, UnreachableInv DEF RequestStep
<1>2. ASSUME NEW v \in Topups, Topup(v) PROVE IInv'
  <2>1. Amount \in Int /\ (OverdraftAllowed \/ Amount >= 0)
    BY CreditsAssumption DEF IInv, TypeOK, NoOverdraft, Amount
  <2>2. v \in Nat
    BY CreditsAssumption
  <2>3. Amount + v \in Int /\ (OverdraftAllowed \/ Amount + v >= 0)
    BY <2>1, <2>2
  <2> QED BY <1>2, <2>2, <2>3, TransactionInv DEF Topup
<1>3. ASSUME NEW v \in Sets, SetBalance(v) PROVE IInv'
  BY <1>3, TransactionInv, CreditsAssumption DEF SetBalance
<1>4. CASE \E m \in Months : Squash(m)
  BY <1>4, SquashInv
<1>5. CASE NextMonth
  BY <1>5, NextMonthInv
<1>6. CASE UNCHANGED vars
  BY <1>6, StutterInv
<1> QED BY <1>1, <1>2, <1>3, <1>4, <1>5, <1>6 DEF Next

LEMMA Invariance == Spec => []IInv
BY InitIInv, NextIInv, PTL DEF Spec

-----------------------------------------------------------------------------
\* What is billed is a number.
LEMMA BilledType ==
    ASSUME TypeOK
    PROVE  /\ Billed \in Int /\ TotalOf(receipts) \in Int
           /\ [k \in Months |-> TotalOf(bills[k])] \in [1..MaxMonth -> Int]
           /\ SumTo([k \in Months |-> TotalOf(bills[k])], MaxMonth) \in Int
<1>1. \A k \in Months : TotalOf(bills[k]) \in Int
  <2>1. \A k \in Months : bills[k] \in Seq(Bill)
    BY DEF TypeOK
  <2> QED BY <2>1, HaveTotals, TotalType
<1>2. TotalOf(receipts) \in Int
  BY HaveTotals, TotalType DEF TypeOK
<1>3. [k \in Months |-> TotalOf(bills[k])] \in [1..MaxMonth -> Int]
  BY <1>1 DEF Months
<1>4. SumTo([k \in Months |-> TotalOf(bills[k])], MaxMonth) \in Int
  BY <1>3, CreditsAssumption, SumType
<1> QED BY <1>2, <1>3, <1>4 DEF Billed

\* One list changes: the months together change by as much.
LEMMA MonthChanges ==
    ASSUME TypeOK, NEW m \in Months, NEW new \in Seq(Bill),
           bills' = [bills EXCEPT ![m] = new]
    PROVE  SumTo([k \in Months |-> TotalOf(bills'[k])], MaxMonth)
               = SumTo([k \in Months |-> TotalOf(bills[k])], MaxMonth)
                   + (TotalOf(new) - TotalOf(bills[m]))
<1> DEFINE F == [k \in Months |-> TotalOf(bills[k])]
           G == [k \in Months |-> TotalOf(bills'[k])]
<1>1. F \in [1..MaxMonth -> Int]
  BY BilledType
<1>2. bills' \in [Months -> Seq(Bill)]
  BY DEF TypeOK
<1>3. G \in [1..MaxMonth -> Int]
  <2>1. \A k \in Months : bills'[k] \in Seq(Bill)
    BY <1>2
  <2>2. \A k \in Months : TotalOf(bills'[k]) \in Int
    BY <2>1, HaveTotals, TotalType
  <2> QED BY <2>2 DEF Months
<1>4. m \in 1..MaxMonth /\ MaxMonth \in Nat
  BY CreditsAssumption DEF Months
<1>5. G[m] = TotalOf(new) /\ F[m] = TotalOf(bills[m])
  BY DEF TypeOK
<1>6. \A k \in (1..MaxMonth) \ {m} : G[k] = F[k]
  <2>1. \A k \in Months \ {m} : bills'[k] = bills[k]
    BY DEF TypeOK
  <2> QED BY <2>1 DEF Months
<1> HIDE DEF F, G
<1>7. SumTo(G, MaxMonth) = SumTo(F, MaxMonth) + (G[m] - F[m])
  BY <1>1, <1>3, <1>4, <1>6, SumChange
<1> QED BY <1>5, <1>7 DEF F, G

\* A bill that is pushed is billed, once.
LEMMA BilledPush ==
    ASSUME TypeOK, NEW m \in Months, NEW b \in Bill, Push(m, b), receipts' = receipts
    PROVE  Billed' = Billed + b.total
<1> DEFINE old == SumTo([k \in Months |-> TotalOf(bills[k])], MaxMonth)
           new == SumTo([k \in Months |-> TotalOf(bills'[k])], MaxMonth)
<1>1. bills[m] \in Seq(Bill) /\ <<b>> \o bills[m] \in Seq(Bill)
  BY DEF TypeOK
<1>2. bills' = [bills EXCEPT ![m] = <<b>> \o bills[m]]
  BY DEF Push
<1>3. new = old + (TotalOf(<<b>> \o bills[m]) - TotalOf(bills[m]))
  BY <1>1, <1>2, MonthChanges
<1>4. TotalOf(<<b>> \o bills[m]) = b.total + TotalOf(bills[m])
  BY <1>1, HaveTotals, TotalPush
<1>5. TotalOf(bills[m]) \in Int /\ b.total \in Int
  BY <1>1, HaveTotals, TotalType
<1>6. old \in Int /\ TotalOf(receipts) \in Int
  BY BilledType
<1>7. Billed = TotalOf(receipts) + old /\ Billed' = TotalOf(receipts) + new
  BY DEF Billed
<1> HIDE DEF old, new
<1> QED BY <1>3, <1>4, <1>5, <1>6, <1>7

\* bill_squash moves what it trims to the receipt.
LEMMA BilledSquash ==
    ASSUME TypeOK, NEW m \in Months, Squash(m)
    PROVE  Billed' = Billed
<1> DEFINE old == SumTo([k \in Months |-> TotalOf(bills[k])], MaxMonth)
           new == SumTo([k \in Months |-> TotalOf(bills'[k])], MaxMonth)
<1>1. /\ bills' = [bills EXCEPT ![m] = <<>>]
      /\ receipts' = <<Squashed(m)>> \o receipts
  BY DEF Squash
<1>2. <<>> \in Seq(Bill) /\ bills[m] \in Seq(Bill) /\ receipts \in Seq(Receipt)
  BY DEF TypeOK
<1>3. new = old + (TotalOf(<<>>) - TotalOf(bills[m]))
  BY <1>1, <1>2, MonthChanges
<1>4. TotalOf(<<>>) = 0 /\ TotalOf(bills[m]) \in Int
  BY <1>2, HaveTotals, TotalType
<1>5. TotalOf(receipts') = TotalOf(bills[m]) + TotalOf(receipts)
  <2>1. Squashed(m) \in Receipt /\ Squashed(m).total = TotalOf(bills[m])
    BY SquashedTotal
  <2>2. TotalOf(<<Squashed(m)>> \o receipts) = Squashed(m).total + TotalOf(receipts)
    BY <1>2, <2>1, HaveTotals, TotalPush
  <2> QED BY <1>1, <2>1, <2>2
<1>6. old \in Int /\ TotalOf(receipts) \in Int
  BY BilledType
<1>7. Billed = TotalOf(receipts) + old /\ Billed' = TotalOf(receipts') + new
  BY DEF Billed
<1> HIDE DEF old, new
<1> QED BY <1>3, <1>4, <1>5, <1>6, <1>7

\* A transaction that Redis runs takes from the balance what it bills.
LEMMA ChargeAddsUp ==
    ASSUME IInv, NEW r \in Request, pc[r] = "exec", ~dirty[r], Charge(r)
    PROVE  (Amount + Billed)' = Amount + Billed
<1>0. TypeOK
  BY DEF IInv
<1>a. Billed \in Int
  BY <1>0, BilledType
<1>1. TypeOK /\ Billed \in Int /\ Amount \in Int
  BY <1>0, <1>a DEF TypeOK, Amount
<1>2. Standing(r) /\ filed[r] \in Months
  BY <1>1 DEF IInv, QueuedInv, TypeOK
<1>3. seen[r] \in Int /\ cost[r] \in Int /\ seen[r] = balance
  <2>1. seen[r] = balance
    BY <1>2 DEF Standing
  <2>2. seen[r] \in Int /\ cost[r] \in Costs
    BY <1>1 DEF TypeOK
  <2>3. cost[r] \in Nat
    BY <2>2, CreditsAssumption
  <2>4. cost[r] \in Int
    BY <2>3
  <2> QED BY <2>1, <2>2, <2>4, Zenon
<1>4. balance' = seen[r] - cost[r] /\ receipts' = receipts
  BY DEF Charge, Write
<1>5. Amount = seen[r] /\ Amount' = seen[r] - cost[r]
  BY <1>3, <1>4, CreditsAssumption DEF Amount
<1>6. Billed' = Billed + cost[r]
  <2>1. CASE cost[r] = 0
    <3>1. bills' = bills
      BY <2>1 DEF Charge
    <3>2. Billed' = Billed
      BY <1>4, <3>1 DEF Billed
    <3> QED BY <1>1, <2>1, <3>2
  <2>2. CASE cost[r] # 0
    <3>1. Push(filed[r], BillOf(r))
      BY <2>2 DEF Charge
    <3>2. BillOf(r) \in Bill /\ BillOf(r).total = cost[r]
      BY <1>3 DEF BillOf, Bill
    <3>3. Billed' = Billed + BillOf(r).total
      BY <1>1, <1>2, <1>4, <3>1, <3>2, BilledPush
    <3> QED BY <3>2, <3>3
  <2> QED BY <2>1, <2>2
<1> QED BY <1>1, <1>3, <1>5, <1>6

\* Each step but "set" changes the balance by what it bills.
LEMMA StepAddsUp ==
    ASSUME IInv, [Next]_vars, \A v \in Sets : ~SetBalance(v)
    PROVE  (Amount + Billed)' = Amount + Billed
<1>1. TypeOK /\ Billed \in Int /\ Amount \in Int
  BY BilledType DEF IInv, TypeOK, Amount
<1>2. CASE balance' = balance /\ bills' = bills /\ receipts' = receipts
  BY <1>2 DEF Amount, Billed
<1>3. ASSUME NEW r \in Request, Exec(r) \/ Disconnect(r) PROVE (Amount + Billed)' = Amount + Billed
  <2>1. (pc[r] = "exec" /\ ~dirty[r] /\ Charge(r)) \/ UNCHANGED store
    BY <1>3 DEF Exec, Disconnect, Commit, store
  <2>2. CASE UNCHANGED store
    BY <2>2, <1>2 DEF store
  <2> QED BY <2>1, <2>2, ChargeAddsUp
<1>4. ASSUME NEW v \in Topups, Topup(v) PROVE (Amount + Billed)' = Amount + Billed
  <2> DEFINE b == [req |-> "operator", total |-> 0 - v, before |-> Amount,
                   after |-> Amount + v]
  <2>1. v \in Int
    BY CreditsAssumption
  <2>2. /\ balance' = Amount + v /\ receipts' = receipts /\ Push(month, b)
        /\ month \in Months
    BY <1>1, <1>4 DEF Topup, Transaction, Write, TypeOK
  <2>3. b \in Bill /\ b.total = 0 - v
    BY <1>1, <2>1 DEF Bill
  <2>4. Amount' = Amount + v
    BY <1>1, <2>1, <2>2, CreditsAssumption DEF Amount
  <2> HIDE DEF b
  <2>5. Billed' = Billed + (0 - v)
    BY <1>1, <2>2, <2>3, BilledPush
  <2> QED BY <1>1, <2>1, <2>4, <2>5
<1>5. ASSUME NEW m \in Months, Squash(m) PROVE (Amount + Billed)' = Amount + Billed
  <2>1. Amount' = Amount
    BY <1>5 DEF Squash, Amount
  <2> QED BY <1>1, <1>5, <2>1, BilledSquash
<1>6. CASE NextMonth
  BY <1>6, <1>2 DEF NextMonth
<1>7. CASE UNCHANGED vars
  BY <1>7, <1>2 DEF vars
<1>8. ASSUME NEW r \in Request,
             \/ CheckEnoughCredits(r) \/ Work(r) \/ RefundCredits(r) \/ Watch(r) \/ Get(r)
             \/ Unreachable(r)
      PROVE  (Amount + Billed)' = Amount + Billed
  <2>1. UNCHANGED store
    BY <1>8 DEF CheckEnoughCredits, Work, RefundCredits, Watch, Get, Queue, Unreachable
  <2> QED BY <2>1, <1>2 DEF store
<1> QED BY <1>3, <1>4, <1>5, <1>6, <1>7, <1>8 DEF Next, RequestStep

-----------------------------------------------------------------------------
\* What a request is at says what kind it is: only a purchase is checked first, and
\* a refund never pays.
KindInv ==
    \A r \in Request :
        /\ pc[r] = "check" => kind[r] = "data"
        /\ pc[r] = "refund" => kind[r] = "refund"
        /\ pc[r] \in Paying => kind[r] # "refund"

BInv == IInv /\ KindInv /\ BilledAsCharged

-----------------------------------------------------------------------------
\* How many bills of a list are a request's is a number; a bill put first adds one
\* for whom it is.
LEMMA CountType ==
    ASSUME NEW bs \in Seq(Bill), NEW q
    PROVE  CountOf(bs, q) \in Int /\ (bs = <<>> => CountOf(bs, q) = 0)
<1> DEFINE f == [i \in 1..Len(bs) |-> IF bs[i].req = q THEN 1 ELSE 0]
<1>1. Len(bs) \in Nat /\ (bs = <<>> => Len(bs) = 0)
  OBVIOUS
<1>2. f \in [1..Len(bs) -> Int]
  OBVIOUS
<1> HIDE DEF f
<1>3. SumTo(f, Len(bs)) \in Int /\ (Len(bs) = 0 => SumTo(f, Len(bs)) = 0)
  BY <1>1, <1>2, SumType
<1> QED BY <1>1, <1>3 DEF CountOf, f

LEMMA CountPush ==
    ASSUME NEW bs \in Seq(Bill), NEW b \in Bill, NEW q
    PROVE  CountOf(<<b>> \o bs, q) = CountOf(bs, q) + (IF b.req = q THEN 1 ELSE 0)
<1> DEFINE new == <<b>> \o bs
           n == Len(bs)
           f == [i \in 1..n |-> IF bs[i].req = q THEN 1 ELSE 0]
           g == [i \in 1..(n + 1) |-> IF new[i].req = q THEN 1 ELSE 0]
<1>1. n \in Nat /\ Len(new) = n + 1
  OBVIOUS
<1>2. new[1] = b /\ \A i \in 1..n : new[i + 1] = bs[i]
  OBVIOUS
<1>4. f \in [1..n -> Int] /\ g \in [1..(n + 1) -> Int]
  OBVIOUS
<1>6. g[1] = (IF b.req = q THEN 1 ELSE 0) /\ \A i \in 1..n : g[i + 1] = f[i]
  <2> HIDE DEF new, n
  <2>1. \A i \in 1..n : i + 1 \in 1..(n + 1)
    BY <1>1
  <2>2. 1 \in 1..(n + 1)
    BY <1>1
  <2> QED BY <1>2, <2>1, <2>2
<1>7. CountOf(bs, q) = SumTo(f, n) /\ CountOf(new, q) = SumTo(g, n + 1)
  BY <1>1 DEF CountOf
<1>8. SumTo(f, n) \in Int
  <2> HIDE DEF f
  <2> QED BY <1>1, <1>4, SumType
<1> HIDE DEF f, g, n, new
<1>9. SumTo(g, n + 1) = g[1] + SumTo(f, n)
  BY <1>1, <1>4, <1>6, SumFirst
<1>10. CountOf(new, q) = CountOf(bs, q) + (IF b.req = q THEN 1 ELSE 0)
  BY <1>6, <1>7, <1>8, <1>9
<1> QED BY <1>10 DEF new

\* The months' counts of a request, and what a change of one list makes of their sum.
LEMMA BillsType ==
    ASSUME TypeOK, NEW q \in Request
    PROVE  /\ [k \in Months |-> CountOf(bills[k], q)] \in [1..MaxMonth -> Int]
           /\ BillsOf(q) \in Int
<1>1. \A k \in Months : CountOf(bills[k], q) \in Int
  <2>1. \A k \in Months : bills[k] \in Seq(Bill)
    BY DEF TypeOK
  <2> QED BY <2>1, CountType
<1>2. [k \in Months |-> CountOf(bills[k], q)] \in [1..MaxMonth -> Int]
  BY <1>1 DEF Months
<1> QED BY <1>2, CreditsAssumption, SumType DEF BillsOf

LEMMA BillsChange ==
    ASSUME TypeOK, NEW q \in Request, NEW m \in Months, NEW new \in Seq(Bill),
           bills' = [bills EXCEPT ![m] = new]
    PROVE  BillsOf(q)' = BillsOf(q) + (CountOf(new, q) - CountOf(bills[m], q))
<1> DEFINE F == [k \in Months |-> CountOf(bills[k], q)]
           G == [k \in Months |-> CountOf(bills'[k], q)]
<1>1. F \in [1..MaxMonth -> Int]
  BY BillsType
<1>2. bills' \in [Months -> Seq(Bill)]
  BY DEF TypeOK
<1>3. G \in [1..MaxMonth -> Int]
  <2>1. \A k \in Months : bills'[k] \in Seq(Bill)
    BY <1>2
  <2>2. \A k \in Months : CountOf(bills'[k], q) \in Int
    BY <2>1, CountType
  <2> QED BY <2>2 DEF Months
<1>4. m \in 1..MaxMonth /\ MaxMonth \in Nat
  BY CreditsAssumption DEF Months
<1>5. G[m] = CountOf(new, q) /\ F[m] = CountOf(bills[m], q)
  BY DEF TypeOK
<1>6. \A k \in (1..MaxMonth) \ {m} : G[k] = F[k]
  <2>1. \A k \in Months \ {m} : bills'[k] = bills[k]
    BY DEF TypeOK
  <2> QED BY <2>1 DEF Months
<1>7. BillsOf(q) = SumTo(F, MaxMonth) /\ BillsOf(q)' = SumTo(G, MaxMonth)
  BY DEF BillsOf
<1> HIDE DEF F, G
<1>8. SumTo(G, MaxMonth) = SumTo(F, MaxMonth) + (G[m] - F[m])
  BY <1>1, <1>3, <1>4, <1>6, SumChange
<1> QED BY <1>5, <1>7, <1>8

\* A pushed bill is one more for its request, and none for the others.
LEMMA PushBills ==
    ASSUME TypeOK, NEW m \in Months, NEW b \in Bill, Push(m, b)
    PROVE  \A q \in Request : BillsOf(q)' = BillsOf(q) + (IF b.req = q THEN 1 ELSE 0)
<1> SUFFICES ASSUME NEW q \in Request
             PROVE  BillsOf(q)' = BillsOf(q) + (IF b.req = q THEN 1 ELSE 0)
  OBVIOUS
<1>1. bills[m] \in Seq(Bill) /\ <<b>> \o bills[m] \in Seq(Bill)
  BY DEF TypeOK
<1>2. bills' = [bills EXCEPT ![m] = <<b>> \o bills[m]]
  BY DEF Push
<1>3. BillsOf(q)' = BillsOf(q) + (CountOf(<<b>> \o bills[m], q) - CountOf(bills[m], q))
  BY <1>1, <1>2, BillsChange
<1>4. CountOf(<<b>> \o bills[m], q) = CountOf(bills[m], q) + (IF b.req = q THEN 1 ELSE 0)
  BY <1>1, CountPush
<1>5. CountOf(bills[m], q) \in Int /\ BillsOf(q) \in Int
  BY <1>1, CountType, BillsType
<1> QED BY <1>3, <1>4, <1>5

\* A list holds no fewer than no bills of a request: that is what squashing takes away.
LEMMA CountNatural == ASSUME NEW bs \in Seq(Bill), NEW q PROVE CountOf(bs, q) >= 0
<1> DEFINE n == Len(bs)
           f == [i \in 1..n |-> IF bs[i].req = q THEN 1 ELSE 0]
<1>1. n \in Nat /\ f \in [1..n -> Int] /\ \A i \in 1..n : f[i] >= 0
  OBVIOUS
<1> HIDE DEF f, n
<1>2. PICK s \in [0..n -> Int] : IsSum(f, n, s) /\ SumTo(f, n) = s[n]
  BY <1>1, SumDef
<1>3. \A k \in 0..n : s[k] = IF k = 0 THEN 0 ELSE s[k - 1] + f[k]
  BY <1>2 DEF IsSum
<1> DEFINE S == {k \in 0..n : s[k] >= 0}
<1>4. 0 \in S
  BY <1>1, <1>3
<1>5. ASSUME NEW k \in 0..(n - 1), k \in S PROVE k + 1 \in S
  <2>1. k + 1 \in 1..n /\ k + 1 \in 0..n /\ k + 1 # 0 /\ (k + 1) - 1 = k /\ k \in 0..n
    BY <1>1
  <2>2. s[k + 1] = s[k] + f[k + 1]
    BY <2>1, <1>3
  <2>3. s[k] \in Int /\ f[k + 1] \in Int /\ f[k + 1] >= 0 /\ s[k] >= 0
    BY <2>1, <1>1, <1>2, <1>5
  <2> QED BY <2>1, <2>2, <2>3
<1> HIDE DEF S
<1>6. 0..n \subseteq S
  BY <1>1, <1>4, <1>5, Induct
<1>7. n \in 0..n
  BY <1>1
<1>8. SumTo(f, n) >= 0
  BY <1>2, <1>6, <1>7 DEF S
<1> QED BY <1>8 DEF CountOf, f, n

\* Everybody else was charged what they were, when one request moves.
LEMMA OthersCharged ==
    ASSUME TypeOK, NEW r \in Request, NEW to, pc' = [pc EXCEPT ![r] = to], kind' = kind,
           \A s \in Request \ {r} : unheard'[s] = unheard[s]
    PROVE  /\ pc'[r] = to
           /\ \A s \in Request \ {r} : pc'[s] = pc[s] /\ Charges(s)' = Charges(s)
BY DEF TypeOK, Paid, Charges

\* The steps that take a request on without paying.
LEMMA AsideCharges ==
    ASSUME BInv, NEW r \in Request,
           CheckEnoughCredits(r) \/ Work(r) \/ RefundCredits(r) \/ Watch(r) \/ Get(r)
           \/ Unreachable(r)
    PROVE  /\ KindInv' /\ UNCHANGED <<balance, bills, receipts, cost, unheard>>
           /\ \A s \in Request : Charges(s)' = Charges(s)
<1>1. TypeOK /\ KindInv
  BY DEF BInv, IInv
<1>2. UNCHANGED <<balance, bills, receipts, kind, cost, unheard>>
  BY DEF CheckEnoughCredits, Work, RefundCredits, Watch, Get, Queue, Unreachable, store, local
<1>3. PICK to \in {"work", "refused", "broke", "done", "refund", "watch", "get", "exec", "failed"} :
          /\ pc' = [pc EXCEPT ![r] = to]
          /\ \/ pc[r] = "check" /\ to \in {"work", "refused", "failed"}
             \/ pc[r] = "work" /\ to = "broke"
             \/ pc[r] = "work" /\ kind[r] = "task" /\ to = "done"
             \/ pc[r] = "work" /\ kind[r] = "refund" /\ to = "refund"
             \/ pc[r] = "work" /\ kind[r] \in {"data", "token"} /\ to = "watch"
             \/ pc[r] = "refund" /\ to = "broke"
             \/ pc[r] = "watch" /\ to \in {"get", "failed"}
             \/ pc[r] = "get" /\ to \in {"exec", "refused"}
  <2>1. CASE Work(r)
    <3>1. kind[r] \in Kinds
      BY <1>1 DEF TypeOK
    <3>2. \/ kind[r] = "task" \/ kind[r] = "refund" \/ kind[r] \in {"data", "token"}
      BY <3>1 DEF Kinds
    <3> QED BY <2>1, <3>2 DEF Work, Goto
  <2>2. CASE ~Work(r)
    BY <2>2 DEF CheckEnoughCredits, RefundCredits, Watch, Get, Queue, Unreachable, Goto
  <2> QED BY <2>1, <2>2
<1>4. pc'[r] = to /\ \A s \in Request \ {r} : pc'[s] = pc[s] /\ Charges(s)' = Charges(s)
  BY <1>1, <1>2, <1>3, OthersCharged
<1>5. KindInv'
  BY <1>1, <1>2, <1>3, <1>4 DEF KindInv, Paying
<1>6. Paid(r)' <=> Paid(r)
  BY <1>1, <1>2, <1>3, <1>4 DEF Paid, KindInv, Paying
<1>7. Charges(r)' = Charges(r)
  BY <1>2, <1>6 DEF Charges
<1> QED BY <1>2, <1>4, <1>5, <1>7

\* A try of a payment: charged, heard of or not, or lost and without effect.
LEMMA TryCharges ==
    ASSUME BInv, NEW r \in Request, Exec(r) \/ Disconnect(r)
    PROVE  /\ KindInv' /\ UNCHANGED <<receipts, cost>> /\ ~Paid(r)
           /\ \A s \in Request \ {r} : Charges(s)' = Charges(s)
           /\ \/ /\ UNCHANGED <<balance, bills, unheard>> /\ Charges(r)' = Charges(r)
              \/ /\ pc[r] = "exec" /\ ~dirty[r] /\ Charge(r)
                 /\ Charges(r)' = Charges(r) + 1
                 /\ unheard' \in {unheard, [unheard EXCEPT ![r] = @ + 1]}
<1>1. TypeOK /\ KindInv
  BY DEF BInv, IInv
<1>2. pc[r] \in {"get", "exec"} /\ kind[r] \in {"task", "data", "token"} /\ ~Paid(r)
  <2>1. pc[r] \in {"get", "exec"} /\ kind[r] \in Kinds /\ kind[r] # "refund"
    BY <1>1 DEF Exec, Disconnect, TypeOK, KindInv, Paying
  <2> QED BY <2>1 DEF Kinds, Paid
<1>3. unheard[r] \in Nat /\ Charges(r) = unheard[r]
  BY <1>1, <1>2 DEF TypeOK, Charges
<1>4. CASE Retry(r)
  <2>1. PICK to \in {"watch", "failed"} : pc' = [pc EXCEPT ![r] = to]
    BY <1>4 DEF Retry, Goto
  <2>2. kind' = kind /\ cost' = cost
    BY <1>4 DEF Retry
  <2>3. \/ UNCHANGED <<store, unheard>>
        \/ /\ pc[r] = "exec" /\ ~dirty[r] /\ Charge(r)
           /\ unheard' = [unheard EXCEPT ![r] = @ + 1]
        \/ ~dirty[r] /\ Commit(r)
    BY DEF Exec, Disconnect
  <2>4. ~(~dirty[r] /\ Commit(r))
    <3>1. Commit(r) => pc'[r] \in {"work", "done"}
      BY <1>1 DEF Commit, Goto, TypeOK
    <3>2. pc'[r] = to
      BY <1>1, <2>1 DEF TypeOK
    <3> QED BY <3>1, <3>2
  <2>5. \A s \in Request \ {r} : unheard'[s] = unheard[s]
    BY <1>1, <2>3, <2>4 DEF TypeOK
  <2>6. pc'[r] = to /\ \A s \in Request \ {r} : pc'[s] = pc[s] /\ Charges(s)' = Charges(s)
    BY <1>1, <2>1, <2>2, <2>5, OthersCharged
  <2>7. KindInv'
    BY <1>1, <1>2, <2>2, <2>6 DEF KindInv, Paying
  <2>8. Charges(r)' = unheard'[r]
    <3>1. ~Paid(r)'
      BY <2>6 DEF Paid
    <3>2. unheard'[r] \in Nat
      BY <1>1, <1>3, <2>3, <2>4 DEF TypeOK
    <3> QED BY <3>1, <3>2 DEF Charges
  <2>9. CASE UNCHANGED <<store, unheard>>
    BY <1>2, <1>3, <2>2, <2>6, <2>7, <2>8, <2>9 DEF store
  <2>10. CASE pc[r] = "exec" /\ ~dirty[r] /\ Charge(r) /\ unheard' = [unheard EXCEPT ![r] = @ + 1]
    <3>1. unheard'[r] = unheard[r] + 1
      BY <1>1, <2>10 DEF TypeOK
    <3>2. receipts' = receipts
      BY <2>10 DEF Charge
    <3> QED BY <1>2, <1>3, <2>2, <2>6, <2>7, <2>8, <2>10, <3>1, <3>2
  <2> QED BY <2>3, <2>4, <2>9, <2>10
<1>5. CASE pc[r] = "exec" /\ ~dirty[r] /\ Commit(r)
  <2>1. /\ pc' = [pc EXCEPT ![r] = IF kind[r] = "task" THEN "work" ELSE "done"]
        /\ kind' = kind /\ cost' = cost /\ unheard' = unheard /\ Charge(r) /\ receipts' = receipts
    BY <1>5 DEF Commit, Charge, Goto, local
  <2>2. /\ pc'[r] = IF kind[r] = "task" THEN "work" ELSE "done"
        /\ \A s \in Request \ {r} : pc'[s] = pc[s] /\ Charges(s)' = Charges(s)
    BY <1>1, <2>1, OthersCharged
  <2>3. KindInv'
    BY <1>1, <1>2, <2>1, <2>2 DEF KindInv, Paying
  <2>4. Paid(r)'
    BY <1>2, <2>1, <2>2 DEF Paid
  <2>5. Charges(r)' = Charges(r) + 1
    BY <1>3, <2>1, <2>4 DEF Charges
  <2> QED BY <1>2, <1>5, <2>1, <2>2, <2>3, <2>5
<1> QED BY <1>4, <1>5 DEF Exec, Disconnect

\* A step that leaves the bills and what was charged alone.
LEMMA SameBills ==
    ASSUME BilledAsCharged, UNCHANGED <<bills, receipts, cost>>,
           \A s \in Request : Charges(s)' = Charges(s)
    PROVE  BilledAsCharged'
<1>1. \A s \in Request : BillsOf(s)' = BillsOf(s) /\ Billable(s)' = Billable(s)
  BY DEF BillsOf, Billable
<1> QED BY <1>1 DEF BilledAsCharged

\* What a request may be billed is a number.
LEMMA BillableType == ASSUME TypeOK, NEW s \in Request PROVE Billable(s) \in Int /\ Charges(s) \in Nat
BY DEF TypeOK, Billable, Charges

\* The payment, and the try that is lost.
LEMMA TryBilled ==
    ASSUME BInv, NEW r \in Request, Exec(r) \/ Disconnect(r)
    PROVE  BilledAsCharged'
<1>1. TypeOK /\ BilledAsCharged
  BY DEF BInv, IInv
<1>2. /\ UNCHANGED <<receipts, cost>>
      /\ \A s \in Request \ {r} : Charges(s)' = Charges(s)
      /\ \/ UNCHANGED bills /\ Charges(r)' = Charges(r)
         \/ Charge(r) /\ Charges(r)' = Charges(r) + 1
  BY TryCharges
<1>3. CASE UNCHANGED bills /\ Charges(r)' = Charges(r)
  BY <1>1, <1>2, <1>3, SameBills
<1>4. CASE Charge(r) /\ Charges(r)' = Charges(r) + 1
  <2>1. CASE cost[r] = 0
    <3>1. bills' = bills
      BY <1>4, <2>1 DEF Charge
    <3>2. \A s \in Request : BillsOf(s)' = BillsOf(s)
      BY <3>1 DEF BillsOf
    <3>3. \A s \in Request : Billable(s)' = Billable(s)
      BY <1>2, <2>1 DEF Billable
    <3> QED BY <1>1, <1>2, <3>2, <3>3 DEF BilledAsCharged
  <2>2. CASE cost[r] # 0
    <3>1. Push(filed[r], BillOf(r)) /\ filed[r] \in Months
      BY <1>1, <1>4, <2>2 DEF Charge, TypeOK
    <3>2. BillOf(r) \in Bill /\ BillOf(r).req = r
      <4>1. seen[r] \in Int /\ cost[r] \in Nat
        BY <1>1, CreditsAssumption DEF TypeOK
      <4> QED BY <4>1 DEF BillOf, Bill
    <3>3. \A s \in Request : BillsOf(s)' = BillsOf(s) + (IF BillOf(r).req = s THEN 1 ELSE 0)
      BY <1>1, <3>1, <3>2, PushBills
    <3>4. \A s \in Request : BillsOf(s) \in Int /\ Billable(s) \in Int /\ Charges(s) \in Nat
      BY <1>1, BillsType, BillableType
    <3>5. ASSUME NEW s \in Request
          PROVE  BillsOf(s)' <= Billable(s)' /\ (receipts' = <<>> => BillsOf(s)' = Billable(s)')
      <4>1. CASE s = r
        <5>1. BillsOf(r)' = BillsOf(r) + 1
          BY <3>2, <3>3
        <5>2. Billable(r) = Charges(r) /\ Billable(r)' = Charges(r) + 1
          BY <1>2, <1>4, <2>2 DEF Billable
        <5>3. BillsOf(r) <= Billable(r) /\ (receipts' = <<>> => BillsOf(r) = Billable(r))
          BY <1>1, <1>2 DEF BilledAsCharged
        <5> QED BY <3>4, <4>1, <5>1, <5>2, <5>3
      <4>2. CASE s # r
        <5>1. BillsOf(s)' = BillsOf(s)
          BY <3>2, <3>3, <3>4, <4>2
        <5>2. Billable(s)' = Billable(s)
          BY <1>2, <4>2 DEF Billable
        <5> QED BY <1>1, <1>2, <5>1, <5>2 DEF BilledAsCharged
      <4> QED BY <4>1, <4>2
    <3> QED BY <3>5 DEF BilledAsCharged
  <2> QED BY <2>1, <2>2
<1> QED BY <1>2, <1>3, <1>4

\* The operator's bills are nobody's, and squashing leaves a receipt.
LEMMA OperatorBilled ==
    ASSUME BInv,
           \/ \E v \in Topups : Topup(v)
           \/ \E v \in Sets : SetBalance(v)
           \/ \E m \in Months : Squash(m)
           \/ NextMonth
           \/ UNCHANGED vars
    PROVE  KindInv' /\ BilledAsCharged' /\ \A s \in Request : Charges(s)' = Charges(s)
<1>1. TypeOK /\ KindInv /\ BilledAsCharged
  BY DEF BInv, IInv
<1>2. pc' = pc /\ kind' = kind /\ cost' = cost /\ unheard' = unheard
  BY DEF Topup, SetBalance, Transaction, Squash, NextMonth, vars, local
<1>3. KindInv' /\ \A s \in Request : Charges(s)' = Charges(s) /\ Billable(s)' = Billable(s)
  BY <1>1, <1>2 DEF KindInv, Paid, Charges, Billable
<1>4. ASSUME NEW v \in Int, NEW new \in Int, Transaction(v, new) PROVE BilledAsCharged'
  <2> DEFINE b == [req |-> "operator", total |-> 0 - v, before |-> Amount, after |-> new]
  <2>1. Push(month, b) /\ month \in Months /\ receipts' = receipts
    BY <1>1, <1>4 DEF Transaction, TypeOK
  <2>2. b \in Bill /\ b.req = "operator"
    BY <1>1 DEF Bill, TypeOK, Amount
  <2>3. \A s \in Request : b.req # s
    BY <2>2, CreditsAssumption
  <2> HIDE DEF b
  <2>4. \A s \in Request : BillsOf(s)' = BillsOf(s) + (IF b.req = s THEN 1 ELSE 0)
    BY <1>1, <2>1, <2>2, PushBills
  <2>5. \A s \in Request : BillsOf(s) \in Int
    BY <1>1, BillsType
  <2>6. \A s \in Request : BillsOf(s)' = BillsOf(s)
    BY <2>3, <2>4, <2>5
  <2> QED BY <1>1, <1>3, <2>1, <2>6 DEF BilledAsCharged
<1>5. ASSUME NEW v \in Topups, Topup(v) PROVE BilledAsCharged'
  <2>1. v \in Int /\ Amount + v \in Int
    BY <1>1, CreditsAssumption DEF TypeOK, Amount
  <2> QED BY <1>4, <1>5, <2>1 DEF Topup
<1>6. ASSUME NEW v \in Sets, SetBalance(v) PROVE BilledAsCharged'
  BY <1>4, <1>6, CreditsAssumption DEF SetBalance
<1>7. ASSUME NEW m \in Months, Squash(m) PROVE BilledAsCharged'
  <2>1. receipts' # <<>>
    BY <1>1, <1>7 DEF Squash, TypeOK
  <2>2. bills' = [bills EXCEPT ![m] = <<>>] /\ <<>> \in Seq(Bill) /\ bills[m] \in Seq(Bill)
    BY <1>1, <1>7 DEF Squash, TypeOK
  <2>3. ASSUME NEW s \in Request PROVE BillsOf(s)' <= Billable(s)'
    <3>1. BillsOf(s)' = BillsOf(s) + (CountOf(<<>>, s) - CountOf(bills[m], s))
      BY <1>1, <2>2, BillsChange
    <3>2. CountOf(<<>>, s) = 0 /\ CountOf(bills[m], s) \in Int /\ CountOf(bills[m], s) >= 0
      BY <2>2, CountType, CountNatural
    <3>3. BillsOf(s) \in Int /\ Billable(s) \in Int /\ BillsOf(s) <= Billable(s)
      BY <1>1, BillsType, BillableType DEF BilledAsCharged
    <3> QED BY <1>3, <3>1, <3>2, <3>3
  <2> QED BY <2>1, <2>3 DEF BilledAsCharged
<1>8. CASE NextMonth \/ UNCHANGED vars
  BY <1>1, <1>2, <1>3, <1>8, SameBills DEF NextMonth, vars
<1> QED BY <1>3, <1>5, <1>6, <1>7, <1>8

\* Initially nothing is charged and nothing billed.
LEMMA InitBInv == Init => BInv /\ \A q \in Request : Charges(q) = 0
<1> SUFFICES ASSUME Init PROVE BInv /\ \A q \in Request : Charges(q) = 0
  OBVIOUS
<1>1. IInv /\ TypeOK
  BY InitIInv DEF IInv
<1>2. \A q \in Request : kind[q] \in Kinds
          /\ pc[q] = CASE kind[q] = "task" -> "watch" [] kind[q] = "data" -> "check"
                       [] OTHER -> "work"
  BY DEF Init
<1>3. KindInv /\ \A q \in Request : ~Paid(q)
  BY <1>2 DEF KindInv, Paid, Kinds, Paying
<1>4. \A q \in Request : Charges(q) = 0 /\ Billable(q) = 0
  BY <1>3 DEF Init, Charges, Billable
<1>5. ASSUME NEW q \in Request PROVE BillsOf(q) = 0
  <2> DEFINE F == [k \in 1..MaxMonth |-> CountOf(bills[k], q)]
             t == [k \in 0..MaxMonth |-> 0]
  <2>1. \A k \in 1..MaxMonth : F[k] = 0
    <3>1. \A k \in 1..MaxMonth : bills[k] = <<>> /\ <<>> \in Seq(Bill)
      BY DEF Init, Months
    <3> QED BY <3>1, CountType
  <2>2. BillsOf(q) = SumTo(F, MaxMonth)
    BY DEF BillsOf, Months
  <2>3. MaxMonth \in Nat
    BY CreditsAssumption
  <2>4. F \in [1..MaxMonth -> Int] /\ t \in [0..MaxMonth -> Int] /\ t[0] = 0 /\ t[MaxMonth] = 0
    <3>1. DOMAIN F = 1..MaxMonth /\ F = [k \in 1..MaxMonth |-> F[k]]
      OBVIOUS
    <3> HIDE DEF F
    <3> QED BY <2>1, <2>3, <3>1
  <2>5. \A k \in 1..MaxMonth : t[k] = t[k - 1] + F[k]
    <3>1. \A k \in 1..MaxMonth : t[k] = 0 /\ t[k - 1] = 0
      BY <2>3
    <3> HIDE DEF t, F
    <3> QED BY <2>1, <3>1
  <2> HIDE DEF F, t
  <2>6. SumTo(F, MaxMonth) = t[MaxMonth]
    BY <2>3, <2>4, <2>5, SumUnique
  <2> QED BY <2>2, <2>4, <2>6
<1>6. BilledAsCharged
  BY <1>4, <1>5 DEF BilledAsCharged
<1> QED BY <1>1, <1>3, <1>4, <1>6 DEF BInv

LEMMA BilledInvariance == Spec => []BInv
<1>1. Init => BInv
  BY InitBInv
<1>2. BInv /\ [Next]_vars => BInv'
  <2> SUFFICES ASSUME BInv, [Next]_vars PROVE BInv'
    OBVIOUS
  <2>1. IInv' /\ BilledAsCharged
    BY NextIInv DEF BInv
  <2>2. ASSUME NEW r \in Request, RequestStep(r) PROVE BInv'
    <3>1. CASE Exec(r) \/ Disconnect(r)
      BY <2>1, <3>1, TryCharges, TryBilled DEF BInv
    <3>2. CASE ~(Exec(r) \/ Disconnect(r))
      BY <2>1, <2>2, <3>2, AsideCharges, SameBills DEF RequestStep, BInv
    <3> QED BY <3>1, <3>2
  <2>3. CASE ~\E r \in Request : RequestStep(r)
    BY <2>1, <2>3, OperatorBilled DEF Next, BInv
  <2> QED BY <2>2, <2>3
<1> QED BY <1>1, <1>2, PTL DEF Spec

-----------------------------------------------------------------------------
\* What everybody was charged, for the account that is implemented.
Charged == [q \in Request |-> Charges(q)]

LEMMA SameCharged ==
    ASSUME \A q \in Request : Charges(q)' = Charges(q)
    PROVE  Charged' = Charged
BY DEF Charged

\* The transaction Redis runs is the payment; a try it does not run changes nothing.
LEMMA TryPays ==
    ASSUME BInv, NEW r \in Request, Exec(r) \/ Disconnect(r)
    PROVE  Purse!Pay(r) \/ UNCHANGED <<balance, Charged, unheard, cost>>
<1>1. TypeOK /\ QueuedInv
  BY DEF BInv, IInv
<1>2. /\ UNCHANGED cost /\ ~Paid(r)
      /\ \A s \in Request \ {r} : Charges(s)' = Charges(s)
      /\ \/ UNCHANGED <<balance, unheard>> /\ Charges(r)' = Charges(r)
         \/ /\ pc[r] = "exec" /\ ~dirty[r] /\ Charge(r)
            /\ Charges(r)' = Charges(r) + 1
            /\ unheard' \in {unheard, [unheard EXCEPT ![r] = @ + 1]}
  BY TryCharges
<1>3. CASE UNCHANGED <<balance, unheard>> /\ Charges(r)' = Charges(r)
  <2>1. Charged' = Charged
    BY <1>2, <1>3, SameCharged
  <2> QED BY <1>2, <1>3, <2>1
<1>4. CASE /\ pc[r] = "exec" /\ ~dirty[r] /\ Charge(r)
           /\ Charges(r)' = Charges(r) + 1
           /\ unheard' \in {unheard, [unheard EXCEPT ![r] = @ + 1]}
  <2>1. /\ seen[r] = balance /\ (OverdraftAllowed \/ seen[r] >= cost[r])
        /\ balance' = seen[r] - cost[r]
    BY <1>1, <1>4 DEF QueuedInv, Standing, Charge, Write
  <2>2. balance # Absent
    <3>1. seen[r] \in Int
      BY <1>1 DEF TypeOK
    <3> QED BY <2>1, <3>1, CreditsAssumption
  <2>3. Charged[r] = unheard[r]
    BY <1>1, <1>2 DEF Charged, Charges, TypeOK
  <2>4. Charged' = [Charged EXCEPT ![r] = @ + 1]
    BY <1>2, <1>4 DEF Charged
  <2> QED BY <1>2, <1>4, <2>1, <2>2, <2>3, <2>4 DEF Purse!Pay, Charged
<1> QED BY <1>2, <1>3, <1>4

\* Every step of the credit is one of the account's, or none.
LEMMA StepMoves == BInv /\ [Next]_vars => [Purse!Move]_(Purse!acvars)
<1> SUFFICES ASSUME BInv, [Next]_vars
             PROVE  Purse!Move \/ UNCHANGED <<balance, Charged, unheard, cost>>
  BY DEF Purse!acvars, Charged
<1>1. ASSUME NEW r \in Request, RequestStep(r)
      PROVE  Purse!Move \/ UNCHANGED <<balance, Charged, unheard, cost>>
  <2>1. CASE Exec(r) \/ Disconnect(r)
    BY <2>1, TryPays DEF Purse!Move
  <2>2. CASE ~(Exec(r) \/ Disconnect(r))
    <3>1. UNCHANGED <<balance, unheard, cost>> /\ \A s \in Request : Charges(s)' = Charges(s)
      BY <1>1, <2>2, AsideCharges DEF RequestStep
    <3> QED BY <3>1, SameCharged
  <2> QED BY <2>1, <2>2
<1>2. CASE ~\E r \in Request : RequestStep(r)
  <2>0. /\ \A s \in Request : Charges(s)' = Charges(s)
        /\ cost' = cost /\ unheard' = unheard
    <3>1. \/ \E v \in Topups : Topup(v)
          \/ \E v \in Sets : SetBalance(v)
          \/ \E m \in Months : Squash(m)
          \/ NextMonth
          \/ UNCHANGED vars
      BY <1>2 DEF Next
    <3>2. cost' = cost /\ unheard' = unheard
      BY <3>1 DEF Topup, SetBalance, Transaction, Squash, NextMonth, vars, local
    <3> QED BY <3>1, <3>2, OperatorBilled
  <2>1. cost' = cost /\ unheard' = unheard /\ Charged' = Charged
    BY <2>0, SameCharged
  <2>2. ASSUME NEW v \in Topups, Topup(v) PROVE Purse!Move
    <3>1. balance' = (IF balance = Absent THEN 0 ELSE balance) + v
      BY <2>2 DEF Topup, Transaction, Write, Amount
    <3> QED BY <2>1, <3>1 DEF Purse!Move, Purse!Adjust, Charged
  <2>3. ASSUME NEW v \in Sets, SetBalance(v) PROVE Purse!Move
    <3>1. balance' = v
      BY <2>3 DEF SetBalance, Transaction, Write
    <3> QED BY <2>1, <3>1 DEF Purse!Move, Purse!Adjust, Charged
  <2>4. CASE (\E m \in Months : Squash(m)) \/ NextMonth \/ UNCHANGED vars
    <3>1. balance' = balance
      BY <2>4 DEF Squash, NextMonth, vars
    <3> QED BY <2>1, <3>1
  <2> QED BY <1>2, <2>2, <2>3, <2>4 DEF Next
<1> QED BY <1>1, <1>2

-----------------------------------------------------------------------------
\* Type correctness of the credit's store and of the requests that use it.
THEOREM TypeCorrect == Spec => []TypeOK
<1>1. IInv => TypeOK
  BY DEF IInv
<1> QED BY <1>1, Invariance, PTL

\* deduct_credits and credit_transaction keep each month's bills a gapless
\* account whose newest entry is the balance.
THEOREM LedgerChainAlways == Spec => []LedgerChain
<1>1. IInv => LedgerChain
  BY DEF IInv
<1> QED BY <1>1, Invariance, PTL

\* deduct_credits never overdraws the credit when the rule forbids it.
THEOREM NoOverdraftAlways == Spec => []NoOverdraft
<1>1. IInv => NoOverdraft
  BY DEF IInv
<1> QED BY <1>1, Invariance, PTL

\* A try of deduct_credits that fails lost to another write of the balance, or lost its
\* connection; so it gives up only after as many of these as it has tries.
THEOREM TriesHaveCausesAlways == Spec => []TriesHaveCauses
<1>1. IInv => TriesHaveCauses
  BY DEF IInv, RivalsInv, CauseInv, TriesHaveCauses
<1> QED BY <1>1, Invariance, PTL

\* No payment, top-up or squashing loses or repeats a credit: whatever the balance
\* gains the bills and receipts lose.
THEOREM AddsUpAlways == Spec => AddsUp
<1>1. IInv /\ [Next]_vars
        => [(\A v \in Sets : ~SetBalance(v)) => (Amount + Billed)' = Amount + Billed]_vars
  BY StepAddsUp
<1> QED BY <1>1, Invariance, PTL DEF Spec, AddsUp

\* However often deduct_credits tries and whichever of its replies are lost, a request has
\* one bill for each time it was charged.
THEOREM BilledAsChargedAlways == Spec => []BilledAsCharged
<1>1. BInv => BilledAsCharged
  BY DEF BInv
<1> QED BY <1>1, BilledInvariance, PTL

\* deduct_credits's watched transaction and the operator's Lua functions implement an
\* account on which a payment is one step, repeated only by who did not hear of it.
THEOREM Implements == Spec => PaysAtOnce
<1>1. Init => Purse!Open
  BY InitBInv DEF Purse!Open, Init
<1>2. BInv /\ [Next]_vars => [Purse!Move]_(Purse!acvars)
  BY StepMoves
<1> QED BY <1>1, <1>2, BilledInvariance, PTL DEF Spec, PaysAtOnce, Purse!AccountSpec
=============================================================================
