--------------------------- MODULE PairedLedgerProofs ---------------------------
(***************************************************************************)
(* What holds of PairedLedger for any number of threads, securities, buys, *)
(* prices and instants: the two histories can always be shown and          *)
(* compared, and no fill is from the past.                                 *)
(***************************************************************************)
EXTENDS PairedLedger, ArithmeticTheorems, TLAPS

-----------------------------------------------------------------------------
(* Histories *)

(* A history is never empty, and its times grow.                           *)
IsHistory(h) ==
  /\ \E S : h \in Seq(S)
  /\ Len(h) > 0
  /\ \A i \in 1..Len(h) : h[i].at \in Times /\ h[i].deposit \in Nat
  /\ \A i, j \in 1..Len(h) : i < j => h[i].at < h[j].at

(* Every benchmark snapshot has its managed one, every deposit both.       *)
AreCoupled(managed, benchmark) ==
  /\ \A j \in 1..Len(benchmark) : \E i \in 1..Len(managed) :
       Paired(managed[i], benchmark[j])
  /\ \A i \in 1..Len(managed) : managed[i].deposit > 0 =>
       \E j \in 1..Len(benchmark) : Paired(managed[i], benchmark[j])

LEMMA HistoryType ==
  ASSUME NEW h, IsHistory(h)
  PROVE  /\ Len(h) \in Nat \ {0} /\ DOMAIN h = 1..Len(h)
         /\ \A i \in 1..Len(h) : h[i].at \in Nat
         /\ LastAt(h) \in Times /\ LastAt(h) = Newest(h).at
         /\ \A i \in 1..Len(h) : h[i].at <= LastAt(h)
<1>1. Len(h) \in Nat \ {0} /\ DOMAIN h = 1..Len(h)
  BY DEF IsHistory
<1>2. \A i \in 1..Len(h) : h[i].at \in Nat
  BY DEF IsHistory, Times
<1>3. LastAt(h) \in Times /\ LastAt(h) = Newest(h).at
  BY <1>1 DEF IsHistory, LastAt, Newest
<1>4. ASSUME NEW i \in 1..Len(h)
      PROVE  h[i].at <= LastAt(h)
  <2>0. \A n \in Nat : \A j \in 1..n : j = n \/ j < n
    OBVIOUS
  <2>1. CASE i = Len(h)
    BY <1>1, <1>2, <2>1 DEF LastAt
  <2>2. CASE i < Len(h)
    BY <1>1, <1>2, <2>2 DEF IsHistory, LastAt
  <2>3. i = Len(h) \/ i < Len(h)
    BY <1>1, <2>0
  <2> QED
    BY <2>1, <2>2, <2>3
<1> QED
  BY <1>1, <1>2, <1>3, <1>4

LEMMA HistoryGrows ==
  ASSUME NEW h, IsHistory(h), NEW x, x.at \in Times, x.deposit \in Nat,
         MayAppend(h, x.at)
  PROVE  /\ IsHistory(Append(h, x))
         /\ Len(Append(h, x)) = Len(h) + 1
         /\ \A i \in 1..Len(h) : Append(h, x)[i] = h[i]
         /\ Append(h, x)[Len(h) + 1] = x
         /\ Newest(Append(h, x)) = x /\ LastAt(Append(h, x)) = x.at
<1> DEFINE g == Append(h, x)
<1>1. PICK S : h \in Seq(S)
  BY DEF IsHistory
<1>2. h \in Seq(S \cup {x}) /\ x \in S \cup {x}
  BY <1>1
<1>3. /\ g \in Seq(S \cup {x}) /\ Len(g) = Len(h) + 1
      /\ \A i \in 1..Len(h) : g[i] = h[i]
      /\ g[Len(h) + 1] = x
  BY <1>2
<1> HIDE DEF g
<1>4. Len(h) \in Nat \ {0} /\ \A i \in 1..Len(h) : h[i].at < x.at /\ h[i].at \in Nat
  BY HistoryType DEF MayAppend, Times
<1>5. \A i \in 1..Len(g) : g[i].at \in Times /\ g[i].deposit \in Nat
  <2> SUFFICES ASSUME NEW i \in 1..Len(g)
               PROVE  g[i].at \in Times /\ g[i].deposit \in Nat
    OBVIOUS
  <2>1. i \in 1..Len(h) \/ i = Len(h) + 1
    BY <1>3, <1>4
  <2> QED
    BY <1>3, <2>1 DEF IsHistory
<1>6. \A i, j \in 1..Len(g) : i < j => g[i].at < g[j].at
  <2> SUFFICES ASSUME NEW i \in 1..Len(g), NEW j \in 1..Len(g), i < j
               PROVE  g[i].at < g[j].at
    OBVIOUS
  <2>1. i \in 1..Len(h) /\ (j \in 1..Len(h) \/ j = Len(h) + 1)
    BY <1>3, <1>4
  <2> QED
    BY <1>3, <1>4, <2>1 DEF IsHistory
<1>7. IsHistory(g)
  BY <1>3, <1>4, <1>5, <1>6 DEF IsHistory
<1> QED
  BY <1>3, <1>4, <1>7 DEF Newest, LastAt, g

(* A managed snapshot alone, without a deposit.                            *)
LEMMA OneSideGrows ==
  ASSUME NEW m, NEW b, IsHistory(m), IsHistory(b), AreCoupled(m, b),
         NEW x, x.at \in Times, x.deposit = 0, MayAppend(m, x.at)
  PROVE  IsHistory(Append(m, x)) /\ AreCoupled(Append(m, x), b)
<1> DEFINE g == Append(m, x)
<1>1. /\ IsHistory(g) /\ Len(g) = Len(m) + 1
      /\ \A i \in 1..Len(m) : g[i] = m[i]
      /\ g[Len(m) + 1] = x
  BY HistoryGrows
<1>2. Len(m) \in Nat
  BY HistoryType
<1> HIDE DEF g
<1>3. \A i \in 1..Len(m) : i \in 1..Len(g)
  BY <1>1, <1>2
<1>4. \A i \in 1..Len(g) : i \in 1..Len(m) \/ i = Len(m) + 1
  BY <1>1, <1>2
<1>5. AreCoupled(g, b)
  BY <1>1, <1>3, <1>4 DEF AreCoupled
<1> QED
  BY <1>1, <1>5 DEF g

(* A snapshot of both sides.                                               *)
LEMMA BothSidesGrow ==
  ASSUME NEW m, NEW b, IsHistory(m), IsHistory(b), AreCoupled(m, b),
         NEW x, NEW y, Paired(x, y), x.at \in Times, x.deposit \in Nat,
         MayAppend(m, x.at), MayAppend(b, x.at)
  PROVE  /\ IsHistory(Append(m, x)) /\ IsHistory(Append(b, y))
         /\ AreCoupled(Append(m, x), Append(b, y))
<1> DEFINE g == Append(m, x)
           c == Append(b, y)
<1>1. /\ IsHistory(g) /\ Len(g) = Len(m) + 1
      /\ \A i \in 1..Len(m) : g[i] = m[i]
      /\ g[Len(m) + 1] = x
  BY HistoryGrows
<1>2. y.at = x.at /\ y.deposit = x.deposit
  BY DEF Paired
<1>3. /\ IsHistory(c) /\ Len(c) = Len(b) + 1
      /\ \A i \in 1..Len(b) : c[i] = b[i]
      /\ c[Len(b) + 1] = y
  BY <1>2, HistoryGrows
<1>4. Len(m) \in Nat /\ Len(b) \in Nat
  BY HistoryType
<1> HIDE DEF g, c
<1>5. /\ \A i \in 1..Len(m) : i \in 1..Len(g)
      /\ Len(m) + 1 \in 1..Len(g)
      /\ \A i \in 1..Len(b) : i \in 1..Len(c)
      /\ Len(b) + 1 \in 1..Len(c)
  BY <1>1, <1>3, <1>4
<1>6. /\ \A i \in 1..Len(g) : i \in 1..Len(m) \/ i = Len(m) + 1
      /\ \A i \in 1..Len(c) : i \in 1..Len(b) \/ i = Len(b) + 1
  BY <1>1, <1>3, <1>4
<1>7. AreCoupled(g, c)
  <2>1. \A j \in 1..Len(c) : \E i \in 1..Len(g) : Paired(g[i], c[j])
    BY <1>1, <1>3, <1>5, <1>6 DEF AreCoupled
  <2>2. \A i \in 1..Len(g) : g[i].deposit > 0 =>
          \E j \in 1..Len(c) : Paired(g[i], c[j])
    BY <1>1, <1>3, <1>5, <1>6 DEF AreCoupled
  <2> QED
    BY <2>1, <2>2 DEF AreCoupled
<1> QED
  BY <1>1, <1>3, <1>7 DEF g, c

-----------------------------------------------------------------------------
(* Comparing coupled histories *)

(* Coupled histories of one length agree position by position: the         *)
(* managed counterparts of the benchmark's snapshots follow each other.    *)
LEMMA SamePositions ==
  ASSUME NEW m, NEW b, IsHistory(m), IsHistory(b), AreCoupled(m, b),
         Len(m) = Len(b)
  PROVE  \A j \in 1..Len(m) : Paired(m[j], b[j])
<1> DEFINE n == Len(m)
<1>1. /\ n \in Nat \ {0} /\ Len(b) = n
      /\ \A i \in 1..n : m[i].at \in Nat /\ b[i].at \in Nat
      /\ \A i, j \in 1..n : i < j => m[i].at < m[j].at /\ b[i].at < b[j].at
  BY HistoryType DEF IsHistory
<1>2. \A j \in 1..n : \E i \in 1..n : Paired(m[i], b[j])
  BY DEF AreCoupled
<1> HIDE DEF n
<1>3. \A i, j \in 1..n : m[i].at < m[j].at => i < j
  <2> SUFFICES ASSUME NEW i \in 1..n, NEW j \in 1..n, ~(i < j)
               PROVE  ~(m[i].at < m[j].at)
    OBVIOUS
  <2>1. i = j \/ j < i
    BY <1>1
  <2> QED
    BY <1>1, <2>1
<1>4. \A j \in 1..n : m[j].at <= b[j].at
  <2> DEFINE S == {j \in 1..n : b[j].at < m[j].at}
  <2> SUFFICES S = {}
    BY <1>1
  <2> SUFFICES ASSUME S # {} PROVE FALSE
    OBVIOUS
  <2>1. S \in SUBSET Nat
    BY <1>1
  <2>2. PICK j \in S : \A k \in S : j <= k
    BY <2>1, LeastExists
  <2>3. PICK i \in 1..n : m[i].at = b[j].at
    BY <1>2 DEF Paired
  <2>4. i < j
    BY <1>3, <2>3
  <2>5. j - 1 \in 1..n /\ j - 1 < j /\ j - 1 \notin S
    BY <1>1, <2>1, <2>2, <2>4
  <2>6. m[j - 1].at <= b[j - 1].at /\ b[j - 1].at < b[j].at
    BY <1>1, <2>5
  <2>7. m[j - 1].at < m[i].at
    BY <1>1, <2>3, <2>5, <2>6
  <2>8. j - 1 < i
    BY <1>3, <2>5, <2>7
  <2> QED
    BY <1>1, <2>4, <2>8
<1>5. \A j \in 1..n : b[j].at <= m[j].at
  <2> DEFINE S == {j \in 1..n : m[j].at < b[j].at}
  <2> SUFFICES S = {}
    BY <1>1
  <2> SUFFICES ASSUME S # {} PROVE FALSE
    OBVIOUS
  <2>1. n \in Nat /\ S \in SUBSET (0..n)
    BY <1>1
  <2>2. PICK j \in S : \A k \in S : k <= j
    BY <2>1, GreatestExists
  <2>3. PICK i \in 1..n : m[i].at = b[j].at
    BY <1>2 DEF Paired
  <2>4. j < i
    BY <1>3, <2>3
  <2>5. j + 1 \in 1..n /\ j < j + 1 /\ j + 1 \notin S
    BY <1>1, <2>1, <2>2, <2>4
  <2>6. b[j + 1].at <= m[j + 1].at /\ b[j].at < b[j + 1].at
    BY <1>1, <2>5
  <2>7. m[i].at < m[j + 1].at
    BY <1>1, <2>3, <2>5, <2>6
  <2>8. i < j + 1
    BY <1>3, <2>5, <2>7
  <2> QED
    BY <1>1, <2>4, <2>8
<1>6. ASSUME NEW j \in 1..n PROVE Paired(m[j], b[j])
  <2>1. PICK i \in 1..n : Paired(m[i], b[j])
    BY <1>2
  <2>2. m[i].at = m[j].at
    BY <1>1, <1>4, <1>5, <2>1 DEF Paired
  <2>3. i = j \/ i < j \/ j < i
    OBVIOUS
  <2>4. i = j
    BY <1>1, <2>2, <2>3
  <2> QED
    BY <2>1, <2>4
<1> QED
  BY <1>6 DEF n

(* A benchmark snapshot has one managed snapshot of its time, its own.     *)
LEMMA NothingUnmatched ==
  ASSUME NEW m, NEW b, IsHistory(m), IsHistory(b), AreCoupled(m, b)
  PROVE  Unmatched(m, b) = {} /\ Mismatched(m, b) = {}
<1>1. DOMAIN m = 1..Len(m) /\ DOMAIN b = 1..Len(b)
  BY HistoryType
<1>2. ASSUME NEW j \in 1..Len(b)
      PROVE  \E i \in 1..Len(m) : /\ Paired(m[i], b[j])
                                  /\ CounterpartsOf(m, b[j]) = {i}
  <2>1. PICK i \in 1..Len(m) : Paired(m[i], b[j])
    BY DEF AreCoupled
  <2>2. ASSUME NEW k \in 1..Len(m), m[k].at = m[i].at
        PROVE  k = i
    <3>1. k = i \/ k < i \/ i < k
      OBVIOUS
    <3>2. m[i].at \in Nat
      BY HistoryType
    <3> QED
      BY <2>2, <3>1, <3>2 DEF IsHistory
  <2>3. CounterpartsOf(m, b[j]) = {i}
    BY <1>1, <2>1, <2>2 DEF CounterpartsOf, Paired
  <2> QED
    BY <2>1, <2>3
<1>3. Unmatched(m, b) = {}
  BY <1>1, <1>2 DEF Unmatched
<1>4. Mismatched(m, b) = {}
  BY <1>1, <1>2 DEF Mismatched
<1> QED
  BY <1>3, <1>4

LEMMA SameCashEvents ==
  ASSUME NEW m, NEW b, IsHistory(m), IsHistory(b), AreCoupled(m, b)
  PROVE  CashEvents(m) = CashEvents(b)
<1>1. DOMAIN m = 1..Len(m) /\ DOMAIN b = 1..Len(b)
  BY HistoryType
<1>2. CashEvents(m) \subseteq CashEvents(b)
  <2> SUFFICES ASSUME NEW i \in 1..Len(m), m[i].deposit > 0
               PROVE  [at |-> m[i].at, amount |-> m[i].deposit] \in CashEvents(b)
    BY <1>1 DEF CashEvents
  <2>1. PICK j \in 1..Len(b) : Paired(m[i], b[j])
    BY DEF AreCoupled
  <2>2. b[j].at = m[i].at /\ b[j].deposit = m[i].deposit
    BY <2>1 DEF Paired
  <2> QED
    BY <1>1, <2>2 DEF CashEvents
<1>3. CashEvents(b) \subseteq CashEvents(m)
  <2> SUFFICES ASSUME NEW j \in 1..Len(b), b[j].deposit > 0
               PROVE  [at |-> b[j].at, amount |-> b[j].deposit] \in CashEvents(m)
    BY <1>1 DEF CashEvents
  <2>1. PICK i \in 1..Len(m) : Paired(m[i], b[j])
    BY DEF AreCoupled
  <2>2. b[j].at = m[i].at /\ b[j].deposit = m[i].deposit
    BY <2>1 DEF Paired
  <2> QED
    BY <1>1, <2>2 DEF CashEvents
<1> QED
  BY <1>2, <1>3

(* No error of PerformanceComparison but the one the read side expects.    *)
LEMMA CoupledIsComparable ==
  ASSUME NEW m, NEW b, IsHistory(m), IsHistory(b), AreCoupled(m, b)
  PROVE  /\ Comparison(m, b) # "MISMATCH"
         /\ LastAt(m) = LastAt(b) => Comparison(m, b) = "COMPARABLE"
         /\ Comparison(m, b) = "COMPARABLE" => LastAt(m) = LastAt(b)
<1>1. DOMAIN m = 1..Len(m) /\ Len(m) \in Nat \ {0}
  BY HistoryType
<1>2. Unmatched(m, b) = {} /\ Mismatched(m, b) = {} /\ CashEvents(m) = CashEvents(b)
  BY NothingUnmatched, SameCashEvents
<1>3. CASE Len(m) = Len(b)
  <2>1. \A i \in 1..Len(m) : Paired(m[i], b[i])
    BY <1>3, SamePositions
  <2>2. Comparison(m, b) = "COMPARABLE"
    BY <1>1, <1>3, <2>1 DEF Comparison
  <2>3. Len(m) \in 1..Len(m)
    BY <1>1
  <2>4. LastAt(m) = LastAt(b)
    BY <1>3, <2>1, <2>3 DEF LastAt, Paired
  <2> QED
    BY <2>2, <2>4
<1>4. CASE Len(m) # Len(b)
  BY <1>2, <1>4 DEF Comparison
<1> QED
  BY <1>3, <1>4

(* Up to a common time the histories are again coupled.                    *)
LEMMA PrefixesAreComparable ==
  ASSUME NEW m, NEW b, IsHistory(m), IsHistory(b), AreCoupled(m, b),
         NEW k \in 1..Len(m), NEW n \in 1..Len(b), m[k].at = b[n].at
  PROVE  Comparison(Prefix(m, k), Prefix(b, n)) = "COMPARABLE"
<1> DEFINE p == Prefix(m, k)
           q == Prefix(b, n)
<1>1. Len(m) \in Nat /\ Len(b) \in Nat
  BY HistoryType
<1>2. PICK S : m \in Seq(S)
  BY DEF IsHistory
<1>3. PICK T : b \in Seq(T)
  BY DEF IsHistory
<1>4. p \in Seq(S) /\ Len(p) = k /\ \A i \in 1..k : p[i] = m[i]
  BY <1>1, <1>2 DEF Prefix
<1>5. q \in Seq(T) /\ Len(q) = n /\ \A i \in 1..n : q[i] = b[i]
  BY <1>1, <1>3 DEF Prefix
<1> HIDE DEF p, q
<1>6. /\ \A i \in 1..k : i \in 1..Len(m)
      /\ \A i \in 1..n : i \in 1..Len(b)
      /\ k \in 1..k /\ n \in 1..n /\ k > 0 /\ n > 0
  BY <1>1
<1>7. IsHistory(p)
  BY <1>4, <1>6 DEF IsHistory
<1>8. IsHistory(q)
  BY <1>5, <1>6 DEF IsHistory
<1>9. LastAt(p) = m[k].at /\ LastAt(q) = b[n].at
  BY <1>4, <1>5, <1>6 DEF LastAt
<1>10. \A i \in 1..Len(m) : m[i].at <= m[k].at => i \in 1..k
  <2> SUFFICES ASSUME NEW i \in 1..Len(m), m[i].at <= m[k].at
               PROVE  i \in 1..k
    OBVIOUS
  <2>1. k < i => m[k].at < m[i].at
    BY DEF IsHistory
  <2>2. m[i].at \in Nat /\ m[k].at \in Nat
    BY HistoryType
  <2>3. ~(k < i)
    BY <2>1, <2>2
  <2> QED
    BY <1>1, <2>3
<1>11. \A j \in 1..Len(b) : b[j].at <= b[n].at => j \in 1..n
  <2> SUFFICES ASSUME NEW j \in 1..Len(b), b[j].at <= b[n].at
               PROVE  j \in 1..n
    OBVIOUS
  <2>1. n < j => b[n].at < b[j].at
    BY DEF IsHistory
  <2>2. b[j].at \in Nat /\ b[n].at \in Nat
    BY HistoryType
  <2>3. ~(n < j)
    BY <2>1, <2>2
  <2> QED
    BY <1>1, <2>3
<1>12. \A j \in 1..n : \E i \in 1..k : Paired(p[i], q[j])
  <2> SUFFICES ASSUME NEW j \in 1..n
               PROVE  \E i \in 1..k : Paired(p[i], q[j])
    OBVIOUS
  <2>1. PICK i \in 1..Len(m) : Paired(m[i], b[j])
    BY <1>6 DEF AreCoupled
  <2>2. q[j].at <= LastAt(q)
    BY <1>5, <1>8, HistoryType
  <2>3. i \in 1..k
    BY <1>5, <1>9, <1>10, <2>1, <2>2 DEF Paired
  <2> QED
    BY <1>4, <1>5, <2>1, <2>3
<1>13. \A i \in 1..k : p[i].deposit > 0 => \E j \in 1..n : Paired(p[i], q[j])
  <2> SUFFICES ASSUME NEW i \in 1..k, p[i].deposit > 0
               PROVE  \E j \in 1..n : Paired(p[i], q[j])
    OBVIOUS
  <2>1. PICK j \in 1..Len(b) : Paired(m[i], b[j])
    BY <1>4, <1>6 DEF AreCoupled
  <2>2. p[i].at <= LastAt(p)
    BY <1>4, <1>7, HistoryType
  <2>3. j \in 1..n
    BY <1>4, <1>9, <1>11, <2>1, <2>2 DEF Paired
  <2> QED
    BY <1>4, <1>5, <2>1, <2>3
<1>14. AreCoupled(p, q)
  BY <1>4, <1>5, <1>12, <1>13 DEF AreCoupled
<1>15. LastAt(p) = LastAt(q)
  BY <1>9
<1> QED
  BY <1>7, <1>8, <1>14, <1>15, CoupledIsComparable DEF p, q

-----------------------------------------------------------------------------
(* Sound runs *)

Fields == {"managed", "benchmark", "quotes", "funding", "fulfilments",
           "executions", "status"}

(* A fulfilment spends the funding up to its quote; later money is later   *)
(* than the fulfilment.                                                    *)
IsCurrentFill(fill, funding) ==
  /\ fill.at \in Nat /\ fill.quote.at <= fill.at
  /\ \A f \in funding : f <= fill.quote.at \/ f > fill.at

IsCurrentTrade(e) ==
  /\ e.at \in Nat
  /\ e.buy.at <= e.quote.at
  /\ e.quote.at <= e.at

(* What holds of a run by itself, whoever saves it and when.               *)
IsSound(r) ==
  /\ r = [f \in Fields |-> r[f]]
  /\ IsHistory(r.managed)
  /\ IsHistory(r.benchmark)
  /\ AreCoupled(r.managed, r.benchmark)
  /\ r.quotes \in SUBSET Quotes
  /\ r.funding \in SUBSET Times /\ r.funding # {}
  /\ \E S : r.fulfilments \in Seq(S)
  /\ \A i \in 1..Len(r.fulfilments) :
       /\ IsCurrentFill(r.fulfilments[i], r.funding)
       /\ r.fulfilments[i].at <= LastAt(r.benchmark)
  /\ \A e \in r.executions : IsCurrentTrade(e) /\ e.at <= LastAt(r.managed)

Inv ==
  /\ IsSound(run)
  /\ proposals = [t \in Threads |-> proposals[t]]
  /\ \A t \in Threads : proposals[t] # NoProposal => IsSound(proposals[t])

LEMMA TimesAreNumbers == MaxTime \in Nat \ {0} /\ Times \subseteq Nat /\ Deposit \in Nat
BY AmountAssumption DEF Times

LEMMA MaxIsGreatest ==
  ASSUME NEW S \in SUBSET Times, S # {}
  PROVE  Max(S) \in S /\ \A x \in S : x <= Max(S)
<1>1. \E x \in S : \A y \in S : y <= x
  BY TimesAreNumbers, GreatestExists DEF Times
<1>2. \E x \in S : \A y \in S : x >= y
  BY <1>1, TimesAreNumbers
<1> DEFINE m == CHOOSE x \in S : \A y \in S : x >= y
<1>3. m \in S /\ \A y \in S : m >= y
  BY <1>2
<1>4. m = Max(S)
  BY DEF Max
<1> QED
  BY <1>3, <1>4, TimesAreNumbers

LEMMA LatestIsOneOfThem ==
  ASSUME NEW S \in SUBSET Quotes, S # {}
  PROVE  LatestOf(S) \in S
<1> DEFINE T == {q.at : q \in S}
<1>1. T \in SUBSET (0..MaxTime) /\ T # {}
  BY DEF Quotes, Times
<1>2. PICK x \in T : \A y \in T : y <= x
  BY <1>1, TimesAreNumbers, GreatestExists
<1>3. PICK q \in S : q.at = x
  BY <1>2
<1>4. \A other \in S : other.at <= q.at
  BY <1>2, <1>3
<1> QED
  BY <1>4 DEF LatestOf

LEMMA NewRunIsSound == IsSound(NewRun)
<1> DEFINE h == <<InitialSnapshot>>
<1>1. InitialSnapshot.at = 0 /\ InitialSnapshot.deposit = 0
  BY DEF InitialSnapshot
<1>2. Paired(InitialSnapshot, InitialSnapshot)
  BY DEF Paired
<1>3. h \in Seq({InitialSnapshot}) /\ Len(h) = 1 /\ h[1] = InitialSnapshot
  OBVIOUS
<1>4. 0 \in Times
  BY TimesAreNumbers DEF Times
<1> HIDE DEF h
<1>5. \A i \in 1..Len(h) : i = 1
  BY <1>3
<1>6. IsHistory(h)
  <2>1. \A i \in 1..Len(h) : h[i].at \in Times /\ h[i].deposit \in Nat
    BY <1>1, <1>3, <1>4, <1>5
  <2>2. \A i, j \in 1..Len(h) : ~(i < j)
    BY <1>5
  <2> QED
    BY <1>3, <2>1, <2>2 DEF IsHistory
<1>7. AreCoupled(h, h)
  BY <1>2, <1>3, <1>5 DEF AreCoupled
<1>8. /\ NewRun.managed = h /\ NewRun.benchmark = h
      /\ NewRun.quotes = {} /\ NewRun.funding = {0}
      /\ NewRun.fulfilments = <<>> /\ NewRun.executions = {}
      /\ NewRun = [f \in Fields |-> NewRun[f]]
  BY DEF NewRun, Fields, h
<1>9. <<>> \in Seq({}) /\ Len(<<>>) = 0
  OBVIOUS
<1> QED
  BY <1>4, <1>6, <1>7, <1>8, <1>9 DEF IsSound

-----------------------------------------------------------------------------
(* What the commands propose over a sound run *)

(* Where the histories grow at a new instant, old fills and trades stay    *)
(* before their ends.                                                      *)
LEMMA LaterAppend ==
  ASSUME NEW h, IsHistory(h), NEW x, x.at \in Times, x.deposit \in Nat,
         MayAppend(h, x.at)
  PROVE  /\ LastAt(Append(h, x)) = x.at /\ LastAt(h) < x.at
         /\ LastAt(h) \in Nat /\ x.at \in Nat
BY HistoryGrows, HistoryType, TimesAreNumbers DEF MayAppend

LEMMA TradesStayBehind ==
  ASSUME NEW r, IsSound(r), NEW at \in Nat, LastAt(r.managed) \in Nat,
         LastAt(r.managed) < at
  PROVE  \A e \in r.executions : IsCurrentTrade(e) /\ e.at <= at
<1> SUFFICES ASSUME NEW e \in r.executions
             PROVE  IsCurrentTrade(e) /\ e.at <= at
  OBVIOUS
<1>1. IsCurrentTrade(e) /\ e.at <= LastAt(r.managed)
  BY DEF IsSound
<1>2. e.at \in Nat
  BY <1>1 DEF IsCurrentTrade
<1> QED
  BY <1>1, <1>2

LEMMA CashEventIsSound ==
  ASSUME NEW r, IsSound(r), NEW at \in Times, NEW source, NEW x, NEW y,
         MayAppend(r.managed, at), MayAppend(r.benchmark, at),
         x = Snapshot(at, source, Funded(Managed(r)), Deposit, Cycle(r)),
         y = Snapshot(at, source, Funded(Benchmark(r)), Deposit, NoId)
  PROVE  IsSound([r EXCEPT
           !.managed = Append(@, x), !.benchmark = Append(@, y),
           !.funding = @ \cup {at}, !.status = "PENDING_NO_ELIGIBLE_PRICE"])
<1> DEFINE p == [r EXCEPT
             !.managed = Append(@, x), !.benchmark = Append(@, y),
             !.funding = @ \cup {at}, !.status = "PENDING_NO_ELIGIBLE_PRICE"]
<1>1. /\ p.managed = Append(r.managed, x) /\ p.benchmark = Append(r.benchmark, y)
      /\ p.funding = r.funding \cup {at} /\ p.quotes = r.quotes
      /\ p.fulfilments = r.fulfilments /\ p.executions = r.executions
      /\ p = [f \in Fields |-> p[f]]
  BY DEF IsSound, Fields
<1> HIDE DEF p
<1>2. /\ x.at = at /\ y.at = at /\ x.source = source /\ y.source = source
      /\ x.deposit = Deposit /\ y.deposit = Deposit
  BY DEF Snapshot
<1>3. Paired(x, y) /\ x.deposit \in Nat /\ y.deposit \in Nat
  BY <1>2, TimesAreNumbers DEF Paired
<1>4. /\ IsHistory(p.managed) /\ IsHistory(p.benchmark)
      /\ AreCoupled(p.managed, p.benchmark)
  BY <1>1, <1>2, <1>3, BothSidesGrow DEF IsSound
<1>5. /\ LastAt(r.managed) < at /\ LastAt(p.managed) = at /\ LastAt(r.managed) \in Nat
      /\ LastAt(r.benchmark) < at /\ LastAt(p.benchmark) = at
      /\ LastAt(r.benchmark) \in Nat /\ at \in Nat
  BY <1>1, <1>2, <1>3, LaterAppend DEF IsSound
<1>6. \A i \in 1..Len(r.fulfilments) :
        /\ IsCurrentFill(r.fulfilments[i], p.funding)
        /\ r.fulfilments[i].at <= LastAt(p.benchmark)
  <2> SUFFICES ASSUME NEW i \in 1..Len(r.fulfilments)
               PROVE  /\ IsCurrentFill(r.fulfilments[i], p.funding)
                      /\ r.fulfilments[i].at <= LastAt(p.benchmark)
    OBVIOUS
  <2>1. /\ IsCurrentFill(r.fulfilments[i], r.funding)
        /\ r.fulfilments[i].at <= LastAt(r.benchmark)
    BY DEF IsSound
  <2>2. r.fulfilments[i].at < at
    BY <1>5, <2>1 DEF IsCurrentFill
  <2> QED
    BY <1>1, <1>5, <2>1, <2>2 DEF IsCurrentFill
<1>7. \A e \in r.executions : IsCurrentTrade(e) /\ e.at <= LastAt(p.managed)
  BY <1>5, TradesStayBehind
<1>8. IsSound(p)
  BY <1>1, <1>4, <1>6, <1>7 DEF IsSound
<1> QED
  BY <1>8 DEF p

(* A snapshot of both sides at new prices, without a deposit.              *)
LEMMA RevaluationIsSound ==
  ASSUME NEW r, IsSound(r), NEW x, NEW y, Paired(x, y),
         x.at \in Times, x.deposit = 0,
         MayAppend(r.managed, x.at), MayAppend(r.benchmark, x.at)
  PROVE  /\ IsHistory(Append(r.managed, x)) /\ IsHistory(Append(r.benchmark, y))
         /\ AreCoupled(Append(r.managed, x), Append(r.benchmark, y))
         /\ LastAt(Append(r.benchmark, y)) = x.at
         /\ \A i \in 1..Len(r.fulfilments) :
              /\ IsCurrentFill(r.fulfilments[i], r.funding)
              /\ r.fulfilments[i].at <= LastAt(Append(r.benchmark, y))
         /\ \A e \in r.executions :
              IsCurrentTrade(e) /\ e.at <= LastAt(Append(r.managed, x))
<1>1. y.at = x.at /\ y.deposit = 0 /\ 0 \in Nat
  BY DEF Paired
<1>2. /\ IsHistory(Append(r.managed, x)) /\ IsHistory(Append(r.benchmark, y))
      /\ AreCoupled(Append(r.managed, x), Append(r.benchmark, y))
  BY <1>1, BothSidesGrow DEF IsSound
<1>3. /\ LastAt(r.managed) < x.at /\ LastAt(r.managed) \in Nat
      /\ LastAt(Append(r.managed, x)) = x.at
      /\ LastAt(r.benchmark) < x.at /\ LastAt(r.benchmark) \in Nat
      /\ LastAt(Append(r.benchmark, y)) = x.at /\ x.at \in Nat
  BY <1>1, LaterAppend DEF IsSound
<1>4. ASSUME NEW i \in 1..Len(r.fulfilments)
      PROVE  /\ IsCurrentFill(r.fulfilments[i], r.funding)
             /\ r.fulfilments[i].at <= LastAt(Append(r.benchmark, y))
  <2>1. /\ IsCurrentFill(r.fulfilments[i], r.funding)
        /\ r.fulfilments[i].at <= LastAt(r.benchmark)
    BY DEF IsSound
  <2>2. r.fulfilments[i].at \in Nat
    BY <2>1 DEF IsCurrentFill
  <2> QED
    BY <1>3, <2>1, <2>2
<1>5. \A e \in r.executions :
        IsCurrentTrade(e) /\ e.at <= LastAt(Append(r.managed, x))
  BY <1>3, TradesStayBehind
<1> QED
  BY <1>2, <1>3, <1>4, <1>5

(* FulfillBenchmark's fill.                                                *)
LEMMA FillIsSound ==
  ASSUME NEW r, IsSound(r), NEW at \in Times, NEW quote, NEW book, NEW x, NEW y,
         quote \in EligibleSpy(r, at),
         MayAppend(r.managed, at), MayAppend(r.benchmark, at),
         x = Snapshot(at, quote.at, Managed(r), 0, Cycle(r)),
         y = Snapshot(at, quote.at, book, 0, NoId)
  PROVE  IsSound([r EXCEPT
           !.managed = Append(@, x), !.benchmark = Append(@, y),
           !.fulfilments = Append(@, [at |-> at, quote |-> quote, book |-> book]),
           !.status = "FULFILLED"])
<1> DEFINE fill == [at |-> at, quote |-> quote, book |-> book]
           p == [r EXCEPT
             !.managed = Append(@, x), !.benchmark = Append(@, y),
             !.fulfilments = Append(@, fill), !.status = "FULFILLED"]
<1>1. /\ p.managed = Append(r.managed, x) /\ p.benchmark = Append(r.benchmark, y)
      /\ p.fulfilments = Append(r.fulfilments, fill)
      /\ p.funding = r.funding /\ p.quotes = r.quotes
      /\ p.executions = r.executions
      /\ p = [f \in Fields |-> p[f]]
  BY DEF IsSound, Fields
<1> HIDE DEF p
<1>2. /\ x.at = at /\ y.at = at /\ x.source = quote.at /\ y.source = quote.at
      /\ x.deposit = 0 /\ y.deposit = 0
  BY DEF Snapshot
<1>3. /\ IsHistory(p.managed) /\ IsHistory(p.benchmark)
      /\ AreCoupled(p.managed, p.benchmark)
      /\ LastAt(p.benchmark) = at
      /\ \A i \in 1..Len(r.fulfilments) :
           /\ IsCurrentFill(r.fulfilments[i], p.funding)
           /\ r.fulfilments[i].at <= LastAt(p.benchmark)
      /\ \A e \in p.executions : IsCurrentTrade(e) /\ e.at <= LastAt(p.managed)
  <2>1. Paired(x, y)
    BY <1>2 DEF Paired
  <2> QED
    BY <1>1, <1>2, <2>1, RevaluationIsSound
<1>4. IsCurrentFill(fill, r.funding) /\ fill.at = at
  <2>1. \A f \in r.funding : f <= Max(r.funding)
    BY MaxIsGreatest DEF IsSound
  <2>2. Max(r.funding) \in Times /\ r.funding \subseteq Times
    BY MaxIsGreatest DEF IsSound
  <2>3. quote \in r.quotes /\ quote.at \in Max(r.funding)..at
    BY DEF EligibleSpy
  <2> DEFINE last == Max(r.funding)
  <2> HIDE DEF last
  <2>0. at \in Nat /\ last \in Nat /\ r.funding \subseteq Nat
    BY <2>2, TimesAreNumbers DEF last
  <2>4. quote.at \in Nat /\ quote.at <= at /\ last <= quote.at
    BY <2>0, <2>3 DEF last
  <2>5. \A f \in r.funding : f <= quote.at
    <3>1. \A f \in r.funding : f <= last
      BY <2>1 DEF last
    <3> QED
      BY <2>0, <2>4, <3>1
  <2> QED
    BY <2>0, <2>4, <2>5 DEF IsCurrentFill
<1>5. PICK S : r.fulfilments \in Seq(S)
  BY DEF IsSound
<1>6. r.fulfilments \in Seq(S \cup {fill}) /\ fill \in S \cup {fill}
  BY <1>5
<1>7. /\ p.fulfilments \in Seq(S \cup {fill})
      /\ \A i \in 1..Len(p.fulfilments) :
           \/ p.fulfilments[i] = fill
           \/ i \in 1..Len(r.fulfilments) /\ p.fulfilments[i] = r.fulfilments[i]
  BY <1>1, <1>6
<1>8. \A i \in 1..Len(p.fulfilments) :
        /\ IsCurrentFill(p.fulfilments[i], p.funding)
        /\ p.fulfilments[i].at <= LastAt(p.benchmark)
  <2> SUFFICES ASSUME NEW i \in 1..Len(p.fulfilments)
               PROVE  /\ IsCurrentFill(p.fulfilments[i], p.funding)
                      /\ p.fulfilments[i].at <= LastAt(p.benchmark)
    OBVIOUS
  <2>1. CASE p.fulfilments[i] = fill
    <3>1. at \in Nat
      BY TimesAreNumbers
    <3> QED
      BY <1>1, <1>3, <1>4, <2>1, <3>1
  <2>2. CASE i \in 1..Len(r.fulfilments) /\ p.fulfilments[i] = r.fulfilments[i]
    BY <1>3, <2>2
  <2> QED
    BY <1>7, <2>1, <2>2
<1> HIDE DEF fill
<1>9. IsSound(p)
  <2>1. /\ p.quotes \in SUBSET Quotes /\ p.funding \in SUBSET Times
        /\ p.funding # {}
    BY <1>1 DEF IsSound
  <2> QED
    BY <1>1, <1>3, <1>7, <1>8, <2>1 DEF IsSound
<1> QED
  BY <1>9 DEF p, fill

LEMMA MarkIsSound ==
  ASSUME NEW r, IsSound(r), NEW feed \in Feeds, HeldByEither(r) # {}
  PROVE  IsSound(Marked(r, feed))
<1> DEFINE at == Max({feed[s].at : s \in HeldByEither(r)})
           x == Snapshot(at, at, Managed(r), 0, Cycle(r))
           y == Snapshot(at, at, Benchmark(r), 0, NoId)
           p == [r EXCEPT !.managed = Append(@, x), !.benchmark = Append(@, y)]
<1>1. at \in Times
  <2> DEFINE S == {feed[s].at : s \in HeldByEither(r)}
  <2>1. HeldByEither(r) \subseteq Securities
    BY DEF HeldByEither, Held
  <2>2. \A s \in Securities : feed[s].at \in Times
    BY SecurityAssumption, TimesAreNumbers DEF Times
  <2>3. S \in SUBSET Times /\ S # {}
    BY <2>1, <2>2
  <2> HIDE DEF S
  <2>4. Max(S) \in Times
    BY <2>3, MaxIsGreatest
  <2> QED
    BY <2>4 DEF S
<1> HIDE DEF at
<1>2. CASE ~(MayAppend(r.managed, at) /\ MayAppend(r.benchmark, at))
  BY <1>2 DEF Marked, at
<1>3. CASE MayAppend(r.managed, at) /\ MayAppend(r.benchmark, at)
  <2>1. Marked(r, feed) = p
    BY <1>3 DEF Marked, at
  <2>2. /\ p.managed = Append(r.managed, x) /\ p.benchmark = Append(r.benchmark, y)
        /\ p.fulfilments = r.fulfilments
        /\ p.funding = r.funding /\ p.quotes = r.quotes
        /\ p.executions = r.executions
        /\ p = [f \in Fields |-> p[f]]
    BY DEF IsSound, Fields
  <2>3. /\ x.at = at /\ y.at = at /\ x.source = at /\ y.source = at
        /\ x.deposit = 0 /\ y.deposit = 0
    BY DEF Snapshot
  <2> HIDE DEF p, x, y
  <2>4. /\ IsHistory(p.managed) /\ IsHistory(p.benchmark)
        /\ AreCoupled(p.managed, p.benchmark)
        /\ \A i \in 1..Len(r.fulfilments) :
             /\ IsCurrentFill(r.fulfilments[i], p.funding)
             /\ r.fulfilments[i].at <= LastAt(p.benchmark)
        /\ \A e \in p.executions : IsCurrentTrade(e) /\ e.at <= LastAt(p.managed)
    <3>1. Paired(x, y)
      BY <2>3 DEF Paired
    <3> QED
      BY <1>1, <1>3, <2>2, <2>3, <3>1, RevaluationIsSound
  <2>5. IsSound(p)
    BY <2>2, <2>4 DEF IsSound
  <2> QED
    BY <2>1, <2>5
<1> QED
  BY <1>2, <1>3

LEMMA RefreshIsSound ==
  ASSUME NEW r, IsSound(r), NEW feed \in Feeds
  PROVE  IsSound(Refreshed(r, feed))
<1> DEFINE with == [r EXCEPT !.quotes = @ \cup QuotesOf(feed)]
<1>1. QuotesOf(feed) \subseteq Quotes
  <2>1. \A s \in Securities : feed[s].at \in Times /\ feed[s].price \in Nat
    BY SecurityAssumption, TimesAreNumbers DEF Times
  <2> QED
    BY <2>1 DEF QuotesOf, Quotes
<1>2. /\ with.managed = r.managed /\ with.benchmark = r.benchmark
      /\ with.fulfilments = r.fulfilments
      /\ with.funding = r.funding /\ with.quotes = r.quotes \cup QuotesOf(feed)
      /\ with.executions = r.executions
      /\ with = [f \in Fields |-> with[f]]
  BY DEF IsSound, Fields
<1> HIDE DEF with
<1>3. IsSound(with)
  BY <1>1, <1>2 DEF IsSound
<1>4. ASSUME MarksToMarket(r, feed) PROVE HeldByEither(with) # {}
  <2>1. HeldByEither(with) = HeldByEither(r)
    BY <1>2 DEF HeldByEither, Managed, Benchmark
  <2> QED
    BY <1>4, <2>1 DEF MarksToMarket
<1>5. CASE MarksToMarket(r, feed)
  BY <1>3, <1>4, <1>5, MarkIsSound DEF Refreshed, with
<1>6. CASE ~MarksToMarket(r, feed)
  BY <1>3, <1>6 DEF Refreshed, with
<1> QED
  BY <1>5, <1>6

LEMMA TradeIsSound ==
  ASSUME NEW r, IsSound(r), NEW buy \in Buys, NEW at \in Times, NEW quote,
         NEW book, NEW x,
         quote \in r.quotes, quote.at \in buy.at..at, MayAppend(r.managed, at),
         x = Snapshot(at, quote.at, book, 0, buy)
  PROVE  IsSound([r EXCEPT
           !.managed = Append(@, x),
           !.executions = @ \cup {[buy |-> buy, at |-> at, quote |-> quote]}])
<1> DEFINE trade == [buy |-> buy, at |-> at, quote |-> quote]
           p == [r EXCEPT !.managed = Append(@, x),
                          !.executions = @ \cup {trade}]
<1>1. /\ p.managed = Append(r.managed, x) /\ p.benchmark = r.benchmark
      /\ p.fulfilments = r.fulfilments
      /\ p.funding = r.funding /\ p.quotes = r.quotes
      /\ p.executions = r.executions \cup {trade}
      /\ p = [f \in Fields |-> p[f]]
  BY DEF IsSound, Fields
<1> HIDE DEF p
<1>2. x.at = at /\ x.deposit = 0
  BY DEF Snapshot
<1>3. IsHistory(p.managed) /\ AreCoupled(p.managed, p.benchmark)
  BY <1>1, <1>2, OneSideGrows DEF IsSound
<1>4. /\ LastAt(r.managed) < at /\ LastAt(p.managed) = at
      /\ LastAt(r.managed) \in Nat /\ at \in Nat
  BY <1>1, <1>2, LaterAppend DEF IsSound
<1>5. IsCurrentTrade(trade) /\ trade.at <= LastAt(p.managed)
  <2>1. quote.at \in Times
    BY DEF IsSound, Quotes
  <2>2. quote.at \in Nat /\ buy.at <= quote.at /\ quote.at <= at
    BY <1>4, <2>1, TimesAreNumbers
  <2> QED
    BY <1>4, <2>2 DEF IsCurrentTrade
<1>6. \A e \in r.executions : IsCurrentTrade(e) /\ e.at <= LastAt(p.managed)
  BY <1>4, TradesStayBehind
<1>7. \A e \in p.executions : IsCurrentTrade(e) /\ e.at <= LastAt(p.managed)
  BY <1>1, <1>5, <1>6
<1> HIDE DEF trade
<1>8. IsSound(p)
  BY <1>1, <1>3, <1>7 DEF IsSound
<1> QED
  BY <1>8 DEF p, trade

LEMMA SameHistoriesAreSound ==
  ASSUME NEW r, IsSound(r), NEW status
  PROVE  IsSound([r EXCEPT !.status = status])
<1> DEFINE p == [r EXCEPT !.status = status]
<1>1. /\ p.managed = r.managed /\ p.benchmark = r.benchmark
      /\ p.fulfilments = r.fulfilments
      /\ p.funding = r.funding /\ p.quotes = r.quotes
      /\ p.executions = r.executions
      /\ p = [f \in Fields |-> p[f]]
  BY DEF IsSound, Fields
<1> HIDE DEF p
<1>2. IsSound(p)
  BY <1>1 DEF IsSound
<1> QED
  BY <1>2 DEF p

-----------------------------------------------------------------------------
(* The invariant *)

LEMMA InitiallySound == Init => Inv
BY NewRunIsSound DEF Init, Inv

(* A command leaves the run alone, and proposes a sound one.               *)
LEMMA ProposalIsSound ==
  ASSUME Inv, NEW t \in Threads, NEW p, IsSound(p), Proposes(t, p)
  PROVE  Inv'
BY DEF Inv, Proposes

LEMMA StepIsSound == Inv /\ [Next]_vars => Inv'
<1> SUFFICES ASSUME Inv, [Next]_vars PROVE Inv'
  OBVIOUS
<1>1. IsSound(run)
  BY DEF Inv
<1>2. ASSUME NEW t \in Threads, ApplyCashEvent(t) PROVE Inv'
  <2>1. PICK at \in Times, source \in Times :
          /\ MayAppend(run.managed, at) /\ MayAppend(run.benchmark, at)
          /\ Proposes(t, [run EXCEPT
               !.managed   = Append(@, Snapshot(at, source, Funded(Managed(run)), Deposit, Cycle(run))),
               !.benchmark = Append(@, Snapshot(at, source, Funded(Benchmark(run)), Deposit, NoId)),
               !.funding   = @ \cup {at},
               !.status    = "PENDING_NO_ELIGIBLE_PRICE"])
    BY <1>2 DEF ApplyCashEvent
  <2> QED
    BY <1>1, <2>1, CashEventIsSound, ProposalIsSound
<1>3. ASSUME NEW t \in Threads, NEW status, RecordNoAction(t, status) PROVE Inv'
  BY <1>1, <1>3, SameHistoriesAreSound, ProposalIsSound DEF RecordNoAction
<1>4. ASSUME NEW t \in Threads, NEW at \in Times, NEW quote,
             quote \in EligibleSpy(run, at), Fulfils(t, quote, at)
      PROVE  Inv'
  <2>1. PICK book :
          /\ MayAppend(run.managed, at) /\ MayAppend(run.benchmark, at)
          /\ Proposes(t, [run EXCEPT
               !.managed     = Append(@, Snapshot(at, quote.at, Managed(run), 0, Cycle(run))),
               !.benchmark   = Append(@, Snapshot(at, quote.at, book, 0, NoId)),
               !.fulfilments = Append(@, [at |-> at, quote |-> quote, book |-> book]),
               !.status      = "FULFILLED"])
    BY <1>4 DEF Fulfils
  <2> QED
    BY <1>1, <1>4, <2>1, FillIsSound, ProposalIsSound
<1>5. ASSUME NEW t \in Threads, FulfillBenchmark(t) PROVE Inv'
  <2>1. PICK at \in Times :
          \/ \E status : RecordNoAction(t, status)
          \/ /\ EligibleSpy(run, at) # {}
             /\ Fulfils(t, LatestOf(EligibleSpy(run, at)), at)
    BY <1>5 DEF FulfillBenchmark
  <2>2. EligibleSpy(run, at) \in SUBSET Quotes
    BY <1>1 DEF EligibleSpy, IsSound
  <2>3. CASE EligibleSpy(run, at) # {} /\ Fulfils(t, LatestOf(EligibleSpy(run, at)), at)
    BY <1>4, <2>2, <2>3, LatestIsOneOfThem
  <2> QED
    BY <1>3, <2>1, <2>3
<1>6. ASSUME NEW t \in Threads, RefreshPrices(t) PROVE Inv'
  BY <1>1, <1>6, RefreshIsSound, ProposalIsSound DEF RefreshPrices
<1>7. ASSUME NEW t \in Threads, ExecutePaperTrade(t) PROVE Inv'
  <2>1. PICK buy \in Buys, at \in Times : \E book :
          LET eligible == {q \in run.quotes : /\ q.security = buy.security
                                              /\ q.at \in buy.at..at}
              quote == LatestOf(eligible)
          IN /\ eligible # {}
             /\ MayAppend(run.managed, at)
             /\ Proposes(t, [run EXCEPT
                  !.managed    = Append(@, Snapshot(at, quote.at, book, 0, buy)),
                  !.executions = @ \cup {[buy |-> buy, at |-> at, quote |-> quote]}])
    BY <1>7 DEF ExecutePaperTrade
  <2> DEFINE eligible == {q \in run.quotes : /\ q.security = buy.security
                                             /\ q.at \in buy.at..at}
             quote == LatestOf(eligible)
  <2>2. eligible \in SUBSET Quotes
    BY <1>1 DEF IsSound
  <2>3. eligible # {}
    BY <2>1
  <2>4. quote \in run.quotes /\ quote.at \in buy.at..at
    BY <2>2, <2>3, LatestIsOneOfThem
  <2>5. PICK book :
          /\ MayAppend(run.managed, at)
          /\ Proposes(t, [run EXCEPT
               !.managed    = Append(@, Snapshot(at, quote.at, book, 0, buy)),
               !.executions = @ \cup {[buy |-> buy, at |-> at, quote |-> quote]}])
    BY <2>1
  <2> HIDE DEF eligible, quote
  <2>6. IsSound([run EXCEPT
          !.managed    = Append(@, Snapshot(at, quote.at, book, 0, buy)),
          !.executions = @ \cup {[buy |-> buy, at |-> at, quote |-> quote]}])
    BY <1>1, <2>4, <2>5, TradeIsSound
  <2> QED
    BY <2>5, <2>6, ProposalIsSound
<1>8. ASSUME NEW t \in Threads, OtherCommand(t) PROVE Inv'
  BY <1>1, <1>8, ProposalIsSound DEF OtherCommand
<1>9. ASSUME NEW t \in Threads, SaveTransition(t) PROVE Inv'
  BY <1>9 DEF SaveTransition, Inv
<1>10. CASE UNCHANGED vars
  BY <1>10 DEF vars, Inv
<1> QED
  BY <1>2, <1>5, <1>6, <1>7, <1>8, <1>9, <1>10 DEF Next

LEMMA AlwaysSound == Spec => []Inv
BY InitiallySound, StepIsSound, PTL DEF Spec

-----------------------------------------------------------------------------
(* What the program promises *)

(***************************************************************************)
(* A fill of the benchmark uses no price from before the money it spends,  *)
(* an execution none from before its approval or after itself, whatever    *)
(* commands are saved late (managed_execution.py, benchmark fulfilment).   *)
(***************************************************************************)
THEOREM FillsAreCurrent == Spec => []NoFillFromThePast
<1>1. Inv => NoFillFromThePast
  BY DEF Inv, IsSound, IsCurrentFill, IsCurrentTrade, NoFillFromThePast
<1> QED
  BY <1>1, AlwaysSound, PTL

(***************************************************************************)
(* Executions add snapshots to the managed history alone; as soon as the   *)
(* histories end at the same time again, the comparison of performance.py  *)
(* accepts them.                                                           *)
(***************************************************************************)
THEOREM ComparableTails == Spec => []SynchronizedTailsAreComparable
<1>1. Inv => SynchronizedTailsAreComparable
  BY CoupledIsComparable DEF Inv, IsSound, SynchronizedTailsAreComparable
<1> QED
  BY <1>1, AlwaysSound, PTL

(* Every point of the chart is a comparison of coupled histories.          *)
LEMMA ChartIsDrawn ==
  ASSUME NEW m, NEW b, IsHistory(m), IsHistory(b), AreCoupled(m, b)
  PROVE  ChartCanBeDrawn(m, b)
<1>1. DOMAIN m = 1..Len(m) /\ DOMAIN b = 1..Len(b)
  BY HistoryType
<1>2. ASSUME NEW k \in 1..Len(m), NEW n \in 1..Len(b), m[k].at = b[n].at
      PROVE  /\ PrefixComparison(m, b, <<k, n>>) = "COMPARABLE"
             /\ \A j \in 1..Len(b) : m[k].at = b[j].at => j = n
  <2>1. Comparison(Prefix(m, k), Prefix(b, n)) = "COMPARABLE"
    BY <1>2, PrefixesAreComparable
  <2>2. ASSUME NEW j \in 1..Len(b), b[j].at = b[n].at
        PROVE  j = n
    <3>1. j = n \/ j < n \/ n < j
      OBVIOUS
    <3>2. b[n].at \in Nat
      BY HistoryType
    <3> QED
      BY <2>2, <3>1, <3>2 DEF IsHistory
  <2> QED
    BY <1>2, <2>1, <2>2 DEF PrefixComparison
<1>3. ASSUME NEW pair \in SynchronizedPairs(m, b)
      PROVE  /\ PrefixComparison(m, b, pair) = "COMPARABLE"
             /\ \A other \in SynchronizedPairs(m, b) :
                  other[1] = pair[1] => other = pair
  <2>1. PICK k \in 1..Len(m), n \in 1..Len(b) : pair = <<k, n>> /\ m[k].at = b[n].at
    BY <1>1 DEF SynchronizedPairs
  <2>2. \A other \in SynchronizedPairs(m, b) : other[1] = pair[1] => other = pair
    BY <1>1, <1>2, <2>1 DEF SynchronizedPairs
  <2> QED
    BY <1>2, <2>1, <2>2
<1> QED
  BY <1>3 DEF ChartCanBeDrawn

(* The cycle that traded last has a first synchronized snapshot, the last  *)
(* one of the histories if no other.                                       *)
LEMMA PerformanceIsShown ==
  ASSUME NEW m, NEW b, IsHistory(m), IsHistory(b), AreCoupled(m, b),
         Comparison(m, b) = "COMPARABLE",
         NEW cycle, NEW executedAt \in Nat, cycle = Newest(m).cycle,
         executedAt <= LastAt(m)
  PROVE  \E pair \in PerformanceOf(m, b, cycle, executedAt) :
           PrefixComparison(m, b, pair) = "COMPARABLE"
<1> DEFINE pairs == {p \in SynchronizedPairs(m, b) :
                       p[1] \in SnapshotsOf(m, cycle, executedAt)}
           firsts == {p[1] : p \in pairs}
<1>1. /\ DOMAIN m = 1..Len(m) /\ DOMAIN b = 1..Len(b)
      /\ Len(m) \in 1..Len(m) /\ Len(b) \in 1..Len(b)
  BY HistoryType
<1>2. LastAt(m) = LastAt(b)
  BY CoupledIsComparable
<1>3. Len(m) \in SnapshotsOf(m, cycle, executedAt)
  <2>1. m[Len(m)].cycle = cycle /\ m[Len(m)].at = LastAt(m)
    BY DEF Newest, LastAt
  <2>2. LastAt(m) \in Nat
    BY <1>1, <2>1, HistoryType
  <2>3. m[Len(m)].at >= executedAt
    BY <2>1, <2>2
  <2> QED
    BY <1>1, <2>1, <2>3 DEF SnapshotsOf
<1>4. <<Len(m), Len(b)>> \in pairs
  BY <1>1, <1>2, <1>3 DEF SynchronizedPairs, LastAt
<1>5. \A p \in pairs : p[1] \in Nat
  BY <1>1 DEF SynchronizedPairs
<1>6. firsts \in SUBSET Nat /\ firsts # {}
  BY <1>4, <1>5
<1>7. PICK k \in firsts : \A j \in firsts : k <= j
  BY <1>6, LeastExists
<1>8. PICK pair \in pairs : pair[1] = k
  BY <1>7
<1>9. pair \in PerformanceOf(m, b, cycle, executedAt)
  BY <1>7, <1>8 DEF PerformanceOf
<1>10. PrefixComparison(m, b, pair) = "COMPARABLE"
  BY <1>8, ChartIsDrawn DEF ChartCanBeDrawn
<1> QED
  BY <1>9, <1>10

(***************************************************************************)
(* No reachable run makes a request of the dashboard fail: it loads, its   *)
(* chart can be computed, and the last executed decision shows the         *)
(* performance since then once the histories are synchronized.             *)
(***************************************************************************)
THEOREM DashboardIsShown == Spec => []DashboardCanBeShown
<1>1. ASSUME Inv PROVE DashboardCanBeShown
  <2>1. /\ IsHistory(run.managed) /\ IsHistory(run.benchmark)
        /\ AreCoupled(run.managed, run.benchmark)
    BY <1>1 DEF Inv, IsSound
  <2>2. CanBeLoaded(run.managed, run.benchmark)
    BY <2>1, CoupledIsComparable DEF CanBeLoaded
  <2>3. ChartCanBeDrawn(run.managed, run.benchmark)
    BY <2>1, ChartIsDrawn
  <2>4. ASSUME NEW e \in run.executions, e.buy = Cycle(run),
               Comparison(run.managed, run.benchmark) = "COMPARABLE"
        PROVE  \E pair \in PerformanceOf(run.managed, run.benchmark, e.buy, e.at) :
                 PrefixComparison(run.managed, run.benchmark, pair) = "COMPARABLE"
    <3>1. e.at \in Nat /\ e.at <= LastAt(run.managed)
      BY <1>1 DEF Inv, IsSound, IsCurrentTrade
    <3>2. e.buy = Newest(run.managed).cycle
      BY <2>4 DEF Cycle
    <3> QED
      BY <2>1, <2>4, <3>1, <3>2, PerformanceIsShown
  <2> QED
    BY <2>2, <2>3, <2>4 DEF DashboardCanBeShown
<1> QED
  BY <1>1, AlwaysSound, PTL

-----------------------------------------------------------------------------
(* What a trade does to a portfolio *)

(* The fields of a portfolio.                                              *)
LEMMA BookFields ==
  ASSUME NEW book \in Books, NEW s \in Securities
  PROVE  /\ book.cash \in Nat /\ book.held[s] \in Positions
         /\ book.held[s].quantity \in Nat /\ book.held[s].cost \in Nat
         /\ book.held[s].price \in Nat
BY DEF Books, Positions

(* A portfolio is worth a whole amount.                                    *)
LEMMA ValueIsNat ==
  ASSUME NEW book \in Books, NEW s \in Securities, NEW price \in Nat
  PROVE  ValueAt(book, s, price) \in Nat
<1> DEFINE others == Securities \ {s}
           f == [x \in others |-> MarketValue(book, x)]
<1>1. \A x \in others : f[x] \in Nat
  BY BookFields DEF MarketValue
<1>2. IsFiniteSet(others) /\ DOMAIN f = others
  BY UniverseAssumption, FS_Subset
<1> HIDE DEF f, others
<1>3. SumFunction(f) \in Nat
  BY <1>1, <1>2, SumNat DEF SumFunction
<1>4. ValueAt(book, s, price) = book.cash + book.held[s].quantity * price + SumFunction(f)
  BY DEF ValueAt, f, others
<1>5. book.held[s].quantity * price \in Nat
  BY BookFields
<1> QED
  BY <1>3, <1>4, <1>5, BookFields

(* A purchase is never larger than the cash.                               *)
LEMMA PurchaseIsPaid ==
  ASSUME NEW book \in Books, NEW s \in Securities, NEW weight \in Nat,
         NEW price \in Nat \ {0}
  PROVE  /\ Required(book, s, weight, price) \in Nat
         /\ Purchasable(book, s, weight, price) \in Nat
         /\ Purchasable(book, s, weight, price) * price \in 0..book.cash
         /\ Purchasable(book, s, weight, price) > 0 =>
              Purchasable(book, s, weight, price) * price > 0
<1> DEFINE cash == book.cash
           q == book.held[s].quantity
           v == ValueAt(book, s, price)
           need == Required(book, s, weight, price)
           m == Min({need, 100 * cash})
           n == Purchasable(book, s, weight, price)
<1>1. cash \in Nat /\ v \in Nat /\ q \in Nat
  BY BookFields, ValueIsNat
<1>2. need \in Nat
  <2>1. need = IF v * weight > 100 * q * price
               THEN v * weight - 100 * q * price ELSE 0
    BY DEF Required
  <2>2. v * weight \in Nat /\ 100 * q * price \in Nat
    BY <1>1
  <2> HIDE DEF need, v, q
  <2> QED
    BY <2>1, <2>2
<1> HIDE DEF need, cash, v, q
<1>3. m \in Nat /\ m <= 100 * cash
  BY <1>1, <1>2, MinOfTwo
<1>4. n = m \div (100 * price)
  BY DEF Purchasable, need, cash
<1> HIDE DEF m, n
<1>5. 100 * price \in Nat \ {0}
  OBVIOUS
<1>6. n \in Nat /\ n * (100 * price) <= m
  BY <1>3, <1>4, <1>5, DivTimes
<1>7. n * price \in Nat /\ n * (100 * price) = 100 * (n * price)
  BY <1>6
<1>8. n * price <= cash
  BY <1>1, <1>3, <1>6, <1>7
<1>9. n > 0 => n * price > 0
  BY <1>6
<1> QED
  BY <1>1, <1>2, <1>6, <1>7, <1>8, <1>9 DEF need, n, cash

(* The trade leaves a portfolio, with the cash that was not spent.         *)
LEMMA BoughtType ==
  ASSUME NEW book \in Books, NEW s \in Securities, NEW weight \in Nat,
         NEW price \in Nat \ {0}
  PROVE  /\ Bought(book, s, weight, price) \in Books
         /\ Bought(book, s, weight, price).cash =
              book.cash - Purchasable(book, s, weight, price) * price
<1> DEFINE n == Purchasable(book, s, weight, price)
           new == Bought(book, s, weight, price)
           p == [quantity |-> book.held[s].quantity + n,
                 cost |-> book.held[s].cost + n * price, price |-> price]
<1>1. n \in Nat /\ n * price \in 0..book.cash
  BY PurchaseIsPaid
<1>2. new = [cash |-> book.cash - n * price, held |-> [book.held EXCEPT ![s] = p]]
  BY BookFields DEF Bought, Books
<1> HIDE DEF n, new
<1>3. p \in Positions
  BY <1>1, BookFields DEF Positions
<1>4. book.cash - n * price \in Nat
  BY <1>1, BookFields
<1> HIDE DEF p
<1>5. [book.held EXCEPT ![s] = p] \in [Securities -> Positions]
  BY <1>3 DEF Books
<1> QED
  BY <1>2, <1>4, <1>5 DEF Books, n, new

(* What is spent is invested: the costs of the other positions stay.      *)
LEMMA InvestedByPurchase ==
  ASSUME NEW book \in Books, NEW s \in Securities, NEW weight \in Nat,
         NEW price \in Nat \ {0}
  PROVE  /\ Invested(book) \in Nat
         /\ Invested(Bought(book, s, weight, price)) =
              Invested(book) + Purchasable(book, s, weight, price) * price
<1> DEFINE n == Purchasable(book, s, weight, price)
           new == Bought(book, s, weight, price)
           f == [x \in Securities |-> book.held[x].cost]
           g == [x \in Securities |-> new.held[x].cost]
           rest == Securities \ {s}
<1>1. n \in Nat /\ n * price \in Nat
  BY PurchaseIsPaid
<1>2. new \in Books
  BY BoughtType
<1>3. new.held = [book.held EXCEPT ![s] =
                    [quantity |-> @.quantity + n, cost |-> @.cost + n * price,
                     price |-> price]]
  BY DEF Bought
<1>4. g[s] = f[s] + n * price /\ \A x \in rest : g[x] = f[x]
  BY <1>3 DEF Books
<1>5. \A x \in Securities : f[x] \in Nat /\ g[x] \in Nat
  BY <1>2, BookFields
<1>6. Invested(book) = SumFunctionOnSet(f, Securities)
      /\ Invested(new) = SumFunctionOnSet(g, Securities)
  BY DEF Invested, SumFunction
<1>7. IsFiniteSet(Securities) /\ IsFiniteSet(rest)
  BY UniverseAssumption, FS_Subset
<1> HIDE DEF f, g, n, new
<1>8. /\ SumFunctionOnSet(f, Securities) = f[s] + SumFunctionOnSet(f, rest)
      /\ SumFunctionOnSet(g, Securities) = g[s] + SumFunctionOnSet(g, rest)
  BY <1>5, <1>7, SumWithout
<1>9. SumFunctionOnSet(f, rest) = SumFunctionOnSet(g, rest)
  BY <1>4, <1>7, SumCongruent
<1>10. SumFunctionOnSet(f, Securities) \in Nat /\ SumFunctionOnSet(f, rest) \in Nat
  BY <1>5, <1>7, SumNat
<1> QED
  BY <1>1, <1>4, <1>5, <1>6, <1>8, <1>9, <1>10 DEF n, new

-----------------------------------------------------------------------------
(* Typed aggregates *)

(* Histories are never empty, and quotes have positive prices, so that a   *)
(* purchase costs something.                                               *)
IsTyped(r) ==
  /\ r \in Runs
  /\ Len(r.managed) > 0 /\ Len(r.benchmark) > 0
  /\ \A q \in r.quotes : q.price > 0

(* A history that is not empty has a newest snapshot.                      *)
LEMMA NewestIsOne ==
  ASSUME NEW S, NEW h \in Seq(S), Len(h) > 0
  PROVE  Newest(h) \in S
BY DEF Newest

(* The fields of an aggregate.                                             *)
LEMMA RunFields ==
  ASSUME NEW r, IsTyped(r)
  PROVE  /\ r.managed \in Seq(Snapshots) /\ r.benchmark \in Seq(Snapshots)
         /\ r.fulfilments \in Seq(Fulfilments) /\ r.executions \in SUBSET Executions
         /\ r.quotes \in SUBSET Quotes /\ r.funding \in SUBSET Times
         /\ r.status \in Statuses
         /\ Managed(r) \in Books /\ Benchmark(r) \in Books
         /\ Cycle(r) \in Buys \cup {NoId}
<1>1. /\ r.managed \in Seq(Snapshots) /\ r.benchmark \in Seq(Snapshots)
      /\ r.fulfilments \in Seq(Fulfilments) /\ r.executions \in SUBSET Executions
      /\ r.quotes \in SUBSET Quotes /\ r.funding \in SUBSET Times
      /\ r.status \in Statuses
  BY DEF IsTyped, Runs
<1>2. Newest(r.managed) \in Snapshots /\ Newest(r.benchmark) \in Snapshots
  BY <1>1, NewestIsOne DEF IsTyped
<1> QED
  BY <1>1, <1>2 DEF Managed, Benchmark, Cycle, Snapshots

(* What commands append are snapshots.                                     *)
LEMMA SnapshotType ==
  ASSUME NEW at \in Times, NEW source \in Times, NEW book \in Books,
         NEW deposit \in {0, Deposit}, NEW cycle \in Buys \cup {NoId}
  PROVE  Snapshot(at, source, book, deposit, cycle) \in Snapshots
BY DEF Snapshot, Snapshots

(* A new run, and the absence of a proposal, are aggregates.               *)
LEMMA NewRunIsTyped == IsTyped(NewRun) /\ NoProposal \in Runs
<1>1. NotHeld \in Positions
  BY DEF NotHeld, Positions
<1>2. [cash |-> InitialCash, held |-> [s \in Securities |-> NotHeld]] \in Books
  BY <1>1, AmountAssumption DEF Books
<1>3. 0 \in Times
  BY TimesAreNumbers DEF Times
<1>4. InitialSnapshot \in Snapshots
  BY <1>2, <1>3 DEF InitialSnapshot, Snapshots
<1>5. <<InitialSnapshot>> \in Seq(Snapshots) /\ <<>> \in Seq(Snapshots)
      /\ <<>> \in Seq(Fulfilments)
  BY <1>4
<1>6. "PENDING_NO_ELIGIBLE_PRICE" \in Statuses
  BY DEF Statuses
<1>7. NewRun \in Runs
  BY <1>3, <1>5, <1>6 DEF NewRun, Runs
<1>8. NoProposal \in Runs
  BY <1>5, <1>7 DEF NoProposal, Runs
<1> QED
  BY <1>7, <1>8 DEF IsTyped, NewRun

-----------------------------------------------------------------------------
(* What commands propose *)

(* What a purchase does to an account.                                     *)
IsPurchase(old, new) ==
  \E spent \in 1..old.cash : /\ new.cash = old.cash - spent
                             /\ Invested(new) = Invested(old) + spent

(* A command adds to the histories it read a purchase of the managed side,  *)
(* a deposit of both or a valuation of both, with a purchase of the         *)
(* benchmark or without.                                                    *)
IsTrade(m, b, p) ==
  \E x \in Snapshots :
    /\ p.managed = Append(m, x) /\ p.benchmark = b
    /\ IsPurchase(Newest(m).book, x.book)

IsDeposit(m, b, p) ==
  \E x, y \in Snapshots :
    /\ p.managed = Append(m, x) /\ p.benchmark = Append(b, y)
    /\ x.at = y.at /\ MayAppend(m, x.at) /\ MayAppend(b, x.at)
    /\ x.deposit = Deposit /\ y.deposit = Deposit
    /\ x.book = Funded(Newest(m).book) /\ y.book = Funded(Newest(b).book)

IsValuation(m, b, p) ==
  \E x, y \in Snapshots :
    /\ p.managed = Append(m, x) /\ p.benchmark = Append(b, y)
    /\ x.book = Newest(m).book
    /\ y.book = Newest(b).book \/ IsPurchase(Newest(b).book, y.book)

IsMove(m, b, p) ==
  \/ p.managed = m /\ p.benchmark = b
  \/ IsTrade(m, b, p) \/ IsDeposit(m, b, p) \/ IsValuation(m, b, p)

IsProposalOf(r, p) == IsTyped(p) /\ IsMove(r.managed, r.benchmark, p)

(* A trade of at least one unit is a purchase.                             *)
LEMMA PurchaseType ==
  ASSUME NEW book \in Books, NEW s \in Securities, NEW weight \in Nat,
         NEW price \in Nat \ {0}, Purchasable(book, s, weight, price) > 0
  PROVE  IsPurchase(book, Bought(book, s, weight, price))
<1> DEFINE spent == Purchasable(book, s, weight, price) * price
<1>1. spent \in 0..book.cash /\ spent > 0 /\ book.cash \in Nat
  BY PurchaseIsPaid, BookFields
<1>2. Bought(book, s, weight, price).cash = book.cash - spent
  BY BoughtType
<1>3. Invested(Bought(book, s, weight, price)) = Invested(book) + spent
  BY InvestedByPurchase
<1> HIDE DEF spent
<1>4. spent \in 1..book.cash
  BY <1>1
<1> QED
  BY <1>2, <1>3, <1>4 DEF IsPurchase

(* An appended history is a history.                                       *)
LEMMA HistoryAppended ==
  ASSUME NEW h \in Seq(Snapshots), NEW x \in Snapshots
  PROVE  Append(h, x) \in Seq(Snapshots) /\ Len(Append(h, x)) > 0
OBVIOUS

(* ApplyCashEvent deposits on both sides at one time stamp.                *)
LEMMA CashEventIsProposal ==
  ASSUME NEW r, IsTyped(r), NEW at \in Times, NEW source \in Times,
         MayAppend(r.managed, at), MayAppend(r.benchmark, at)
  PROVE  IsProposalOf(r, [r EXCEPT
           !.managed   = Append(@, Snapshot(at, source, Funded(Managed(r)), Deposit, Cycle(r))),
           !.benchmark = Append(@, Snapshot(at, source, Funded(Benchmark(r)), Deposit, NoId)),
           !.funding   = @ \cup {at},
           !.status    = "PENDING_NO_ELIGIBLE_PRICE"])
<1> DEFINE x == Snapshot(at, source, Funded(Managed(r)), Deposit, Cycle(r))
           y == Snapshot(at, source, Funded(Benchmark(r)), Deposit, NoId)
           p == [r EXCEPT !.managed = Append(@, x), !.benchmark = Append(@, y),
                          !.funding = @ \cup {at},
                          !.status = "PENDING_NO_ELIGIBLE_PRICE"]
<1>1. \A book \in Books : Funded(book) \in Books
  BY TimesAreNumbers DEF Funded, Books
<1>2. x \in Snapshots /\ y \in Snapshots
  BY <1>1, RunFields, SnapshotType
<1>3. /\ x.at = at /\ y.at = at /\ x.deposit = Deposit /\ y.deposit = Deposit
      /\ x.book = Funded(Managed(r)) /\ y.book = Funded(Benchmark(r))
  BY DEF Snapshot
<1> HIDE DEF x, y
<1>4. r \in Runs
  BY DEF IsTyped
<1>5. /\ p.managed = Append(r.managed, x) /\ p.benchmark = Append(r.benchmark, y)
      /\ p.quotes = r.quotes
  BY <1>4 DEF Runs
<1>6. IsTyped(p)
  <2>1. /\ p.managed \in Seq(Snapshots) /\ Len(p.managed) > 0
        /\ p.benchmark \in Seq(Snapshots) /\ Len(p.benchmark) > 0
    BY <1>2, <1>5, RunFields, HistoryAppended
  <2>2. p \in Runs
    BY <1>4, <1>5, <2>1, RunFields DEF Runs, Statuses
  <2> QED
    BY <1>5, <2>1, <2>2 DEF IsTyped
<1>7. IsDeposit(r.managed, r.benchmark, p)
  BY <1>2, <1>3, <1>5 DEF IsDeposit, Managed, Benchmark
<1> QED
  BY <1>6, <1>7 DEF IsProposalOf, IsMove, x, y

(* A fulfilment without a fill only changes the status.                    *)
LEMMA StatusIsProposal ==
  ASSUME NEW r, IsTyped(r), NEW status \in Statuses
  PROVE  IsProposalOf(r, [r EXCEPT !.status = status])
BY DEF IsProposalOf, IsMove, IsTyped, Runs

(* A fill values the managed side and trades the benchmark.                *)
LEMMA FillIsProposal ==
  ASSUME NEW r, IsTyped(r), NEW at \in Times, NEW quote \in r.quotes,
         Purchasable(Benchmark(r), Spy, 100, quote.price) > 0
  PROVE  LET book == Bought(Benchmark(r), Spy, 100, quote.price)
         IN IsProposalOf(r, [r EXCEPT
              !.managed     = Append(@, Snapshot(at, quote.at, Managed(r), 0, Cycle(r))),
              !.benchmark   = Append(@, Snapshot(at, quote.at, book, 0, NoId)),
              !.fulfilments = Append(@, [at |-> at, quote |-> quote, book |-> book]),
              !.status      = "FULFILLED"])
<1> DEFINE book == Bought(Benchmark(r), Spy, 100, quote.price)
           x == Snapshot(at, quote.at, Managed(r), 0, Cycle(r))
           y == Snapshot(at, quote.at, book, 0, NoId)
           fill == [at |-> at, quote |-> quote, book |-> book]
           p == [r EXCEPT !.managed = Append(@, x), !.benchmark = Append(@, y),
                          !.fulfilments = Append(@, fill), !.status = "FULFILLED"]
<1>1. quote \in Quotes /\ quote.at \in Times /\ quote.price \in Nat \ {0}
  BY RunFields DEF IsTyped, Quotes
<1>2. book \in Books /\ IsPurchase(Benchmark(r), book)
  BY <1>1, RunFields, BoughtType, PurchaseType, SecurityAssumption
<1> HIDE DEF book
<1>3. x \in Snapshots /\ y \in Snapshots
  BY <1>1, <1>2, RunFields, SnapshotType
<1>4. x.book = Managed(r) /\ y.book = book
  BY DEF Snapshot
<1>5. fill \in Fulfilments
  BY <1>1, <1>2 DEF Fulfilments
<1> HIDE DEF x, y, fill
<1>6. r \in Runs
  BY DEF IsTyped
<1>7. /\ p.managed = Append(r.managed, x) /\ p.benchmark = Append(r.benchmark, y)
      /\ p.fulfilments = Append(r.fulfilments, fill) /\ p.quotes = r.quotes
  BY <1>6 DEF Runs
<1>8. IsTyped(p)
  <2>1. /\ p.managed \in Seq(Snapshots) /\ Len(p.managed) > 0
        /\ p.benchmark \in Seq(Snapshots) /\ Len(p.benchmark) > 0
        /\ p.fulfilments \in Seq(Fulfilments)
    BY <1>3, <1>5, <1>7, RunFields, HistoryAppended
  <2>2. p \in Runs
    BY <1>6, <1>7, <2>1, RunFields DEF Runs, Statuses
  <2> QED
    BY <1>7, <2>1, <2>2 DEF IsTyped
<1>9. IsValuation(r.managed, r.benchmark, p)
  BY <1>2, <1>3, <1>4, <1>7 DEF IsValuation, Managed, Benchmark
<1> QED
  BY <1>8, <1>9 DEF IsProposalOf, IsMove, book, x, y, fill

(* Positions are marked at one of the provider's times.                    *)
LEMMA MarkTime ==
  ASSUME NEW r, NEW feed \in Feeds, HeldByEither(r) # {}
  PROVE  Max({feed[s].at : s \in HeldByEither(r)}) \in Times
<1> DEFINE S == {feed[s].at : s \in HeldByEither(r)}
<1>1. HeldByEither(r) \subseteq Securities
  BY DEF HeldByEither, Held
<1>2. \A s \in Securities : feed[s].at \in Times
  BY SecurityAssumption, TimesAreNumbers DEF Times
<1>3. S \in SUBSET Times /\ S # {}
  BY <1>1, <1>2
<1> HIDE DEF S
<1>4. Max(S) \in Times
  BY <1>3, MaxIsGreatest
<1> QED
  BY <1>4 DEF S

(* RefreshPrices adds quotes, and values both sides when it marks.         *)
LEMMA RefreshIsProposal ==
  ASSUME NEW r, IsTyped(r), NEW feed \in Feeds
  PROVE  IsProposalOf(r, Refreshed(r, feed))
<1> DEFINE with == [r EXCEPT !.quotes = @ \cup QuotesOf(feed)]
<1>0. r \in Runs
  BY DEF IsTyped
<1>1. QuotesOf(feed) \subseteq Quotes /\ \A q \in QuotesOf(feed) : q.price > 0
  <2>1. \A s \in Securities : feed[s].at \in Times /\ feed[s].price \in Nat \ {0}
    BY SecurityAssumption, TimesAreNumbers DEF Times
  <2> QED
    BY <2>1 DEF QuotesOf, Quotes
<1>2. /\ with.managed = r.managed /\ with.benchmark = r.benchmark
      /\ with.quotes = r.quotes \cup QuotesOf(feed)
  BY <1>0 DEF Runs
<1>3. IsTyped(with)
  <2>1. with \in Runs
    BY <1>0, <1>1 DEF Runs
  <2> QED
    BY <1>1, <1>2, <2>1 DEF IsTyped
<1> HIDE DEF with
<1>4. CASE Refreshed(r, feed) = with
  BY <1>2, <1>3, <1>4 DEF IsProposalOf, IsMove
<1> DEFINE at == Max({feed[s].at : s \in HeldByEither(with)})
           x == Snapshot(at, at, Managed(with), 0, Cycle(with))
           y == Snapshot(at, at, Benchmark(with), 0, NoId)
           p == [with EXCEPT !.managed = Append(@, x), !.benchmark = Append(@, y)]
<1>5. CASE MarksToMarket(r, feed) /\ Refreshed(r, feed) = p
  <2>1. HeldByEither(with) # {}
    <3>1. HeldByEither(with) = HeldByEither(r)
      BY <1>2 DEF HeldByEither, Managed, Benchmark
    <3> QED
      BY <1>5, <3>1 DEF MarksToMarket
  <2>2. at \in Times
    BY <2>1, MarkTime
  <2> HIDE DEF at
  <2>3. x \in Snapshots /\ y \in Snapshots
    BY <1>3, <2>2, RunFields, SnapshotType
  <2>4. x.book = Managed(r) /\ y.book = Benchmark(r)
    BY <1>2 DEF Snapshot, Managed, Benchmark
  <2> HIDE DEF x, y
  <2>5. with \in Runs
    BY <1>3 DEF IsTyped
  <2>6. /\ p.managed = Append(r.managed, x) /\ p.benchmark = Append(r.benchmark, y)
        /\ p.quotes = with.quotes
    BY <1>2, <2>5 DEF Runs
  <2>7. IsTyped(p)
    <3>1. /\ p.managed \in Seq(Snapshots) /\ Len(p.managed) > 0
          /\ p.benchmark \in Seq(Snapshots) /\ Len(p.benchmark) > 0
      BY <2>3, <2>6, RunFields, HistoryAppended
    <3>2. p \in Runs
      BY <2>5, <2>6, <3>1 DEF Runs
    <3> QED
      BY <1>3, <2>6, <3>1, <3>2 DEF IsTyped
  <2>8. IsValuation(r.managed, r.benchmark, p)
    BY <2>3, <2>4, <2>6 DEF IsValuation, Managed, Benchmark
  <2> QED
    BY <1>5, <2>7, <2>8 DEF IsProposalOf, IsMove
<1>6. \/ Refreshed(r, feed) = with
      \/ MarksToMarket(r, feed) /\ Refreshed(r, feed) = p
  BY DEF Refreshed, Marked, with
<1> QED
  BY <1>4, <1>5, <1>6

(* A feasible trade is a purchase of the managed side.                     *)
LEMMA TradeIsProposal ==
  ASSUME NEW r, IsTyped(r), NEW buy \in Buys, NEW at \in Times,
         NEW quote \in r.quotes,
         FullyFeasible(Managed(r), buy.security, buy.weight, quote.price)
  PROVE  LET book == Bought(Managed(r), buy.security, buy.weight, quote.price)
         IN IsProposalOf(r, [r EXCEPT
              !.managed    = Append(@, Snapshot(at, quote.at, book, 0, buy)),
              !.executions = @ \cup {[buy |-> buy, at |-> at, quote |-> quote]}])
<1> DEFINE book == Bought(Managed(r), buy.security, buy.weight, quote.price)
           x == Snapshot(at, quote.at, book, 0, buy)
           trade == [buy |-> buy, at |-> at, quote |-> quote]
           p == [r EXCEPT !.managed = Append(@, x), !.executions = @ \cup {trade}]
<1>1. quote \in Quotes /\ quote.at \in Times /\ quote.price \in Nat \ {0}
  BY RunFields DEF IsTyped, Quotes
<1>2. buy.security \in Securities /\ buy.weight \in Nat
  BY SecurityAssumption
<1>3. book \in Books /\ IsPurchase(Managed(r), book)
  BY <1>1, <1>2, RunFields, BoughtType, PurchaseType DEF FullyFeasible
<1> HIDE DEF book
<1>4. x \in Snapshots /\ x.book = book
  BY <1>1, <1>3, SnapshotType DEF Snapshot
<1>5. trade \in Executions
  BY <1>1 DEF Executions
<1> HIDE DEF x, trade
<1>6. r \in Runs
  BY DEF IsTyped
<1>7. /\ p.managed = Append(r.managed, x) /\ p.benchmark = r.benchmark
      /\ p.executions = r.executions \cup {trade} /\ p.quotes = r.quotes
  BY <1>6 DEF Runs
<1>8. IsTyped(p)
  <2>1. p.managed \in Seq(Snapshots) /\ Len(p.managed) > 0
    BY <1>4, <1>7, RunFields, HistoryAppended
  <2>2. p \in Runs
    BY <1>5, <1>6, <1>7, <2>1, RunFields DEF Runs
  <2> QED
    BY <1>7, <2>1, <2>2 DEF IsTyped
<1>9. IsTrade(r.managed, r.benchmark, p)
  BY <1>3, <1>4, <1>7 DEF IsTrade, Managed
<1> QED
  BY <1>8, <1>9 DEF IsProposalOf, IsMove, book, x, trade

-----------------------------------------------------------------------------
(* The invariant on what is pending *)

(* The histories a proposal was computed from are still there: the         *)
(* current run only added to them.                                         *)
IsOfEarlierRun(p, r) ==
  \E m, b \in Seq(Snapshots) :
    /\ Len(m) > 0 /\ Len(b) > 0
    /\ RequireHistoryPrefix(m, r.managed) /\ RequireHistoryPrefix(b, r.benchmark)
    /\ IsMove(m, b, p)

(* The run and what is about to be saved are typed, and every proposal is  *)
(* a move of histories the current run still begins with.                  *)
AccountInv ==
  /\ IsTyped(run)
  /\ proposals \in [Threads -> Runs]
  /\ \A t \in Threads : proposals[t] # NoProposal =>
       IsTyped(proposals[t]) /\ IsOfEarlierRun(proposals[t], run)

(* A prefix of a prefix is one.                                            *)
LEMMA PrefixIsTransitive ==
  ASSUME NEW S, NEW g \in Seq(S), NEW h \in Seq(S), NEW k \in Seq(S),
         RequireHistoryPrefix(g, h), RequireHistoryPrefix(h, k)
  PROVE  RequireHistoryPrefix(g, k)
<1>1. Len(g) \in Nat /\ Len(h) \in Nat /\ Len(k) \in Nat
  OBVIOUS
<1>2. Len(g) <= Len(h) /\ Len(h) <= Len(k)
  BY DEF RequireHistoryPrefix
<1>3. \A i \in 1..Len(g) : i \in 1..Len(h)
  BY <1>1, <1>2
<1>4. \A i \in 1..Len(g) : k[i] = g[i]
  BY <1>3 DEF RequireHistoryPrefix
<1> QED
  BY <1>1, <1>2, <1>4 DEF RequireHistoryPrefix

(* A history extends itself.                                               *)
LEMMA PrefixOfItself ==
  ASSUME NEW S, NEW h \in Seq(S)
  PROVE  RequireHistoryPrefix(h, h)
BY DEF RequireHistoryPrefix

(* Nothing lies between a history and the one with one snapshot more.      *)
LEMMA NothingBetween ==
  ASSUME NEW S, NEW g \in Seq(S), NEW h \in Seq(S), NEW x \in S,
         RequireHistoryPrefix(g, h), RequireHistoryPrefix(h, Append(g, x))
  PROVE  h = g \/ h = Append(g, x)
<1> DEFINE k == Append(g, x)
<1>1. k \in Seq(S) /\ Len(k) = Len(g) + 1 /\ \A i \in 1..Len(g) : k[i] = g[i]
  OBVIOUS
<1>2. Len(g) \in Nat /\ Len(h) \in Nat /\ Len(g) <= Len(h) /\ Len(h) <= Len(k)
  BY DEF RequireHistoryPrefix
<1> HIDE DEF k
<1>3. Len(h) = Len(g) \/ Len(h) = Len(k)
  BY <1>1, <1>2
<1>4. CASE Len(h) = Len(g)
  <2>1. \A i \in 1..Len(g) : h[i] = g[i]
    BY DEF RequireHistoryPrefix
  <2> QED
    BY <1>4, <2>1
<1>5. CASE Len(h) = Len(k)
  <2>1. \A i \in 1..Len(h) : k[i] = h[i]
    BY DEF RequireHistoryPrefix, k
  <2> QED
    BY <1>1, <1>5, <2>1 DEF k
<1> QED
  BY <1>3, <1>4, <1>5

(* Histories that extend each other are equal.                             *)
LEMMA EqualPrefix ==
  ASSUME NEW S, NEW g \in Seq(S), NEW h \in Seq(S),
         RequireHistoryPrefix(g, h), RequireHistoryPrefix(h, g)
  PROVE  h = g
<1>1. Len(g) \in Nat /\ Len(h) \in Nat /\ Len(g) <= Len(h) /\ Len(h) <= Len(g)
  BY DEF RequireHistoryPrefix
<1>2. \A i \in 1..Len(g) : h[i] = g[i]
  BY DEF RequireHistoryPrefix
<1> QED
  BY <1>1, <1>2

(* A move of the current histories may be proposed.                        *)
LEMMA ProposalIsOfRun ==
  ASSUME AccountInv, NEW t \in Threads, NEW p, IsProposalOf(run, p), Proposes(t, p)
  PROVE  AccountInv'
<1>1. IsTyped(run) /\ run' = run
  BY DEF AccountInv, Proposes
<1>2. /\ run.managed \in Seq(Snapshots) /\ run.benchmark \in Seq(Snapshots)
      /\ Len(run.managed) > 0 /\ Len(run.benchmark) > 0
  BY <1>1, RunFields DEF IsTyped
<1>3. IsTyped(p) /\ IsOfEarlierRun(p, run) /\ p \in Runs
  BY <1>2, PrefixOfItself DEF IsProposalOf, IsOfEarlierRun, IsTyped
<1>4. proposals' = [proposals EXCEPT ![t] = p] /\ proposals \in [Threads -> Runs]
  BY DEF Proposes, AccountInv
<1>5. ASSUME NEW u \in Threads, proposals'[u] # NoProposal
      PROVE  IsTyped(proposals'[u]) /\ IsOfEarlierRun(proposals'[u], run)
  BY <1>3, <1>4, <1>5 DEF AccountInv
<1> QED
  BY <1>1, <1>3, <1>4, <1>5 DEF AccountInv

(* That is all any command proposes.                                       *)
LEMMA CommandProposes ==
  ASSUME IsTyped(run), NEW t \in Threads,
         \/ ApplyCashEvent(t) \/ FulfillBenchmark(t) \/ RefreshPrices(t)
         \/ ExecutePaperTrade(t) \/ OtherCommand(t)
  PROVE  \E p : IsProposalOf(run, p) /\ Proposes(t, p)
<1>1. CASE ApplyCashEvent(t)
  <2>1. PICK at \in Times, source \in Times :
          /\ MayAppend(run.managed, at) /\ MayAppend(run.benchmark, at)
          /\ Proposes(t, [run EXCEPT
               !.managed   = Append(@, Snapshot(at, source, Funded(Managed(run)), Deposit, Cycle(run))),
               !.benchmark = Append(@, Snapshot(at, source, Funded(Benchmark(run)), Deposit, NoId)),
               !.funding   = @ \cup {at},
               !.status    = "PENDING_NO_ELIGIBLE_PRICE"])
    BY <1>1 DEF ApplyCashEvent
  <2> QED
    BY <2>1, CashEventIsProposal
<1>2. CASE FulfillBenchmark(t)
  <2>1. PICK at \in Times :
          \/ \E status \in Statuses : RecordNoAction(t, status)
          \/ /\ EligibleSpy(run, at) # {}
             /\ Purchasable(Benchmark(run), Spy, 100, LatestOf(EligibleSpy(run, at)).price) # 0
             /\ Fulfils(t, LatestOf(EligibleSpy(run, at)), at)
    BY <1>2 DEF FulfillBenchmark, Statuses
  <2>2. CASE \E status \in Statuses : RecordNoAction(t, status)
    BY <2>2, StatusIsProposal DEF RecordNoAction
  <2> DEFINE quote == LatestOf(EligibleSpy(run, at))
             book == Bought(Benchmark(run), Spy, 100, quote.price)
  <2>3. CASE /\ EligibleSpy(run, at) # {}
             /\ Purchasable(Benchmark(run), Spy, 100, quote.price) # 0
             /\ Fulfils(t, quote, at)
    <3>1. EligibleSpy(run, at) \in SUBSET Quotes
      BY RunFields DEF EligibleSpy
    <3>2. quote \in run.quotes
      BY <2>3, <3>1, LatestIsOneOfThem DEF EligibleSpy
    <3> HIDE DEF quote
    <3>3. quote.price \in Nat \ {0}
      BY <3>2, RunFields DEF Quotes, IsTyped
    <3>4. Purchasable(Benchmark(run), Spy, 100, quote.price) \in Nat
      BY <3>3, RunFields, PurchaseIsPaid, SecurityAssumption
    <3>5. Purchasable(Benchmark(run), Spy, 100, quote.price) > 0
      BY <2>3, <3>4
    <3>6. Proposes(t, [run EXCEPT
              !.managed     = Append(@, Snapshot(at, quote.at, Managed(run), 0, Cycle(run))),
              !.benchmark   = Append(@, Snapshot(at, quote.at, book, 0, NoId)),
              !.fulfilments = Append(@, [at |-> at, quote |-> quote, book |-> book]),
              !.status      = "FULFILLED"])
      BY <2>3 DEF Fulfils
    <3> QED
      BY <3>2, <3>5, <3>6, FillIsProposal
  <2> QED
    BY <2>1, <2>2, <2>3
<1>3. CASE RefreshPrices(t)
  BY <1>3, RefreshIsProposal DEF RefreshPrices
<1>4. CASE ExecutePaperTrade(t)
  <2> DEFINE eligible(buy, at) == {q \in run.quotes : /\ q.security = buy.security
                                                      /\ q.at \in buy.at..at}
             quote(buy, at) == LatestOf(eligible(buy, at))
             book(buy, at) == Bought(Managed(run), buy.security, buy.weight, quote(buy, at).price)
  <2>1. PICK buy \in Buys, at \in Times :
          /\ eligible(buy, at) # {}
          /\ FullyFeasible(Managed(run), buy.security, buy.weight, quote(buy, at).price)
          /\ Proposes(t, [run EXCEPT
               !.managed    = Append(@, Snapshot(at, quote(buy, at).at, book(buy, at), 0, buy)),
               !.executions = @ \cup {[buy |-> buy, at |-> at, quote |-> quote(buy, at)]}])
    BY <1>4 DEF ExecutePaperTrade
  <2>2. eligible(buy, at) \in SUBSET Quotes
    BY RunFields
  <2>3. quote(buy, at) \in run.quotes
    BY <2>1, <2>2, LatestIsOneOfThem
  <2> QED
    BY <2>1, <2>3, TradeIsProposal
<1>5. CASE OtherCommand(t)
  <2>1. IsProposalOf(run, run)
    BY DEF IsProposalOf, IsMove
  <2> QED
    BY <1>5, <2>1 DEF OtherCommand
<1> QED
  BY <1>1, <1>2, <1>3, <1>4, <1>5

(* A commit that is taken extends the histories, so what the other threads *)
(* have read is still a prefix of them.                                    *)
LEMMA AccountInvHolds == Spec => []AccountInv
<1>1. Init => AccountInv
  BY NewRunIsTyped DEF Init, AccountInv
<1>2. AccountInv /\ [Next]_vars => AccountInv'
  <2> SUFFICES ASSUME AccountInv, [Next]_vars PROVE AccountInv'
    OBVIOUS
  <2>1. IsTyped(run)
    BY DEF AccountInv
  <2>2. ASSUME NEW t \in Threads,
               \/ ApplyCashEvent(t) \/ FulfillBenchmark(t) \/ RefreshPrices(t)
               \/ ExecutePaperTrade(t) \/ OtherCommand(t)
        PROVE  AccountInv'
    BY <2>1, <2>2, CommandProposes, ProposalIsOfRun
  <2>3. ASSUME NEW t \in Threads, SaveTransition(t)
        PROVE  AccountInv'
    <3>1. /\ proposals[t] # NoProposal
          /\ proposals' = [proposals EXCEPT ![t] = NoProposal]
          /\ \/ Accepts(run, proposals[t]) /\ run' = proposals[t]
             \/ run' = run
      BY <2>3 DEF SaveTransition
    <3>2. IsTyped(run') /\ IsTyped(run)
      BY <3>1 DEF AccountInv
    <3>3. /\ RequireHistoryPrefix(run.managed, run'.managed)
          /\ RequireHistoryPrefix(run.benchmark, run'.benchmark)
      <4>1. run.managed \in Seq(Snapshots) /\ run.benchmark \in Seq(Snapshots)
        BY <3>2, RunFields
      <4> QED
        BY <3>1, <4>1, PrefixOfItself DEF Accepts
    <3>4. ASSUME NEW p, IsOfEarlierRun(p, run)
          PROVE  IsOfEarlierRun(p, run')
      <4>1. PICK m \in Seq(Snapshots), b \in Seq(Snapshots) :
              /\ Len(m) > 0 /\ Len(b) > 0
              /\ RequireHistoryPrefix(m, run.managed)
              /\ RequireHistoryPrefix(b, run.benchmark)
              /\ IsMove(m, b, p)
        BY <3>4 DEF IsOfEarlierRun
      <4>2. /\ run.managed \in Seq(Snapshots) /\ run.benchmark \in Seq(Snapshots)
            /\ run'.managed \in Seq(Snapshots) /\ run'.benchmark \in Seq(Snapshots)
        BY <3>2, RunFields
      <4>3. /\ RequireHistoryPrefix(m, run'.managed)
            /\ RequireHistoryPrefix(b, run'.benchmark)
        BY <3>3, <4>1, <4>2, PrefixIsTransitive
      <4> QED
        BY <4>1, <4>3 DEF IsOfEarlierRun
    <3>5. ASSUME NEW u \in Threads, proposals'[u] # NoProposal
          PROVE  proposals'[u] = proposals[u] /\ proposals[u] # NoProposal
      BY <3>1, <3>5 DEF AccountInv
    <3>6. proposals' \in [Threads -> Runs]
      BY <3>1, NewRunIsTyped DEF AccountInv
    <3>7. ASSUME NEW u \in Threads, proposals'[u] # NoProposal
          PROVE  IsTyped(proposals'[u]) /\ IsOfEarlierRun(proposals'[u], run')
      BY <3>4, <3>5, <3>7 DEF AccountInv
    <3> QED
      BY <3>2, <3>6, <3>7 DEF AccountInv
  <2>4. CASE UNCHANGED vars
    BY <2>4 DEF vars, AccountInv
  <2> QED
    BY <2>2, <2>3, <2>4 DEF Next
<1> QED
  BY <1>1, <1>2, PTL DEF Spec

(***************************************************************************)
(* Neither side ever has negative cash or a negative position, in the run  *)
(* or in what a thread is about to save: a purchase is cut down to the     *)
(* cash of the portfolio it was computed on.                               *)
(***************************************************************************)
THEOREM LedgerTypes == Spec => []TypeOK
<1>1. AccountInv => TypeOK
  BY DEF AccountInv, IsTyped, TypeOK
<1> QED
  BY <1>1, AccountInvHolds, PTL

-----------------------------------------------------------------------------
(* The accounts *)

(* Two histories end with the same portfolio.                              *)
SameBook(g, h) == Newest(g).book = Newest(h).book

(* What a save may do to the accounts.                                     *)
IsAccountStep(r, p) ==
  \/ SameBook(r.managed, p.managed) /\ SameBook(r.benchmark, p.benchmark)
  \/ /\ Managed(p) = Funded(Managed(r)) /\ Benchmark(p) = Funded(Benchmark(r))
  \/ IsPurchase(Managed(r), Managed(p)) /\ SameBook(r.benchmark, p.benchmark)
  \/ SameBook(r.managed, p.managed) /\ IsPurchase(Benchmark(r), Benchmark(p))

(* The newest snapshot is the last one appended.                           *)
LEMMA NewestOfAppend ==
  ASSUME NEW S, NEW h \in Seq(S), NEW x \in S
  PROVE  Newest(Append(h, x)) = x
<1>1. Len(Append(h, x)) = Len(h) + 1 /\ Append(h, x)[Len(h) + 1] = x
  OBVIOUS
<1> QED
  BY <1>1 DEF Newest

(* A deposit one side already has, the other has: what is saved late is    *)
(* there as a whole or not at all.                                         *)
LEMMA DepositOfBoth ==
  ASSUME NEW r, IsSound(r), NEW m \in Seq(Snapshots), NEW b \in Seq(Snapshots),
         NEW x \in Snapshots, NEW y \in Snapshots, x.at = y.at,
         x.deposit = Deposit, y.deposit = Deposit,
         MayAppend(m, x.at), MayAppend(b, x.at)
  PROVE  /\ ~(r.managed = m /\ r.benchmark = Append(b, y))
         /\ ~(r.managed = Append(m, x) /\ r.benchmark = b)
<1>1. Deposit > 0 /\ x.at \in Nat
  <2>1. Deposit \in Nat \ {0}
    BY AmountAssumption
  <2>2. Deposit > 0
    BY <2>1
  <2>3. x.at \in Times
    BY DEF Snapshots
  <2>4. x.at \in Nat
    BY <2>3, TimesAreNumbers
  <2> QED
    BY <2>2, <2>4
<1>2. ASSUME NEW h, IsHistory(h), MayAppend(h, x.at), NEW i \in 1..Len(h)
      PROVE  h[i].at # x.at
  <2>1. /\ h[i].at \in Nat /\ h[i].at <= LastAt(h)
        /\ LastAt(h) \in Nat /\ x.at > LastAt(h)
    BY <1>2, HistoryType, TimesAreNumbers DEF MayAppend
  <2> QED
    BY <1>1, <2>1
<1>3. /\ IsHistory(r.managed) /\ IsHistory(r.benchmark)
      /\ AreCoupled(r.managed, r.benchmark)
  BY DEF IsSound
<1>4. ASSUME r.managed = m, r.benchmark = Append(b, y)
      PROVE  FALSE
  <2>1. /\ Len(b) + 1 \in 1..Len(r.benchmark)
        /\ r.benchmark[Len(b) + 1] = y
    BY <1>4
  <2>2. PICK i \in 1..Len(r.managed) : Paired(r.managed[i], y)
    BY <1>3, <2>1 DEF AreCoupled
  <2> QED
    BY <1>2, <1>3, <1>4, <2>2 DEF Paired
<1>5. ASSUME r.managed = Append(m, x), r.benchmark = b
      PROVE  FALSE
  <2>1. /\ Len(m) + 1 \in 1..Len(r.managed)
        /\ r.managed[Len(m) + 1] = x
    BY <1>5
  <2>2. PICK j \in 1..Len(r.benchmark) : Paired(x, r.benchmark[j])
    BY <1>1, <1>3, <2>1 DEF AreCoupled
  <2> QED
    BY <1>2, <1>3, <1>5, <2>2 DEF Paired
<1> QED
  BY <1>4, <1>5

(* What was computed on older histories is accepted only when they are     *)
(* still current, or when the run already has all it adds.                 *)
LEMMA SaveIsAccountStep ==
  ASSUME NEW r, IsSound(r), IsTyped(r), NEW p, IsTyped(p), IsOfEarlierRun(p, r),
         Accepts(r, p)
  PROVE  IsAccountStep(r, p)
<1>1. PICK m \in Seq(Snapshots), b \in Seq(Snapshots) :
        /\ Len(m) > 0 /\ Len(b) > 0
        /\ RequireHistoryPrefix(m, r.managed)
        /\ RequireHistoryPrefix(b, r.benchmark)
        /\ IsMove(m, b, p)
  BY DEF IsOfEarlierRun
<1>2. /\ r.managed \in Seq(Snapshots) /\ r.benchmark \in Seq(Snapshots)
      /\ RequireHistoryPrefix(r.managed, p.managed)
      /\ RequireHistoryPrefix(r.benchmark, p.benchmark)
  BY RunFields DEF Accepts
<1>3. CASE p.managed = m /\ p.benchmark = b
  <2>1. r.managed = m /\ r.benchmark = b
    BY <1>1, <1>2, <1>3, EqualPrefix
  <2> QED
    BY <1>3, <2>1 DEF IsAccountStep, SameBook
<1>4. CASE IsTrade(m, b, p)
  <2>1. PICK x \in Snapshots :
          /\ p.managed = Append(m, x) /\ p.benchmark = b
          /\ IsPurchase(Newest(m).book, x.book)
    BY <1>4 DEF IsTrade
  <2>2. r.benchmark = b /\ (r.managed = m \/ r.managed = p.managed)
    BY <1>1, <1>2, <2>1, EqualPrefix, NothingBetween
  <2>3. Newest(p.managed) = x
    BY <2>1, NewestOfAppend
  <2> QED
    BY <2>1, <2>2, <2>3 DEF IsAccountStep, SameBook, Managed
<1>5. CASE IsDeposit(m, b, p)
  <2>1. PICK x \in Snapshots, y \in Snapshots :
          /\ p.managed = Append(m, x) /\ p.benchmark = Append(b, y)
          /\ x.at = y.at /\ MayAppend(m, x.at) /\ MayAppend(b, x.at)
          /\ x.deposit = Deposit /\ y.deposit = Deposit
          /\ x.book = Funded(Newest(m).book) /\ y.book = Funded(Newest(b).book)
    BY <1>5 DEF IsDeposit
  <2>2. /\ r.managed = m \/ r.managed = p.managed
        /\ r.benchmark = b \/ r.benchmark = p.benchmark
    BY <1>1, <1>2, <2>1, NothingBetween
  <2>3. Newest(p.managed) = x /\ Newest(p.benchmark) = y
    BY <2>1, NewestOfAppend
  <2>4. \/ r.managed = m /\ r.benchmark = b
        \/ r.managed = p.managed /\ r.benchmark = p.benchmark
    BY <2>1, <2>2, DepositOfBoth
  <2> QED
    BY <2>1, <2>3, <2>4 DEF IsAccountStep, SameBook, Managed, Benchmark
<1>6. CASE IsValuation(m, b, p)
  <2>1. PICK x \in Snapshots, y \in Snapshots :
          /\ p.managed = Append(m, x) /\ p.benchmark = Append(b, y)
          /\ x.book = Newest(m).book
          /\ y.book = Newest(b).book \/ IsPurchase(Newest(b).book, y.book)
    BY <1>6 DEF IsValuation
  <2>2. /\ r.managed = m \/ r.managed = p.managed
        /\ r.benchmark = b \/ r.benchmark = p.benchmark
    BY <1>1, <1>2, <2>1, NothingBetween
  <2>3. Newest(p.managed) = x /\ Newest(p.benchmark) = y
    BY <2>1, NewestOfAppend
  <2> QED
    BY <2>1, <2>2, <2>3 DEF IsAccountStep, SameBook, Managed, Benchmark
<1> QED
  BY <1>1, <1>3, <1>4, <1>5, <1>6 DEF IsMove

(* The state of PairedAccounts a run stands for.                           *)
CashOf(r) == [s \in Sides |-> Newest(r[s]).book.cash]

InvestedOf(r) == [s \in Sides |-> Invested(Newest(r[s]).book)]

(* The two sides of it.                                                    *)
LEMMA SideBooks ==
  ASSUME NEW r
  PROVE  /\ CashOf(r) = [s \in Sides |-> IF s = "managed" THEN Managed(r).cash
                                         ELSE Benchmark(r).cash]
         /\ InvestedOf(r) = [s \in Sides |->
              IF s = "managed" THEN Invested(Managed(r)) ELSE Invested(Benchmark(r))]
BY DEF CashOf, InvestedOf, Sides, Managed, Benchmark

(* Such a save is a step of PairedAccounts.                                *)
LEMMA AccountsStep ==
  ASSUME IsTyped(run), IsTyped(run'), IsAccountStep(run, run')
  PROVE  Accounts!Next \/ UNCHANGED <<CashOf(run), InvestedOf(run)>>
<1>1. /\ Managed(run) \in Books /\ Benchmark(run) \in Books
      /\ Managed(run') \in Books /\ Benchmark(run') \in Books
  BY RunFields
<1>2. CASE /\ SameBook(run.managed, run'.managed)
           /\ SameBook(run.benchmark, run'.benchmark)
  BY <1>2, SideBooks DEF SameBook, Managed, Benchmark
<1>3. CASE /\ Managed(run') = Funded(Managed(run))
           /\ Benchmark(run') = Funded(Benchmark(run))
  <2>1. ASSUME NEW book \in Books
        PROVE  /\ Funded(book).cash = book.cash + Deposit
               /\ Funded(book).held = book.held
    BY DEF Funded, Books
  <2>2. ASSUME NEW book \in Books
        PROVE  Invested(Funded(book)) = Invested(book)
    BY <2>1 DEF Invested
  <2>3. /\ Managed(run').cash = Managed(run).cash + Deposit
        /\ Benchmark(run').cash = Benchmark(run).cash + Deposit
        /\ Invested(Managed(run')) = Invested(Managed(run))
        /\ Invested(Benchmark(run')) = Invested(Benchmark(run))
    BY <1>1, <1>3, <2>1, <2>2
  <2>4. CashOf(run') = [s \in Sides |-> CashOf(run)[s] + Deposit]
    BY <2>3, SideBooks
  <2>5. InvestedOf(run') = InvestedOf(run)
    BY <2>3, SideBooks
  <2> QED
    BY <2>4, <2>5 DEF Accounts!Next, Accounts!ReceiveCashEvent, CashOf, InvestedOf
<1>4. CASE /\ IsPurchase(Managed(run), Managed(run'))
           /\ SameBook(run.benchmark, run'.benchmark)
  <2>1. PICK spent \in 1..Managed(run).cash :
          /\ Managed(run').cash = Managed(run).cash - spent
          /\ Invested(Managed(run')) = Invested(Managed(run)) + spent
    BY <1>4 DEF IsPurchase
  <2>2. Benchmark(run') = Benchmark(run)
    BY <1>4 DEF SameBook, Benchmark
  <2>3. "managed" \in Sides /\ spent \in 1..CashOf(run)["managed"]
    BY <2>1, SideBooks DEF Sides
  <2>4. /\ CashOf(run') = [CashOf(run) EXCEPT !["managed"] = @ - spent]
        /\ InvestedOf(run') = [InvestedOf(run) EXCEPT !["managed"] = @ + spent]
    BY <2>1, <2>2, SideBooks DEF Sides
  <2>5. Accounts!Invest("managed")
    BY <2>3, <2>4 DEF Accounts!Invest, CashOf, InvestedOf
  <2> QED
    BY <2>3, <2>5 DEF Accounts!Next
<1>5. CASE /\ SameBook(run.managed, run'.managed)
           /\ IsPurchase(Benchmark(run), Benchmark(run'))
  <2>1. PICK spent \in 1..Benchmark(run).cash :
          /\ Benchmark(run').cash = Benchmark(run).cash - spent
          /\ Invested(Benchmark(run')) = Invested(Benchmark(run)) + spent
    BY <1>5 DEF IsPurchase
  <2>2. Managed(run') = Managed(run)
    BY <1>5 DEF SameBook, Managed
  <2>3. "benchmark" \in Sides /\ spent \in 1..CashOf(run)["benchmark"]
    BY <2>1, SideBooks DEF Sides
  <2>4. /\ CashOf(run') = [CashOf(run) EXCEPT !["benchmark"] = @ - spent]
        /\ InvestedOf(run') = [InvestedOf(run) EXCEPT !["benchmark"] = @ + spent]
    BY <2>1, <2>2, SideBooks DEF Sides
  <2>5. Accounts!Invest("benchmark")
    BY <2>3, <2>4 DEF Accounts!Invest, CashOf, InvestedOf
  <2> QED
    BY <2>3, <2>5 DEF Accounts!Next
<1> QED
  BY <1>2, <1>3, <1>4, <1>5 DEF IsAccountStep

(* The ledger starts with the initial cash and no positions.               *)
LEMMA AccountsInit == Init => Accounts!Init
<1> SUFFICES ASSUME Init PROVE Accounts!Init
  OBVIOUS
<1>1. Newest(run.managed) = InitialSnapshot /\ Newest(run.benchmark) = InitialSnapshot
  BY DEF Init, NewRun, Newest
<1> DEFINE f == [s \in Securities |-> 0]
           book == InitialSnapshot.book
<1>2. book.cash = InitialCash /\ Invested(book) = SumFunctionOnSet(f, Securities)
  BY DEF InitialSnapshot, Invested, NotHeld, SumFunction
<1>3. SumFunctionOnSet(f, Securities) = 0
  <2>1. /\ {} \in SUBSET Securities /\ IsFiniteSet(Securities)
        /\ \A s \in Securities : f[s] \in Int
        /\ \A s \in Securities \ {} : f[s] = 0
    BY UniverseAssumption
  <2>2. SumFunctionOnSet(f, Securities) = SumFunctionOnSet(f, {})
    <3> HIDE DEF f
    <3> QED
      BY <2>1, SumOfNonzero
  <2> QED
    BY <2>2, SumEmpty
<1>4. /\ Managed(run).cash = InitialCash /\ Benchmark(run).cash = InitialCash
      /\ Invested(Managed(run)) = 0 /\ Invested(Benchmark(run)) = 0
  BY <1>1, <1>2, <1>3 DEF Managed, Benchmark
<1>5. CashOf(run) = [s \in Sides |-> InitialCash] /\ InvestedOf(run) = [s \in Sides |-> 0]
  BY <1>4, SideBooks
<1> QED
  BY <1>5 DEF Accounts!Init, CashOf, InvestedOf

(***************************************************************************)
(* PairedLedger implements PairedAccounts: whatever commands were computed *)
(* on stale reads, each commit changes the accounts by one deposit on both *)
(* sides, or by one purchase one side can pay for, or not at all.          *)
(***************************************************************************)
THEOREM AccountsImplemented == Spec => AccountsAreImplemented
<1>1. ASSUME Inv, AccountInv, [Next]_vars
      PROVE  Accounts!Next \/ UNCHANGED <<CashOf(run), InvestedOf(run)>>
  <2>1. CASE run' = run
    BY <2>1
  <2>2. CASE \E t \in Threads : SaveTransition(t)
    <3>1. PICK t \in Threads : SaveTransition(t)
      BY <2>2
    <3>2. CASE Accepts(run, proposals[t]) /\ run' = proposals[t]
      <4>1. /\ IsTyped(run) /\ IsTyped(proposals[t])
            /\ IsOfEarlierRun(proposals[t], run) /\ IsSound(run)
        BY <1>1, <3>1 DEF SaveTransition, AccountInv, Inv
      <4>2. IsAccountStep(run, run')
        BY <3>2, <4>1, SaveIsAccountStep
      <4> QED
        BY <3>2, <4>1, <4>2, AccountsStep
    <3> QED
      BY <2>1, <3>1, <3>2 DEF SaveTransition
  <2>3. run' = run \/ \E t \in Threads : SaveTransition(t)
    <3>1. ASSUME NEW t \in Threads,
                 \/ ApplyCashEvent(t) \/ FulfillBenchmark(t) \/ RefreshPrices(t)
                 \/ ExecutePaperTrade(t) \/ OtherCommand(t)
          PROVE  run' = run
      <4>1. IsTyped(run)
        BY <1>1 DEF AccountInv
      <4> QED
        BY <3>1, <4>1, CommandProposes DEF Proposes
    <3> QED
      BY <1>1, <3>1 DEF Next, vars
  <2> QED
    BY <2>1, <2>2, <2>3
<1>2. Inv /\ AccountInv /\ [Next]_vars
        => [Accounts!Next]_<<[s \in Sides |-> Newest(run[s]).book.cash],
                             [s \in Sides |-> Invested(Newest(run[s]).book)]>>
  BY <1>1 DEF CashOf, InvestedOf
<1> QED
  BY <1>2, AccountsInit, AlwaysSound, AccountInvHolds, PTL
     DEF Spec, AccountsAreImplemented, Accounts!Spec
=============================================================================
