------------------------- MODULE QuotaBucket_proofs -------------------------
(* Theorems of QuotaBucket, for any number of processes, any quotas and      *)
(* amounts, and any number of periods.                                      *)
EXTENDS QuotaBucket, TLAPS

(***************************************************************************)
(* What the operators return.                                              *)
(***************************************************************************)
\* Drawing n from buckets that have it in total takes exactly n, and from no bucket
\* more than it has.
LEMMA DrawnSound ==
  ASSUME NEW left \in [Buckets -> Nat], NEW n \in Nat, Total(left) >= n
  PROVE  /\ Drawn(left, n) \in [Buckets -> Nat]
         /\ Total(Drawn(left, n)) = n
         /\ \A b \in Buckets : Drawn(left, n)[b] <= left[b]
<1> DEFINE f == left["free"]  p == left["prepaid"]  q == left["postpaid"]
<1>1. f \in Nat /\ p \in Nat /\ q \in Nat /\ f + p + q >= n
  BY DEF Buckets, Total
<1>2. /\ Least(n, f) \in 0 .. f
      /\ Least(AtLeast0(n - f), p) \in 0 .. p
      /\ Least(AtLeast0(n - f - p), q) \in 0 .. q
      /\ Least(n, f) + Least(AtLeast0(n - f), p) + Least(AtLeast0(n - f - p), q) = n
  BY <1>1 DEF Least, AtLeast0
<1>3. /\ Drawn(left, n) = [b \in Buckets |-> Drawn(left, n)[b]]
      /\ Drawn(left, n)["free"] = Least(n, f)
      /\ Drawn(left, n)["prepaid"] = Least(AtLeast0(n - f), p)
      /\ Drawn(left, n)["postpaid"] = Least(AtLeast0(n - f - p), q)
  BY DEF Drawn, Buckets
<1>. HIDE DEF f, p, q
<1>4. \A b \in Buckets : b \in {"free", "prepaid", "postpaid"}
  BY DEF Buckets
<1>5. Drawn(left, n) \in [Buckets -> Nat]
  BY <1>1, <1>2, <1>3, <1>4
<1>6. Total(Drawn(left, n)) = n
  BY <1>2, <1>3 DEF Total
<1>. QED  BY <1>1, <1>2, <1>3, <1>4, <1>5, <1>6 DEF f, p, q

LEMMA OneSound ==
  ASSUME NEW b \in Buckets, NEW n \in Nat
  PROVE  /\ [Unused EXCEPT ![b] = n] \in [Buckets -> Nat]
         /\ Total([Unused EXCEPT ![b] = n]) = n
BY DEF Buckets, Unused, Total

LEMMA LeftSound ==
  ASSUME NEW r \in Entry
  PROVE  /\ Left(r) \in [Buckets -> Nat]
         /\ \A b \in Buckets : Left(r)[b] = AtLeast0(r.quota[b] - r.used[b])
BY DEF Left, AtLeast0, Entry

LEMMA RenewedSound ==
  ASSUME row \in Entry, now \in Nat
  PROVE  /\ Renewed \in Entry
         /\ Renewed.quota = row.quota /\ Renewed.auto = row.auto
         /\ Renewed.auto => Renewed.last = now
         /\ \/ Renewed.used = row.used /\ ~ (row.auto /\ row.last \notin {0, now})
            \/ Renewed.used = Unused /\ row.auto /\ row.last \notin {0, now}
BY DEF Renewed, Entry, Unused

LEMMA TotalSound ==
  ASSUME NEW f \in [Buckets -> Nat]
  PROVE  Total(f) \in Nat
BY DEF Total, Buckets

(***************************************************************************)
(* Types.                                                                  *)
(***************************************************************************)
LEMMA BlankTyped == Blank \in Entry /\ Unused \in [Buckets -> Nat] /\ Idle \in Call
BY DEF Blank, Unused, Entry, Idle, Call

LEMMA TypeInit == Init => TypeOK
<1> SUFFICES ASSUME Init PROVE TypeOK
  OBVIOUS
<1>1. call \in [Clients -> Call]
  BY BlankTyped DEF Init
<1>2. exists \in BOOLEAN /\ clean \in BOOLEAN
  BY Zenon DEF Init
<1>3. now \in Nat /\ spent \in Int
  BY DEF Init
<1>. QED  BY <1>1, <1>2, <1>3, BlankTyped DEF Init, TypeOK

LEMMA PutTyped ==
  ASSUME TypeOK, NEW c \in Clients, NEW r \in Entry, Put(c, r)
  PROVE  exists' \in BOOLEAN /\ row' \in Entry /\ call' \in [Clients -> Call]
         /\ ceiling' \in [Buckets -> Nat] /\ clean' \in BOOLEAN
<1>1. exists' \in BOOLEAN /\ row' \in Entry /\ call' \in [Clients -> Call]
  BY BlankTyped DEF Put, TypeOK
<1>2. ceiling' \in [Buckets -> Nat]
  BY DEF Put, TypeOK, Entry
<1>3. clean' \in BOOLEAN
  BY Zenon DEF Put, TypeOK
<1>. QED  BY <1>1, <1>2, <1>3

LEMMA BeginTyped ==
  ASSUME TypeOK, NEW c \in Clients, NEW at \in {"read", "reset"}, NEW entry \in Entry,
         NEW which \in SUBSET Buckets, Begin(c, at, entry, which)
  PROVE  TypeOK'
BY DEF TypeOK, Begin, Call

LEMMA TakeTyped ==
  ASSUME TypeOK, NEW n \in Nat, NEW t \in [Buckets -> Nat], Take(n, t)
  PROVE  TypeOK'
<1>1. Renewed \in Entry
  BY RenewedSound DEF TypeOK
<1>2. row' \in Entry
  BY <1>1 DEF Take, Entry
<1>3. charged' \in [Buckets -> Nat]
  BY DEF Take, TypeOK
<1>4. spent' \in Int
  <2>1. Total(row.used) \in Nat /\ Total(Renewed.used) \in Nat
    BY <1>1, TotalSound DEF TypeOK, Entry
  <2>. QED  BY <2>1 DEF Take, TypeOK
<1>. QED  BY <1>2, <1>3, <1>4 DEF Take, TypeOK

LEMMA RefundTyped ==
  ASSUME TypeOK, NEW b \in Buckets, NEW n \in Nat, Refund(b, n)
  PROVE  TypeOK'
<1>1. row' \in Entry
  BY DEF Refund, TypeOK, Entry, AtLeast0
<1>2. charged' \in [Buckets -> Nat]
  BY DEF Refund, TypeOK, AtLeast0
<1>3. spent' \in Int
  BY DEF Refund, TypeOK, Entry, Least
<1>. QED  BY <1>1, <1>2, <1>3 DEF Refund, TypeOK

LEMMA TypeStep == TypeOK /\ [Next]_vars => TypeOK'
<1> SUFFICES ASSUME TypeOK, [Next]_vars PROVE TypeOK'
  OBVIOUS
<1>1. ASSUME NEW c \in Clients, ReadEntry(c) PROVE TypeOK'
  <2>1. PICK b \in Buckets, n \in Totals :
            Begin(c, "read", [row EXCEPT !.quota[b] = n, !.used = Unused], {})
    BY <1>1 DEF ReadEntry
  <2>2. [row EXCEPT !.quota[b] = n, !.used = Unused] \in Entry
    BY QuotaAssumption, BlankTyped DEF TypeOK, Entry
  <2>. QED  BY <2>1, <2>2, BeginTyped
<1>2. ASSUME NEW c \in Clients, GiveEntry(c) PROVE TypeOK'
  <2>1. PICK q \in [Buckets -> Totals], auto \in BOOLEAN :
            Begin(c, "read", [Blank EXCEPT !.quota = q, !.auto = auto], {})
    BY <1>2 DEF GiveEntry
  <2>2. [Blank EXCEPT !.quota = q, !.auto = auto] \in Entry
    BY QuotaAssumption, BlankTyped DEF Entry
  <2>. QED  BY <2>1, <2>2, BeginTyped
<1>3. ASSUME NEW c \in Clients, LookUp(c) PROVE TypeOK'
  BY <1>3 DEF LookUp, TypeOK, Call
<1>4. ASSUME NEW c \in Clients, Insert(c) PROVE TypeOK'
  <2>1. CASE exists
    BY <1>4, <2>1, BlankTyped DEF Insert, TypeOK
  <2>2. CASE ~ exists
    <3>1. call[c].entry \in Entry
      BY DEF TypeOK, Call
    <3>. QED  BY <1>4, <2>2, <3>1, PutTyped DEF Insert, TypeOK
  <2>. QED  BY <2>1, <2>2
<1>5. ASSUME NEW c \in Clients, Update(c) PROVE TypeOK'
  <2>1. [call[c].entry EXCEPT !.used = row.used] \in Entry
    BY DEF TypeOK, Call, Entry
  <2>. QED  BY <1>5, <2>1, PutTyped DEF Update, TypeOK
<1>6. ASSUME NEW c \in Clients, BeginReset(c) PROVE TypeOK'
  <2>1. PICK which \in {{b} : b \in Buckets} \union {Buckets} :
            Begin(c, "reset", [Blank EXCEPT !.last = now], which)
    BY <1>6 DEF BeginReset
  <2>2. [Blank EXCEPT !.last = now] \in Entry /\ which \in SUBSET Buckets
    BY BlankTyped DEF Entry, TypeOK
  <2>. QED  BY <2>1, <2>2, BeginTyped
<1>7. ASSUME NEW c \in Clients, Reset(c) PROVE TypeOK'
  <2> DEFINE kept == [b \in Buckets |-> IF b \in call[c].which THEN 0 ELSE row.used[b]]
  <2>1. kept \in [Buckets -> Nat] /\ call[c].entry \in Entry
    BY DEF TypeOK, Entry, Call
  <2>2. [row EXCEPT !.used = kept, !.last = call[c].entry.last] \in Entry
    BY <2>1 DEF TypeOK, Entry
  <2>3. charged' \in [Buckets -> Nat]
    BY <1>7 DEF Reset, TypeOK
  <2>4. spent' \in Int
    <3>1. Total(row.used) \in Nat /\ Total(kept) \in Nat
      BY <2>1, TotalSound DEF TypeOK, Entry
    <3>. QED  BY <1>7, <3>1 DEF Reset, TypeOK
  <2>5. Put(c, [row EXCEPT !.used = kept, !.last = call[c].entry.last])
    BY <1>7 DEF Reset
  <2>. HIDE DEF kept
  <2>. QED  BY <1>7, <2>2, <2>3, <2>4, <2>5, PutTyped DEF Reset, TypeOK
<1>8. ASSUME NEW c \in Clients, Abandon(c) PROVE TypeOK'
  BY <1>8, BlankTyped DEF Abandon, TypeOK
<1>9. ASSUME NEW n \in Amounts, Consume(n) PROVE TypeOK'
  <2>1. n \in Nat /\ Left(Renewed) \in [Buckets -> Nat]
    BY QuotaAssumption, RenewedSound, LeftSound DEF TypeOK
  <2>2. Drawn(Left(Renewed), n) \in [Buckets -> Nat]
    BY <1>9, <2>1, DrawnSound DEF Consume
  <2>. QED  BY <1>9, <2>1, <2>2, TakeTyped DEF Consume
<1>10. ASSUME NEW n \in Amounts, NEW b \in Buckets, ConsumeFrom(b, n) PROVE TypeOK'
  <2>1. n \in Nat
    BY QuotaAssumption
  <2>. QED  BY <1>10, <2>1, OneSound, TakeTyped DEF ConsumeFrom
<1>11. ASSUME NEW n \in Amounts, RefundAuto(n) PROVE TypeOK'
  BY <1>11, QuotaAssumption, RefundTyped DEF RefundAuto
<1>12. ASSUME NEW n \in Amounts, NEW b \in Buckets, Refund(b, n) PROVE TypeOK'
  BY <1>12, QuotaAssumption, RefundTyped
<1>13. CASE NewPeriod
  BY <1>13, BlankTyped DEF NewPeriod, TypeOK, Entry
<1>14. CASE UNCHANGED vars
  BY <1>14 DEF vars, TypeOK
<1>. QED
  BY <1>1, <1>2, <1>3, <1>4, <1>5, <1>6, <1>7, <1>8, <1>9, <1>10, <1>11, <1>12, <1>13, <1>14
  DEF Next

\* TypeOK always holds: in particular nothing that is used or charged becomes negative.
THEOREM TypeCorrect == Spec => []TypeOK
<1>1. Init => TypeOK
  BY TypeInit
<1>2. TypeOK /\ [Next]_vars => TypeOK'
  BY TypeStep
<1>. QED  BY <1>1, <1>2, PTL DEF Spec

(***************************************************************************)
(* What is used is what was spent.  Besides the types this needs that an    *)
(* entry under way says nothing is used, so that a row that is inserted     *)
(* starts at 0, and that there is no usage before there is a row.           *)
(***************************************************************************)
StartsUnused ==
    /\ ~ exists => row = Blank
    /\ \A c \in Clients : call[c].entry.used = Unused

Spending == StartsUnused /\ UsedIsSpent

LEMMA TakeSpends ==
  ASSUME TypeOK, Spending, exists, NEW n \in Nat, NEW t \in [Buckets -> Nat], Total(t) = n,
         Take(n, t)
  PROVE  Spending'
<1>1. Renewed \in Entry
  BY RenewedSound DEF TypeOK
<1>2. row'.used = [b \in Buckets |-> Renewed.used[b] + t[b]]
  BY <1>1 DEF Take, Entry
<1>3. Total(row'.used) = Total(Renewed.used) + Total(t)
  <2>1. Renewed.used \in [Buckets -> Nat]
    BY <1>1 DEF Entry
  <2>. HIDE DEF Renewed
  <2>. QED  BY <1>2, <2>1 DEF Total, Buckets
<1>4. Total(row.used) \in Nat /\ Total(Renewed.used) \in Nat
  BY <1>1, TotalSound DEF TypeOK, Entry
<1>5. Total(row'.used) = spent'
  BY <1>3, <1>4 DEF Take, Spending, UsedIsSpent
<1>. QED  BY <1>5 DEF Spending, StartsUnused, UsedIsSpent, Take

LEMMA RefundSpends ==
  ASSUME TypeOK, Spending, NEW b \in Buckets, NEW n \in Nat, Refund(b, n)
  PROVE  Spending'
<1>1. row'.used = [row.used EXCEPT ![b] = AtLeast0(@ - n)]
  BY DEF Refund, TypeOK, Entry
<1>2. AtLeast0(row.used[b] - n) = row.used[b] - Least(row.used[b], n)
  BY DEF TypeOK, Entry, AtLeast0, Least
<1>3. Total(row'.used) = Total(row.used) - Least(row.used[b], n)
  <2>1. row.used \in [Buckets -> Nat] /\ Least(row.used[b], n) \in Int
    BY DEF TypeOK, Entry, Least
  <2>2. \A a \in Buckets : row'.used[a] = IF a = b THEN row.used[a] - Least(row.used[b], n) ELSE row.used[a]
    BY <1>1, <1>2, <2>1
  <2>. QED  BY <2>1, <2>2 DEF Total, Buckets
<1>. QED  BY <1>3 DEF Spending, StartsUnused, UsedIsSpent, Refund

LEMMA SpendingStep == TypeOK /\ Spending /\ [Next]_vars => Spending'
<1> SUFFICES ASSUME TypeOK, Spending, [Next]_vars PROVE Spending'
  OBVIOUS
<1>0. /\ Blank.used = Unused
      /\ \A c \in Clients : call[c].entry \in Entry
  BY DEF Blank, TypeOK, Call
<1>1. ASSUME NEW c \in Clients, ReadEntry(c) PROVE Spending'
  BY <1>1 DEF ReadEntry, Begin, Spending, StartsUnused, UsedIsSpent, TypeOK, Entry
<1>2. ASSUME NEW c \in Clients, GiveEntry(c) PROVE Spending'
  BY <1>2, <1>0 DEF GiveEntry, Begin, Spending, StartsUnused, UsedIsSpent, TypeOK, Blank
<1>3. ASSUME NEW c \in Clients, LookUp(c) PROVE Spending'
  BY <1>3 DEF LookUp, Spending, StartsUnused, UsedIsSpent, TypeOK, Call
<1>4. ASSUME NEW c \in Clients, Insert(c) PROVE Spending'
  <2>1. CASE exists
    BY <1>4, <2>1, <1>0 DEF Insert, Spending, StartsUnused, UsedIsSpent, TypeOK, Idle
  <2>2. CASE ~ exists
    BY <1>4, <2>2, <1>0 DEF Insert, Put, Spending, StartsUnused, UsedIsSpent, TypeOK, Idle
  <2>. QED  BY <2>1, <2>2
<1>5. ASSUME NEW c \in Clients, Update(c) PROVE Spending'
  <2>1. row'.used = row.used /\ exists' = TRUE /\ spent' = spent
    BY <1>5, <1>0 DEF Update, Put, Entry
  <2>2. \A k \in Clients : call'[k].entry.used = Unused
    BY <1>5, <1>0 DEF Update, Put, Spending, StartsUnused, TypeOK, Idle
  <2>. QED  BY <2>1, <2>2 DEF Spending, StartsUnused, UsedIsSpent
<1>6. ASSUME NEW c \in Clients, BeginReset(c) PROVE Spending'
  BY <1>6, <1>0 DEF BeginReset, Begin, Spending, StartsUnused, UsedIsSpent, TypeOK, Blank
<1>7. ASSUME NEW c \in Clients, Reset(c) PROVE Spending'
  <2> DEFINE kept == [b \in Buckets |-> IF b \in call[c].which THEN 0 ELSE row.used[b]]
  <2>1. kept \in [Buckets -> Nat]
    BY DEF TypeOK, Entry
  <2>2. Put(c, [row EXCEPT !.used = kept, !.last = call[c].entry.last])
    BY <1>7 DEF Reset
  <2>3. spent' = spent - Total(row.used) + Total(kept)
    BY <1>7 DEF Reset
  <2>. HIDE DEF kept
  <2>4. row'.used = kept /\ exists' = TRUE
    BY <2>2 DEF Put, TypeOK, Entry
  <2>5. Total(row.used) \in Nat /\ Total(kept) \in Nat
    BY <2>1, TotalSound DEF TypeOK, Entry
  <2>6. Total(row'.used) = spent'
    BY <2>3, <2>4, <2>5 DEF Spending, UsedIsSpent
  <2>7. \A k \in Clients : call'[k].entry.used = Unused
    BY <2>2, <1>0 DEF Put, Spending, StartsUnused, TypeOK, Idle
  <2>. QED  BY <2>4, <2>6, <2>7 DEF Spending, StartsUnused, UsedIsSpent
<1>8. ASSUME NEW c \in Clients, Abandon(c) PROVE Spending'
  BY <1>8, <1>0 DEF Abandon, Spending, StartsUnused, UsedIsSpent, TypeOK, Idle
<1>9. ASSUME NEW n \in Amounts, Consume(n) PROVE Spending'
  <2>1. n \in Nat /\ Left(Renewed) \in [Buckets -> Nat]
    BY QuotaAssumption, RenewedSound, LeftSound DEF TypeOK
  <2>. QED  BY <1>9, <2>1, DrawnSound, TakeSpends DEF Consume
<1>10. ASSUME NEW n \in Amounts, NEW b \in Buckets, ConsumeFrom(b, n) PROVE Spending'
  BY <1>10, QuotaAssumption, OneSound, TakeSpends DEF ConsumeFrom
<1>11. ASSUME NEW n \in Amounts, RefundAuto(n) PROVE Spending'
  BY <1>11, QuotaAssumption, RefundSpends DEF RefundAuto
<1>12. ASSUME NEW n \in Amounts, NEW b \in Buckets, Refund(b, n) PROVE Spending'
  BY <1>12, QuotaAssumption, RefundSpends
<1>13. CASE NewPeriod
  BY <1>13 DEF NewPeriod, Spending, StartsUnused, UsedIsSpent
<1>14. CASE UNCHANGED vars
  BY <1>14 DEF vars, Spending, StartsUnused, UsedIsSpent
<1>. QED
  BY <1>1, <1>2, <1>3, <1>4, <1>5, <1>6, <1>7, <1>8, <1>9, <1>10, <1>11, <1>12, <1>13, <1>14
  DEF Next

\* UsedIsSpent: whatever is set, reset, consumed and refunded at the same time, the used
\* columns add up to what was granted and not given back.
THEOREM NothingUncounted == Spec => []UsedIsSpent
<1>1. Init => TypeOK /\ Spending
  BY TypeInit DEF Init, Spending, StartsUnused, UsedIsSpent, Idle, Blank, Unused, Total, Buckets
<1>2. TypeOK /\ Spending /\ [Next]_vars => (TypeOK /\ Spending)'
  BY TypeStep, SpendingStep
<1>3. Spending => UsedIsSpent
  BY DEF Spending
<1>. QED  BY <1>1, <1>2, <1>3, PTL DEF Spec

(***************************************************************************)
(* Nothing is granted beyond the quota.  consume compares a request with    *)
(* what is used, not with what was granted in this period; so what was      *)
(* granted must have been counted as used, and while a row is due to be     *)
(* reset nothing was granted yet.                                          *)
(***************************************************************************)
Covered ==
    /\ \A b \in Buckets : charged[b] <= ceiling[b] /\ charged[b] <= row.used[b]
    /\ row.auto /\ row.last \notin {0, now} => \A b \in Buckets : charged[b] = 0

Charging ==
    /\ \A b \in Buckets : row.quota[b] <= ceiling[b]
    /\ clean => Covered

\* A write that keeps what is used, or takes as much off what is charged.
LEMMA PutCovers ==
  ASSUME TypeOK, Charging, NEW c \in Clients, NEW r \in Entry, Put(c, r), now' = now,
         \A b \in Buckets : \/ charged'[b] = charged[b] /\ r.used[b] = row.used[b]
                            \/ charged'[b] = 0
  PROVE  Charging'
<1>1. \A b \in Buckets : /\ ceiling'[b] = IF r.quota[b] > ceiling[b] THEN r.quota[b] ELSE ceiling[b]
                         /\ ceiling[b] \in Nat /\ r.quota[b] \in Nat /\ r.used[b] \in Nat
  BY DEF Put, TypeOK, Entry
<1>2. row' = r
  BY DEF Put
<1>3. \A b \in Buckets : row'.quota[b] <= ceiling'[b]
  BY <1>1, <1>2
<1>4. ASSUME clean' PROVE Covered'
  <2>1. Covered /\ ~ Redated(row, r)
    BY <1>4 DEF Put, Charging
  <2>2. \A b \in Buckets : charged'[b] <= ceiling'[b] /\ charged'[b] <= row'.used[b]
    BY <2>1, <1>1, <1>2 DEF Covered, TypeOK
  <2>3. ASSUME row'.auto, row'.last \notin {0, now} PROVE \A b \in Buckets : charged'[b] = 0
    <3>1. row.auto /\ row.last \notin {0, now}
      BY <2>1, <2>3, <1>2 DEF Redated
    <3>. QED  BY <3>1, <2>1 DEF Covered
  <2>. QED  BY <2>2, <2>3 DEF Covered
<1>. QED  BY <1>3, <1>4 DEF Charging

LEMMA TakeCovers ==
  ASSUME TypeOK, Charging, NEW n \in Nat, NEW t \in [Buckets -> Nat],
         \A b \in Buckets : t[b] <= Left(Renewed)[b],
         Take(n, t)
  PROVE  Charging'
<1> DEFINE R == Renewed
<1>1. /\ R \in Entry /\ R.quota = row.quota /\ R.auto = row.auto
      /\ R.auto => R.last = now
      /\ \/ R.used = row.used /\ ~ (row.auto /\ row.last \notin {0, now})
         \/ R.used = Unused /\ row.auto /\ row.last \notin {0, now}
  BY RenewedSound DEF TypeOK
<1>2. /\ row' = [R EXCEPT !.used = [b \in Buckets |-> R.used[b] + t[b]]]
      /\ charged' = [b \in Buckets |-> IF clean THEN charged[b] + t[b] ELSE 0]
      /\ ceiling' = ceiling /\ now' = now
      /\ clean' = clean
  BY DEF Take
<1>3. \A b \in Buckets : Left(R)[b] = AtLeast0(R.quota[b] - R.used[b])
  BY <1>1, LeftSound
<1>. HIDE DEF R
<1>4. /\ row'.quota = row.quota /\ row'.auto = R.auto /\ row'.last = R.last
      /\ \A b \in Buckets : row'.used[b] = R.used[b] + t[b]
  BY <1>1, <1>2 DEF Entry
<1>5. \A b \in Buckets : row'.quota[b] <= ceiling'[b]
  BY <1>2, <1>4 DEF Charging
<1>6. ASSUME clean PROVE Covered'
  <2>1. Covered
    BY <1>6 DEF Charging
  <2>2. ASSUME NEW b \in Buckets
        PROVE  charged'[b] <= ceiling'[b] /\ charged'[b] <= row'.used[b]
    <3>1. /\ charged[b] \in Nat /\ ceiling[b] \in Nat /\ t[b] \in Nat
          /\ R.quota[b] \in Nat /\ R.used[b] \in Nat
          /\ R.quota[b] <= ceiling[b] /\ charged[b] <= ceiling[b]
      BY <1>1, <2>1 DEF TypeOK, Entry, Charging, Covered
    <3>2. charged[b] <= R.used[b]
      BY <1>1, <2>1, <3>1 DEF Covered, Unused
    <3>3. t[b] <= AtLeast0(R.quota[b] - R.used[b])
      BY <1>3 DEF R
    <3>4. charged'[b] = charged[b] + t[b]
      BY <1>2, <1>6
    <3>5. charged[b] + t[b] <= ceiling[b]
      BY <3>1, <3>2, <3>3 DEF AtLeast0
    <3>. QED  BY <3>1, <3>2, <3>4, <3>5, <1>2, <1>4
  <2>3. ~ (row'.auto /\ row'.last \notin {0, now'})
    BY <1>1, <1>2, <1>4
  <2>. QED  BY <2>2, <2>3 DEF Covered
<1>. QED  BY <1>2, <1>5, <1>6 DEF Charging

LEMMA RefundCovers ==
  ASSUME TypeOK, Charging, NEW b \in Buckets, NEW n \in Nat, Refund(b, n)
  PROVE  Charging'
<1>1. /\ row' = [row EXCEPT !.used = [row.used EXCEPT ![b] = AtLeast0(row.used[b] - n)]]
      /\ charged' = [charged EXCEPT ![b] = AtLeast0(@ - n)]
      /\ ceiling' = ceiling /\ now' = now /\ clean' = clean
  BY DEF Refund, TypeOK, Entry
<1>2. row'.quota = row.quota /\ row'.auto = row.auto /\ row'.last = row.last
  BY <1>1 DEF TypeOK, Entry
<1>3. \A a \in Buckets :
        /\ row'.used[a] = IF a = b THEN AtLeast0(row.used[a] - n) ELSE row.used[a]
        /\ charged'[a] = IF a = b THEN AtLeast0(charged[a] - n) ELSE charged[a]
        /\ row.used[a] \in Nat /\ charged[a] \in Nat /\ ceiling[a] \in Nat
  BY <1>1 DEF TypeOK, Entry
<1>4. ASSUME Covered PROVE Covered'
  BY <1>1, <1>2, <1>3, <1>4 DEF Covered, AtLeast0
<1>. QED  BY <1>1, <1>2, <1>4 DEF Charging

LEMMA ChargingStep == TypeOK /\ Spending /\ Charging /\ [Next]_vars => Charging'
<1> SUFFICES ASSUME TypeOK, Spending, Charging, [Next]_vars PROVE Charging'
  OBVIOUS
<1>0. \A c \in Clients : call[c].entry \in Entry
  BY DEF TypeOK, Call
<1>1. ASSUME NEW c \in Clients, ReadEntry(c) \/ GiveEntry(c) \/ BeginReset(c) PROVE Charging'
  <2>1. UNCHANGED <<row, now, ceiling, clean, charged>>
    BY <1>1 DEF ReadEntry, GiveEntry, BeginReset, Begin
  <2>. QED  BY <2>1 DEF Charging, Covered
<1>2. ASSUME NEW c \in Clients, LookUp(c) \/ Abandon(c) PROVE Charging'
  BY <1>2 DEF LookUp, Abandon, Charging, Covered
<1>3. ASSUME NEW c \in Clients, Insert(c), ~ exists PROVE Charging'
  <2>1. Put(c, call[c].entry) /\ now' = now /\ charged' = charged
    BY <1>3 DEF Insert
  <2>2. \A b \in Buckets : call[c].entry.used[b] = row.used[b]
    BY <1>3 DEF Blank, Spending, StartsUnused
  <2>3. charged' = charged /\ call[c].entry \in Entry
    BY <2>1, <1>0
  <2>. QED  BY <2>1, <2>2, <2>3, PutCovers
<1>4. ASSUME NEW c \in Clients, Insert(c), exists PROVE Charging'
  <2>1. UNCHANGED <<row, now, ceiling, clean, charged>>
    BY <1>4 DEF Insert
  <2>. QED  BY <2>1 DEF Charging, Covered
<1>5. ASSUME NEW c \in Clients, Update(c) PROVE Charging'
  <2>1. [call[c].entry EXCEPT !.used = row.used] \in Entry
    BY <1>0 DEF TypeOK, Entry
  <2>2. [call[c].entry EXCEPT !.used = row.used].used = row.used
    BY <1>0 DEF Entry
  <2>3. now' = now /\ charged' = charged
    BY <1>5 DEF Update
  <2>. QED  BY <1>5, <2>1, <2>2, <2>3, PutCovers DEF Update
<1>6. ASSUME NEW c \in Clients, Reset(c) PROVE Charging'
  <2> DEFINE kept == [b \in Buckets |-> IF b \in call[c].which THEN 0 ELSE row.used[b]]
             r == [row EXCEPT !.used = kept, !.last = call[c].entry.last]
  <2>1. kept \in [Buckets -> Nat]
    BY DEF TypeOK, Entry
  <2>2. r \in Entry /\ r.used = kept
    BY <2>1, <1>0 DEF TypeOK, Entry
  <2>3. Put(c, r) /\ now' = now
    BY <1>6 DEF Reset
  <2>4. \A b \in Buckets : charged'[b] = IF b \in call[c].which THEN 0 ELSE charged[b]
    BY <1>6 DEF Reset
  <2>5. \A b \in Buckets : \/ charged'[b] = charged[b] /\ r.used[b] = row.used[b]
                           \/ charged'[b] = 0
    BY <2>2, <2>4
  <2>. HIDE DEF r
  <2>. QED  BY <2>2, <2>3, <2>5, PutCovers
<1>7. ASSUME NEW n \in Amounts, Consume(n) PROVE Charging'
  <2>1. n \in Nat /\ Left(Renewed) \in [Buckets -> Nat]
    BY QuotaAssumption, RenewedSound, LeftSound DEF TypeOK
  <2>. QED  BY <1>7, <2>1, DrawnSound, TakeCovers DEF Consume
<1>8. ASSUME NEW n \in Amounts, NEW b \in Buckets, ConsumeFrom(b, n) PROVE Charging'
  <2>1. n \in Nat /\ Left(Renewed) \in [Buckets -> Nat]
    BY QuotaAssumption, RenewedSound, LeftSound DEF TypeOK
  <2>2. \A a \in Buckets : [Unused EXCEPT ![b] = n][a] <= Left(Renewed)[a]
    BY <1>8, <2>1 DEF ConsumeFrom, Unused
  <2>. QED  BY <1>8, <2>1, <2>2, OneSound, TakeCovers DEF ConsumeFrom
<1>9. ASSUME NEW n \in Amounts, RefundAuto(n) PROVE Charging'
  BY <1>9, QuotaAssumption, RefundCovers DEF RefundAuto
<1>10. ASSUME NEW n \in Amounts, NEW b \in Buckets, Refund(b, n) PROVE Charging'
  BY <1>10, QuotaAssumption, RefundCovers
<1>11. CASE NewPeriod
  <2>1. \A b \in Buckets : row.quota[b] \in Nat /\ row.used[b] \in Nat /\ Unused[b] = 0
    BY DEF TypeOK, Entry, Unused
  <2>. QED  BY <1>11, <2>1 DEF NewPeriod, Charging, Covered
<1>12. CASE UNCHANGED vars
  BY <1>12 DEF vars, Charging, Covered
<1>. QED
  BY <1>1, <1>2, <1>3, <1>4, <1>5, <1>6, <1>7, <1>8, <1>9, <1>10, <1>11, <1>12 DEF Next

\* NoOverspend: no bucket grants more in a period than the highest quota it had in it,
\* as long as last_reset was not dated back.
THEOREM QuotasHold == Spec => []NoOverspend
<1>1. Init => TypeOK /\ Spending /\ Charging
  <2> SUFFICES ASSUME Init PROVE TypeOK /\ Spending /\ Charging
    OBVIOUS
  <2>1. TypeOK
    BY TypeInit
  <2>2. Spending
    BY DEF Init, Spending, StartsUnused, UsedIsSpent, Idle, Blank, Unused, Total, Buckets
  <2>3. Charging
    BY DEF Init, Charging, Covered, Blank, Unused
  <2>. QED  BY <2>1, <2>2, <2>3
<1>2. TypeOK /\ Spending /\ Charging /\ [Next]_vars => (TypeOK /\ Spending /\ Charging)'
  BY TypeStep, SpendingStep, ChargingStep
<1>3. Charging => NoOverspend
  BY DEF Charging, Covered, NoOverspend
<1>. QED  BY <1>1, <1>2, <1>3, PTL DEF Spec

=============================================================================
