---------------------------- MODULE QuotaBucket ----------------------------
(***************************************************************************)
(* QuotaBucket (core/agent/billing/quota_bucket.py): the three quotas of an *)
(* agent, drawn free first, then prepaid, then postpaid, and set to unused  *)
(* when a new period begins.  Any number of processes use one SQLite table. *)
(* consume and refund are single BEGIN IMMEDIATE transactions;              *)
(* set_bucket_quota is three: it reads the entry, looks whether there is a  *)
(* row, and writes the whole entry, except what is used.  reset_quota reads *)
(* the clock before its transaction.  Rows of different agents do not       *)
(* touch, so there is one; days, weeks and months are a count of periods.   *)
(***************************************************************************)
EXTENDS Integers

CONSTANTS
    Clients,     \* processes that configure quotas
    Totals,      \* quotas they set
    Amounts,     \* amounts consumed and refunded
    MaxPeriods   \* bound on the clock

ASSUME QuotaAssumption ==
    /\ Totals \subseteq Nat
    /\ Amounts \subseteq Nat \ {0}
    /\ MaxPeriods \in Nat

VARIABLES
    exists,   \* the table has a row for the agent
    row,      \* that row, a QuotaEntry
    now,      \* the present period, from 1
    call,     \* client -> where its call to set_quota or reset_quota is
    charged,  \* history, while clean: bucket -> granted in this period and not given back
    ceiling,  \* history: bucket -> highest quota in this period
    spent,    \* history: granted and not given back since used was set to 0
    clean     \* history: no write has dated a reset of this period back

vars == <<exists, row, now, call, charged, ceiling, spent, clean>>

Buckets == {"free", "prepaid", "postpaid"}

\* last: the period of last_reset, 0 for the empty string; auto: reset_period is not
\* "never".
Entry == [quota : [Buckets -> Nat], used : [Buckets -> Nat], auto : BOOLEAN, last : Nat]

Unused == [b \in Buckets |-> 0]

\* QuotaEntry() with its defaults.
Blank == [quota |-> Unused, used |-> Unused, auto |-> TRUE, last |-> 0]

Idle == [at |-> "idle", entry |-> Blank, which |-> {}]

Call == [at : {"idle", "read", "insert", "update", "reset"}, entry : Entry, which : SUBSET Buckets]

TypeOK ==
    /\ exists \in BOOLEAN
    /\ row \in Entry
    /\ now \in Nat
    /\ call \in [Clients -> Call]
    /\ charged \in [Buckets -> Nat]
    /\ ceiling \in [Buckets -> Nat]
    /\ spent \in Int
    /\ clean \in BOOLEAN

Init ==
    /\ exists = FALSE /\ row = Blank
    /\ now = 1
    /\ call = [c \in Clients |-> Idle]
    /\ charged = Unused /\ ceiling = Unused
    /\ spent = 0
    /\ clean = TRUE

Least(m, n) == IF m <= n THEN m ELSE n
AtLeast0(n) == IF n >= 0 THEN n ELSE 0
Total(f) == f["free"] + f["prepaid"] + f["postpaid"]

\* A write that leaves last_reset in a past period, where it was not before, would
\* have the quotas set to unused once more.
Redated(old, new) ==
    new.auto /\ new.last \notin {0, now} /\ ~ (old.auto /\ old.last = new.last)

-----------------------------------------------------------------------------
(* set_bucket_quota, set_quota, reset_quota: client c *)

Begin(c, at, entry, which) ==
    /\ call[c].at = "idle"
    /\ call' = [call EXCEPT ![c] = [at |-> at, entry |-> entry, which |-> which]]
    /\ UNCHANGED <<exists, row, now, charged, ceiling, spent, clean>>

\* set_bucket_quota reads the entry and changes one quota in its copy.  What the copy
\* says is used is never written: it is only inserted if there was no row.
ReadEntry(c) ==
    \E b \in Buckets, n \in Totals :
        Begin(c, "read", [row EXCEPT !.quota[b] = n, !.used = Unused], {})

\* set_quota is called with an entry of the caller, who knows no last_reset.
GiveEntry(c) ==
    \E q \in [Buckets -> Totals], auto \in BOOLEAN :
        Begin(c, "read", [Blank EXCEPT !.quota = q, !.auto = auto], {})

\* The SELECT of set_quota.
LookUp(c) ==
    /\ call[c].at = "read"
    /\ call' = [call EXCEPT ![c].at = IF exists THEN "update" ELSE "insert"]
    /\ UNCHANGED <<exists, row, now, charged, ceiling, spent, clean>>

\* The row becomes r, by a call that counts into none of the histories but ceiling.
Put(c, r) ==
    /\ exists' = TRUE
    /\ row' = r
    /\ ceiling' = [b \in Buckets |-> IF r.quota[b] > ceiling[b] THEN r.quota[b] ELSE ceiling[b]]
    /\ clean' = (clean /\ ~ Redated(row, r))
    /\ call' = [call EXCEPT ![c] = Idle]

\* The primary key refuses a row that another process has inserted since.
Insert(c) ==
    /\ call[c].at = "insert"
    /\ IF exists
       THEN call' = [call EXCEPT ![c] = Idle] /\ UNCHANGED <<exists, row, ceiling, clean>>
       ELSE Put(c, call[c].entry)
    /\ UNCHANGED <<now, charged, spent>>

\* Mutant of Update: the columns of what is used are written with the rest.
UpdateAll(c) ==
    /\ call[c].at = "update"
    /\ Put(c, call[c].entry)
    /\ UNCHANGED <<now, charged, spent>>

Update(c) ==
    /\ call[c].at = "update"
    /\ Put(c, [call[c].entry EXCEPT !.used = row.used])
    /\ UNCHANGED <<now, charged, spent>>

BeginReset(c) ==
    \E which \in {{b} : b \in Buckets} \union {Buckets} :
        Begin(c, "reset", [Blank EXCEPT !.last = now], which)

\* An operator who resets a bucket forgives what was charged to it.
Reset(c) ==
    /\ call[c].at = "reset"
    /\ exists
    /\ LET S == call[c].which
           kept == [b \in Buckets |-> IF b \in S THEN 0 ELSE row.used[b]]
       IN /\ Put(c, [row EXCEPT !.used = kept, !.last = call[c].entry.last])
          /\ charged' = [b \in Buckets |-> IF b \in S THEN 0 ELSE charged[b]]
          /\ spent' = spent - Total(row.used) + Total(kept)
    /\ UNCHANGED now

\* A call ends without a write: reset_quota of an unknown agent, a locked database,
\* the death of the process.
Abandon(c) ==
    /\ call[c].at # "idle"
    /\ call' = [call EXCEPT ![c] = Idle]
    /\ UNCHANGED <<exists, row, now, charged, ceiling, spent, clean>>

-----------------------------------------------------------------------------
(* consume and refund: one transaction each *)

\* Mutant of Renewed: the first use of a row counts as the first of a period, but its
\* date is not recorded.
RenewedUndated == IF row.auto /\ row.last # now THEN [row EXCEPT !.used = Unused] ELSE row

\* _maybe_auto_reset_in_txn.  A row that was never reset is dated and keeps what is
\* used.
Renewed ==
    IF ~ row.auto \/ row.last = now THEN row
    ELSE IF row.last = 0 THEN [row EXCEPT !.last = now]
    ELSE [row EXCEPT !.used = Unused, !.last = now]

Left(r) == [b \in Buckets |-> AtLeast0(r.quota[b] - r.used[b])]

\* n, drawn free first, then prepaid, then postpaid.
Drawn(left, n) ==
    [b \in Buckets |->
        CASE b = "free"     -> Least(n, left["free"])
          [] b = "prepaid"  -> Least(AtLeast0(n - left["free"]), left["prepaid"])
          [] b = "postpaid" -> Least(AtLeast0(n - left["free"] - left["prepaid"]), left["postpaid"])]

\* The transaction of a consumption of n that takes t[b] from each bucket.
Take(n, t) ==
    /\ row' = [Renewed EXCEPT !.used = [b \in Buckets |-> Renewed.used[b] + t[b]]]
    /\ charged' = [b \in Buckets |-> IF clean THEN charged[b] + t[b] ELSE 0]
    /\ spent' = spent - Total(row.used) + Total(Renewed.used) + n
    /\ UNCHANGED <<exists, now, call, ceiling, clean>>

\* A request that is not covered rolls back and changes nothing, the reset included.
Consume(n) ==
    /\ exists
    /\ Total(Left(Renewed)) >= n
    /\ Take(n, Drawn(Left(Renewed), n))

ConsumeFrom(b, n) ==
    /\ exists
    /\ Left(Renewed)[b] >= n
    /\ Take(n, [Unused EXCEPT ![b] = n])

\* No automatic reset here: what is given back counts against what is used so far.
Refund(b, n) ==
    /\ exists
    /\ row' = [row EXCEPT !.used[b] = AtLeast0(@ - n)]
    /\ charged' = [charged EXCEPT ![b] = AtLeast0(@ - n)]
    /\ spent' = spent - Least(row.used[b], n)
    /\ UNCHANGED <<exists, now, call, ceiling, clean>>

\* bucket="auto": the last of the buckets that is used at all; what exceeds it is
\* not given back to the others.
RefundAuto(n) ==
    \E b \in Buckets :
        /\ row.used[b] > 0
        /\ b \in {"free", "prepaid"} => row.used["postpaid"] = 0
        /\ b = "free" => row.used["prepaid"] = 0
        /\ Refund(b, n)

\* A new day, week or month.
NewPeriod ==
    /\ now < MaxPeriods
    /\ now' = now + 1
    /\ charged' = Unused
    /\ ceiling' = row.quota
    /\ UNCHANGED <<exists, row, call, spent, clean>>

Next ==
    \/ \E c \in Clients :
        \/ ReadEntry(c) \/ GiveEntry(c) \/ LookUp(c) \/ Insert(c) \/ Update(c)
        \/ BeginReset(c) \/ Reset(c) \/ Abandon(c)
    \/ \E n \in Amounts :
        \/ Consume(n) \/ RefundAuto(n)
        \/ \E b \in Buckets : ConsumeFrom(b, n) \/ Refund(b, n)
    \/ NewPeriod

Spec == Init /\ [][Next]_vars

-----------------------------------------------------------------------------
(* Properties *)

\* However calls of set_quota, reset_quota, consume and refund interleave, the used
\* columns add up to what consumers were told they got and did not give back since the
\* columns were last set to 0: no consumption is lost or charged twice.
UsedIsSpent == Total(row.used) = spent

\* In one period no bucket grants more than the highest quota it had in it, refunds
\* deducted, unless a write that was prepared in an earlier period, or from an entry
\* read in one, has dated last_reset back.
NoOverspend == clean => \A b \in Buckets : charged[b] <= ceiling[b]

=============================================================================
