---------------------------- MODULE ChainProofs ------------------------------
(***************************************************************************)
(* The audit chain of a tenant for any number of transactions, each of any *)
(* number of rows, and the verifier on chains of any length.               *)
(***************************************************************************)
EXTENDS AuditChain, SequenceTheorems, TLAPS

Payloads == Writers \X Nat
Hashes == Seq(Payloads)
Entries == [seq : Nat, prev : Hashes, payload : Payloads, hash : Hashes]

\* Row i of s is well linked: its number, its predecessor and its hash.
LinkedAt(s, i) ==
    /\ s[i].seq = i - 1
    /\ s[i].prev = IF i = 1 THEN Genesis ELSE s[i - 1].hash
    /\ s[i].hash = Append(s[i].prev, s[i].payload)
Linked(s) == s \in Seq(Entries) /\ \A i \in 1 .. Len(s) : LinkedAt(s, i)

(***************************************************************************)
(* Only the holder of the lock has rows that are not committed, so what it *)
(* appends follows the last row there is.                                  *)
(***************************************************************************)
Typed ==
    /\ chain \in Seq(Entries)
    /\ own \in [Writers -> Seq(Entries)]
    /\ lock \in Writers \cup {Nobody}
    /\ pc \in [Writers -> {"open", "locked", "over"}]
OnlyTheHolder ==
    \A w \in Writers : own[w] # <<>> \/ pc[w] = "locked" => lock = w
Chained == Typed /\ OnlyTheHolder /\ Linked(chain) /\ \A w \in Writers : Linked(Read(w))

\* The row appended to a well linked chain is well linked.
LEMMA RowLinks ==
    ASSUME NEW s, Linked(s), NEW p \in Payloads
    PROVE  Linked(Append(s, Row(s, p)))
<1> DEFINE r == Row(s, p)
           n == Len(s)
           t == Append(s, r)
           prev == IF n = 0 THEN Genesis ELSE s[n].hash
<1>1. s \in Seq(Entries) /\ n \in Nat /\ (s = <<>> <=> n = 0)
      /\ \A i \in 1 .. n : LinkedAt(s, i) /\ s[i] \in Entries
  BY DEF Linked
<1>2. prev \in Hashes
  <2>1. n # 0 => s[n] \in Entries
    BY <1>1
  <2> QED
    BY <2>1 DEF Entries, Hashes, Genesis
<1>3. r = [seq |-> n, prev |-> prev, payload |-> p, hash |-> Append(prev, p)]
  <2>1. CASE n = 0
    BY <1>1, <2>1 DEF Row, Hash
  <2>2. CASE n # 0
    <3>1. s[n].seq = n - 1 /\ n - 1 + 1 = n
      BY <1>1, <2>2 DEF LinkedAt
    <3> QED
      BY <1>1, <2>2, <3>1 DEF Row, Hash, Last
  <2> QED
    BY <2>1, <2>2
<1>4. Append(prev, p) \in Hashes
  BY <1>2, AppendProperties DEF Hashes
<1> HIDE DEF r, prev
<1>5. r \in Entries
  BY <1>1, <1>2, <1>3, <1>4 DEF Entries
<1>6. /\ t \in Seq(Entries) /\ Len(t) = n + 1
      /\ \A i \in 1 .. n : t[i] = s[i]
      /\ t[n + 1] = r
  BY <1>1, <1>5, AppendProperties
<1> HIDE DEF t, n
<1>7. ASSUME NEW i \in 1 .. n PROVE LinkedAt(t, i)
  <2>1. t[i] = s[i] /\ (i # 1 => t[i - 1] = s[i - 1])
    BY <1>1, <1>6
  <2> QED
    BY <1>1, <2>1 DEF LinkedAt
<1>8. LinkedAt(t, n + 1)
  <2>1. r.seq = n /\ r.prev = prev /\ r.hash = Append(r.prev, r.payload)
    BY <1>3
  <2> DEFINE k == n + 1
  <2>2. t[k] = r /\ k - 1 = n /\ (n = 0 <=> k = 1)
    BY <1>1, <1>6
  <2>3. prev = IF n = 0 THEN Genesis ELSE t[n].hash
    BY <1>1, <1>6 DEF prev
  <2> HIDE DEF k
  <2>4. t[k].seq = k - 1
    BY <2>1, <2>2
  <2>5. t[k].prev = IF k = 1 THEN Genesis ELSE t[k - 1].hash
    BY <2>1, <2>2, <2>3
  <2>6. t[k].hash = Append(t[k].prev, t[k].payload)
    BY <2>1, <2>2
  <2>7. LinkedAt(t, k)
    BY <2>4, <2>5, <2>6 DEF LinkedAt
  <2> QED
    BY <2>7 DEF k
<1> QED
  BY <1>1, <1>6, <1>7, <1>8 DEF Linked, t, r

LEMMA ChainedInitially ==
    Init => Chained
<1> SUFFICES ASSUME Init PROVE Chained
  OBVIOUS
<1>1. chain = <<>> /\ own = [w \in Writers |-> <<>>]
  BY DEF Init
<1>2. \A w \in Writers : Read(w) = <<>>
  BY <1>1 DEF Read
<1>3. Linked(<<>>)
  BY DEF Linked
<1> QED
  BY <1>1, <1>2, <1>3 DEF Init, Chained, Typed, OnlyTheHolder

\* Whoever appends, commits or fails, what each sees stays well linked.
LEMMA ChainedNext ==
    Chained /\ [Next]_vars => Chained'
<1> SUFFICES ASSUME Chained, [Next]_vars PROVE Chained'
  OBVIOUS
<1>1. /\ Typed /\ OnlyTheHolder /\ Linked(chain)
      /\ \A w \in Writers : Linked(Read(w))
  BY DEF Chained
<1>2. /\ chain \in Seq(Entries) /\ own \in [Writers -> Seq(Entries)]
      /\ pc \in [Writers -> {"open", "locked", "over"}]
      /\ lock \in Writers \cup {Nobody} /\ Nobody \notin Writers
  BY <1>1, ChainAssumption DEF Typed, ChainAssumption
<1>3. ASSUME UNCHANGED <<chain, own>> PROVE Linked(chain)' /\ \A w \in Writers : Linked(Read(w))'
  BY <1>1, <1>3 DEF Read, Linked, LinkedAt
<1>4. ASSUME NEW w \in Writers, Lock(w) PROVE Chained'
  <2>1. Typed' /\ OnlyTheHolder'
    BY <1>1, <1>2, <1>4 DEF Lock, Typed, OnlyTheHolder
  <2> QED
    BY <1>3, <1>4, <2>1 DEF Lock, Chained
<1>5. ASSUME NEW w \in Writers, Insert(w) PROVE Chained'
  <2> DEFINE p == <<w, Len(own[w])>>
             r == Row(Read(w), p)
  <2>1. lock = w /\ \A v \in Writers : v # w => own[v] = <<>>
    BY <1>1, <1>5 DEF OnlyTheHolder, Insert
  <2>2. p \in Payloads
    BY <1>2 DEF Payloads
  <2>3. own' = [own EXCEPT ![w] = Append(own[w], r)] /\ UNCHANGED <<chain, lock>>
        /\ pc' = [pc EXCEPT ![w] = "open"]
    BY <1>5 DEF Insert
  <2>4. Linked(Append(Read(w), r))
    BY <1>1, <2>2, RowLinks
  <2> HIDE DEF p, r
  <2>5. r \in Entries
    <3>1. Append(Read(w), r) \in Seq(Entries) /\ Read(w) \in Seq(Entries)
      BY <1>1, <2>4 DEF Linked
    <3>2. Append(Read(w), r)[Len(Read(w)) + 1] = r
          /\ Len(Append(Read(w), r)) = Len(Read(w)) + 1 /\ Len(Read(w)) \in Nat
      BY <3>1
    <3> QED
      BY <3>1, <3>2, ElementOfSeq
  <2>6. chain \o Append(own[w], r) = Append(chain \o own[w], r)
    <3>1. own[w] \in Seq(Entries)
      BY <1>2
    <3> QED
      BY <1>2, <2>5, <3>1
  <2>7. Typed'
    BY <1>2, <2>3, <2>5 DEF Typed
  <2>8. OnlyTheHolder'
    BY <1>1, <1>2, <2>1, <2>3 DEF OnlyTheHolder
  <2>9. \A v \in Writers : Read(v)' = IF v = w THEN Append(Read(w), r) ELSE Read(v)
    BY <1>2, <2>3, <2>6 DEF Read
  <2>10. \A v \in Writers : Linked(Read(v)')
    BY <1>1, <2>4, <2>9
  <2>11. Linked(chain) /\ chain' = chain
    BY <1>1, <2>3
  <2> QED
    BY <2>7, <2>8, <2>10, <2>11 DEF Chained, Linked, LinkedAt
<1>6. ASSUME NEW w \in Writers, NEW s, Linked(s), chain' = s, End(w),
             \A v \in Writers : v # w => Read(v)' = s
      PROVE  Chained'
  <2>1. own' = [own EXCEPT ![w] = <<>>] /\ pc' = [pc EXCEPT ![w] = "over"]
        /\ lock' = IF lock = w THEN Nobody ELSE lock
    BY <1>6 DEF End
  <2>2. s \in Seq(Entries)
    BY <1>6 DEF Linked
  <2>3. Read(w)' = s
    BY <1>2, <1>6, <2>1, <2>2, ConcatEmptySeq DEF Read
  <2>4. Typed'
    BY <1>2, <1>6, <2>1, <2>2 DEF Typed
  <2>5. OnlyTheHolder'
    BY <1>1, <1>2, <2>1 DEF OnlyTheHolder
  <2>6. Linked(chain') /\ \A v \in Writers : Linked(Read(v)')
    BY <1>6, <2>3
  <2> QED
    BY <2>4, <2>5, <2>6 DEF Chained, Linked, LinkedAt
<1>7. ASSUME NEW w \in Writers, Commit(w) PROVE Chained'
  <2>1. own[w] # <<>>
    <3>1. Len(own[w]) = Appends[w] /\ Appends[w] \in Nat \ {0}
      BY <1>7, ChainAssumption DEF Commit, ChainAssumption
    <3> QED
      BY <3>1
  <2>2. \A v \in Writers : v # w => own[v] = <<>>
    BY <1>1, <2>1 DEF OnlyTheHolder
  <2>3. chain' = Read(w) /\ Linked(Read(w)) /\ End(w)
    BY <1>1, <1>7 DEF Commit, Read
  <2>4. ASSUME NEW v \in Writers, v # w PROVE Read(v)' = Read(w)
    <3>1. own'[v] = <<>>
      BY <1>2, <2>2, <2>3, <2>4 DEF End
    <3>2. Read(w) \in Seq(Entries)
      BY <2>3 DEF Linked
    <3>3. Read(v)' = chain' \o own'[v]
      BY DEF Read
    <3> QED
      BY <2>3, <3>1, <3>2, <3>3, ConcatEmptySeq
  <2> QED
    BY <1>6, <2>3, <2>4
<1>8. ASSUME NEW w \in Writers, Rollback(w) PROVE Chained'
  <2>1. chain' = chain /\ Linked(chain) /\ End(w)
    BY <1>1, <1>8 DEF Rollback
  <2>2. CASE lock = w
    <3>1. \A v \in Writers : v # w => own[v] = <<>>
      BY <1>1, <2>2 DEF OnlyTheHolder
    <3>2. ASSUME NEW v \in Writers, v # w PROVE Read(v)' = chain
      <4>1. own'[v] = <<>>
        BY <1>2, <2>1, <3>1, <3>2 DEF End
      <4>2. Read(v)' = chain' \o own'[v]
        BY DEF Read
      <4> QED
        BY <1>2, <2>1, <4>1, <4>2, ConcatEmptySeq
    <3> QED
      BY <1>6, <2>1, <3>2
  <2>3. CASE lock # w
    <3>1. own[w] = <<>> /\ pc[w] # "locked"
      BY <1>1, <2>3 DEF OnlyTheHolder
    <3>2. UNCHANGED <<chain, own, lock>> /\ pc' = [pc EXCEPT ![w] = "over"]
      BY <1>2, <2>1, <2>3, <3>1 DEF End
    <3>3. Typed' /\ OnlyTheHolder'
      BY <1>1, <1>2, <3>2 DEF Typed, OnlyTheHolder
    <3> QED
      BY <1>3, <3>2, <3>3 DEF Chained
  <2> QED
    BY <2>2, <2>3
<1>9. CASE UNCHANGED vars
  <2>1. Typed' /\ OnlyTheHolder'
    BY <1>1, <1>9 DEF Typed, OnlyTheHolder, vars
  <2> QED
    BY <1>3, <1>9, <2>1 DEF Chained, vars
<1> QED
  BY <1>4, <1>5, <1>7, <1>8, <1>9 DEF Next

LEMMA ChainedAlways ==
    Spec => []Chained
<1> QED
  BY ChainedInitially, ChainedNext, PTL DEF Spec

\* Every row, committed or not, is a number and a payload that a writer wrote.
THEOREM TypeCorrect ==
    Spec => []TypeOK
<1>1. Chained => TypeOK
  <2> SUFFICES ASSUME Chained PROVE TypeOK
    OBVIOUS
  <2>1. Typed
    BY DEF Chained
  <2>2. \A r \in Entries : IsRow(r)
    BY DEF Entries, IsRow, Payloads
  <2>3. ASSUME NEW s \in Seq(Entries), NEW r \in ToSet(s) PROVE IsRow(r)
    <3>1. r \in Entries
      BY <2>3 DEF ToSet
    <3> QED
      BY <2>2, <3>1
  <2> QED
    BY <2>1, <2>3 DEF Typed, TypeOK
<1> QED
  BY <1>1, ChainedAlways, PTL

\* One chain: however many transactions append at once and whichever of them
\* roll back, what each sees is numbered without a gap and linked row by row,
\* and no two hold rows that are not committed.
THEOREM ChainIsOne ==
    Spec => []OneChain
<1>1. Chained => OneChain
  <2> SUFFICES ASSUME Chained PROVE OneChain
    OBVIOUS
  <2>1. \A w \in Writers : Linked(Read(w)) /\ OnlyTheHolder
    BY DEF Chained
  <2>2. ASSUME NEW w \in Writers, NEW i \in DOMAIN Read(w)
        PROVE  /\ Read(w)[i].seq = i - 1
               /\ Read(w)[i].prev = IF i = 1 THEN Genesis ELSE Read(w)[i - 1].hash
    <3>1. i \in 1 .. Len(Read(w))
      BY <2>1 DEF Linked
    <3> QED
      BY <2>1, <3>1 DEF Linked, LinkedAt
  <2>3. \A v, w \in Writers : v # w => own[v] = <<>> \/ own[w] = <<>>
    BY <2>1 DEF OnlyTheHolder
  <2> QED
    BY <2>2, <2>3 DEF OneChain
<1> QED
  BY <1>1, ChainedAlways, PTL

-----------------------------------------------------------------------------
(***************************************************************************)
(* The verifier: it reports the first row at which something is wrong.     *)
(***************************************************************************)
LEMMA NoBreak ==
    ASSUME NEW rows, \A i \in DOMAIN rows : Break(rows, i) = "none"
    PROVE  Verify(rows) = Intact
<1>1. {i \in DOMAIN rows : Break(rows, i) # "none"} = {}
  OBVIOUS
<1> QED
  BY <1>1 DEF Verify

LEMMA FirstBreak ==
    ASSUME NEW rows, NEW n \in Nat, DOMAIN rows = 1 .. n, NEW i \in 1 .. n,
           Break(rows, i) # "none",
           \A j \in 1 .. i - 1 : Break(rows, j) = "none"
    PROVE  Verify(rows) = [kind |-> Break(rows, i), seq |-> rows[i].seq]
<1> DEFINE breaks == {j \in DOMAIN rows : Break(rows, j) # "none"}
           first == CHOOSE j \in breaks : \A k \in breaks : j <= k
<1>1. i \in breaks /\ \A k \in breaks : i <= k
  OBVIOUS
<1>2. first \in breaks /\ \A k \in breaks : first <= k
  BY <1>1
<1>3. first = i
  BY <1>1, <1>2
<1>4. breaks # {}
  BY <1>1
<1>5. Verify(rows) = [kind |-> Break(rows, first), seq |-> rows[first].seq]
  BY <1>4 DEF Verify
<1> QED
  BY <1>3, <1>5

\* A row that is well linked to a row before it is no break.
LEMMA LinkedIsNoBreak ==
    ASSUME NEW rows, NEW i \in Nat \ {0},
           rows[i].hash = Append(rows[i].prev, rows[i].payload),
           i > 1 => /\ rows[i].seq = rows[i - 1].seq + 1
                    /\ rows[i].prev = rows[i - 1].hash
    PROVE  Break(rows, i) = "none"
<1> QED
  BY DEF Break, Hash

\* What was written verifies, the whole of it and every range, for a chain of
\* any length and while any number of transactions append.
THEOREM WholeVerifies ==
    Spec => []WholeIsIntact
<1>1. ASSUME NEW s, Linked(s), NEW i \in DOMAIN s, NEW j \in DOMAIN s
      PROVE  Verify(SubSeq(s, i, j)) = Intact
  <2> DEFINE t == SubSeq(s, i, j)
             m == IF i <= j THEN j - i + 1 ELSE 0
  <2>1. /\ s \in Seq(Entries) /\ DOMAIN s = 1 .. Len(s) /\ Len(s) \in Nat
        /\ \A k \in 1 .. Len(s) : LinkedAt(s, k) /\ s[k] \in Entries
    BY <1>1 DEF Linked
  <2>2. i \in Int /\ j \in Int /\ i >= 1 /\ j <= Len(s)
    BY <1>1, <2>1
  <2>3. \A k \in i .. j : s[k] \in Entries
    BY <2>1, <2>2
  <2>4. /\ t \in Seq(Entries) /\ Len(t) = m
        /\ \A k \in 1 .. j - i + 1 : t[k] = s[i + k - 1]
    BY <2>2, <2>3, SubSeqProperties
  <2>5. DOMAIN t = 1 .. m
    BY <2>4
  <2> HIDE DEF t
  <2>6. ASSUME NEW k \in DOMAIN t PROVE Break(t, k) = "none"
    <3>0. k \in 1 .. j - i + 1
      BY <2>2, <2>5
    <3>1. /\ k \in Nat /\ k >= 1 /\ t[k] = s[i + k - 1] /\ i + k - 1 \in 1 .. Len(s)
          /\ k > 1 => /\ t[k - 1] = s[i + k - 1 - 1] /\ i + k - 1 # 1
                      /\ i + k - 1 - 1 \in 1 .. Len(s)
      <4>1. k \in Nat /\ k >= 1 /\ i + k - 1 \in 1 .. Len(s)
        BY <2>1, <2>2, <3>0
      <4>2. t[k] = s[i + k - 1]
        BY <2>4, <3>0
      <4>3. k > 1 => k - 1 \in 1 .. j - i + 1 /\ i + (k - 1) - 1 = i + k - 1 - 1
        BY <2>2, <3>0
      <4>4. k > 1 => t[k - 1] = s[i + k - 1 - 1]
        BY <2>4, <4>3
      <4>5. k > 1 => i + k - 1 # 1 /\ i + k - 1 - 1 \in 1 .. Len(s)
        BY <2>1, <2>2, <3>0
      <4> QED
        BY <4>1, <4>2, <4>4, <4>5
    <3>2. t[k].hash = Append(t[k].prev, t[k].payload)
      BY <2>1, <3>1 DEF LinkedAt
    <3>3. ASSUME k > 1 PROVE t[k].seq = t[k - 1].seq + 1 /\ t[k].prev = t[k - 1].hash
      <4> DEFINE l == i + k - 1
      <4>1. l \in 2 .. Len(s) /\ l - 1 \in 1 .. Len(s) /\ t[k] = s[l] /\ t[k - 1] = s[l - 1]
        BY <2>2, <3>1, <3>3
      <4> HIDE DEF l
      <4>2. s[l].seq = l - 1 /\ s[l].prev = s[l - 1].hash /\ s[l - 1].seq = l - 1 - 1
        BY <2>1, <4>1 DEF LinkedAt
      <4> QED
        BY <4>1, <4>2
    <3>4. k \in Nat \ {0}
      BY <3>1
    <3> QED
      BY <3>2, <3>3, <3>4, LinkedIsNoBreak
  <2> QED
    BY <2>6, NoBreak DEF t
<1>2. Chained => WholeIsIntact
  BY <1>1 DEF Chained, WholeIsIntact
<1> QED
  BY <1>2, ChainedAlways, PTL

\* A hash is taken over the payload, so another payload has another hash.
LEMMA ForgedHashDiffers ==
    ASSUME NEW x \in Entries
    PROVE  Append(x.prev, Forged) # Append(x.prev, x.payload)
<1> DEFINE S == Payloads \cup {Forged}
<1>1. x.prev \in Seq(Payloads) /\ x.payload \in S /\ Forged \in S
  BY DEF Entries, Hashes
<1>2. x.payload # Forged
  BY ChainAssumption DEF ChainAssumption, Entries, Payloads
<1>3. x.prev \in Seq(S)
  BY <1>1, SeqMonotonic, Zenon
<1> HIDE DEF S
<1>4. Append(x.prev, Forged) = Append(x.prev, x.payload)
         <=> x.prev = x.prev /\ Forged = x.payload
  BY <1>1, <1>3, AppendInjective
<1> QED
  BY <1>2, <1>4

\* A chain that is well linked up to row i - 1 has no break before row i.
LEMMA CleanBefore ==
    ASSUME NEW s, Linked(s), NEW rows, NEW i \in 1 .. Len(s) + 1,
           \A j \in 1 .. i - 1 : rows[j] = s[j]
    PROVE  \A j \in 1 .. i - 1 : Break(rows, j) = "none"
<1> SUFFICES ASSUME NEW j \in 1 .. i - 1 PROVE Break(rows, j) = "none"
  OBVIOUS
<1>1. Len(s) \in Nat /\ j \in 1 .. Len(s) /\ j \in Nat \ {0}
  BY DEF Linked
<1>2. LinkedAt(s, j)
  BY <1>1 DEF Linked
<1>3. j > 1 => LinkedAt(s, j - 1) /\ rows[j - 1] = s[j - 1]
  BY <1>1 DEF Linked
<1>4. rows[j].hash = Append(rows[j].prev, rows[j].payload)
  BY <1>2 DEF LinkedAt
<1>5. j > 1 => rows[j].seq = rows[j - 1].seq + 1 /\ rows[j].prev = rows[j - 1].hash
  BY <1>1, <1>2, <1>3 DEF LinkedAt
<1> QED
  BY <1>1, <1>4, <1>5, LinkedIsNoBreak

\* Whatever single row of a chain of any length is edited, re-signed or deleted,
\* the verifier reports what was done to it, at its row or the one after it.
THEOREM BreaksFound ==
    Spec => []BreaksAreNamed
<1>1. ASSUME Chained, NEW i \in DOMAIN chain
      PROVE  /\ Verify(Edited(i)) = [kind |-> "hash_mismatch", seq |-> i - 1]
             /\ i < Len(chain) => Verify(Resigned(i)) = [kind |-> "link_mismatch", seq |-> i]
             /\ 1 < i /\ i < Len(chain) =>
                   Verify(RemoveAt(chain, i)) = [kind |-> "sequence_gap", seq |-> i]
  <2> DEFINE n == Len(chain)
             x == chain[i]
  <2>1. /\ Linked(chain) /\ chain \in Seq(Entries) /\ n \in Nat /\ DOMAIN chain = 1 .. n
        /\ \A j \in 1 .. n : LinkedAt(chain, j) /\ chain[j] \in Entries
    BY <1>1 DEF Chained, Linked
  <2>2. i \in 1 .. n /\ i \in 1 .. n + 1 /\ i \in Nat /\ i >= 1
    BY <2>1
  <2>3. x \in Entries /\ x.hash = Append(x.prev, x.payload) /\ x.seq = i - 1
    BY <2>1, <2>2 DEF LinkedAt
  <2>4. i > 1 => x.prev = chain[i - 1].hash /\ x.seq = chain[i - 1].seq + 1
    <3>1. i > 1 => LinkedAt(chain, i) /\ LinkedAt(chain, i - 1)
      BY <2>1, <2>2
    <3> QED
      BY <2>2, <3>1 DEF LinkedAt
  <2>5. Verify(Edited(i)) = [kind |-> "hash_mismatch", seq |-> i - 1]
    <3> DEFINE y == [x EXCEPT !.payload = Forged]
               rows == Edited(i)
    <3>1. /\ DOMAIN rows = 1 .. n /\ rows[i] = y
          /\ \A j \in 1 .. n : j # i => rows[j] = chain[j]
      BY <2>1, <2>2 DEF Edited
    <3>2. y.seq = x.seq /\ y.prev = x.prev /\ y.hash = x.hash /\ y.payload = Forged
      BY <2>3 DEF Entries
    <3> HIDE DEF y, rows
    <3>3. \A j \in 1 .. i - 1 : rows[j] = chain[j]
      BY <2>1, <2>2, <3>1
    <3>4. \A j \in 1 .. i - 1 : Break(rows, j) = "none"
      BY <2>1, <2>2, <3>3, CleanBefore
    <3>5. i > 1 => rows[i - 1] = chain[i - 1]
      BY <2>2, <3>3
    <3>6. Append(x.prev, Forged) # x.hash
      BY <2>3, ForgedHashDiffers
    <3>7. Break(rows, i) = "hash_mismatch"
      BY <2>2, <2>4, <3>1, <3>2, <3>5, <3>6 DEF Break, Hash
    <3>8. Verify(rows) = [kind |-> Break(rows, i), seq |-> rows[i].seq]
      BY <2>1, <2>2, <3>1, <3>4, <3>7, FirstBreak
    <3> QED
      BY <2>3, <3>1, <3>2, <3>7, <3>8 DEF rows
  <2>6. ASSUME i < n PROVE Verify(Resigned(i)) = [kind |-> "link_mismatch", seq |-> i]
    <3> DEFINE y == [x EXCEPT !.payload = Forged, !.hash = Hash(x.prev, Forged)]
               rows == Resigned(i)
               k == i + 1
    <3>1. /\ DOMAIN rows = 1 .. n /\ rows[i] = y
          /\ \A j \in 1 .. n : j # i => rows[j] = chain[j]
      BY <2>1, <2>2 DEF Resigned
    <3>2. /\ y.seq = x.seq /\ y.prev = x.prev /\ y.payload = Forged
          /\ y.hash = Append(x.prev, Forged)
      BY <2>3 DEF Entries, Hash
    <3> HIDE DEF y, rows
    <3>3. \A j \in 1 .. i - 1 : rows[j] = chain[j]
      BY <2>1, <2>2, <3>1
    <3>4. \A j \in 1 .. i - 1 : Break(rows, j) = "none"
      BY <2>1, <2>2, <3>3, CleanBefore
    <3>5. i > 1 => rows[i - 1] = chain[i - 1]
      BY <2>2, <3>3
    <3>6. Break(rows, i) = "none"
      <4>1. rows[i].hash = Append(rows[i].prev, rows[i].payload)
        BY <3>1, <3>2
      <4>2. i > 1 => rows[i].seq = rows[i - 1].seq + 1 /\ rows[i].prev = rows[i - 1].hash
        BY <2>4, <3>1, <3>2, <3>5
      <4>3. i \in Nat \ {0}
        BY <2>2
      <4> QED
        BY <4>1, <4>2, <4>3, LinkedIsNoBreak
    <3>7. k \in 1 .. n /\ k > 1 /\ k - 1 = i /\ k # i /\ k # 1
      BY <2>1, <2>2, <2>6
    <3>8. LinkedAt(chain, k) /\ rows[k] = chain[k]
      BY <2>1, <3>1, <3>7
    <3>9. \A j \in 1 .. k - 1 : Break(rows, j) = "none"
      BY <2>2, <3>4, <3>6
    <3> HIDE DEF k
    <3>10. rows[k].seq = i /\ rows[k].prev = x.hash
      BY <3>7, <3>8 DEF LinkedAt
    <3>11. rows[k - 1] = y /\ y.seq + 1 = i /\ y.hash # x.hash
      BY <2>2, <2>3, <3>1, <3>2, <3>7, ForgedHashDiffers
    <3>12. Break(rows, k) = "link_mismatch"
      BY <3>7, <3>10, <3>11 DEF Break
    <3>13. Verify(rows) = [kind |-> Break(rows, k), seq |-> rows[k].seq]
      BY <2>1, <3>1, <3>7, <3>9, <3>12, FirstBreak
    <3> QED
      BY <3>10, <3>12, <3>13 DEF rows
  <2>7. ASSUME 1 < i, i < n
        PROVE  Verify(RemoveAt(chain, i)) = [kind |-> "sequence_gap", seq |-> i]
    <3> DEFINE a == SubSeq(chain, 1, i - 1)
               b == SubSeq(chain, i + 1, n)
               rows == RemoveAt(chain, i)
    <3>1. /\ a \in Seq(Entries) /\ Len(a) = i - 1
          /\ \A j \in 1 .. i - 1 : a[j] = chain[j]
      <4>1. 1 \in Int /\ i - 1 \in Int /\ \A j \in 1 .. i - 1 : chain[j] \in Entries
        BY <2>1, <2>2
      <4>2. /\ a \in Seq(Entries) /\ Len(a) = IF 1 <= i - 1 THEN i - 1 - 1 + 1 ELSE 0
            /\ \A j \in 1 .. i - 1 - 1 + 1 : a[j] = chain[1 + j - 1]
        BY <4>1, SubSeqProperties
      <4>3. i - 1 - 1 + 1 = i - 1 /\ 1 <= i - 1 /\ \A j \in 1 .. i - 1 : 1 + j - 1 = j
        BY <2>2, <2>7
      <4> HIDE DEF a
      <4> QED
        BY <4>2, <4>3
    <3>2. /\ b \in Seq(Entries) /\ Len(b) = n - i /\ b[1] = chain[i + 1]
      <4>1. i + 1 \in Int /\ n \in Int /\ \A j \in i + 1 .. n : chain[j] \in Entries
        BY <2>1, <2>2
      <4>2. /\ b \in Seq(Entries) /\ Len(b) = IF i + 1 <= n THEN n - (i + 1) + 1 ELSE 0
            /\ \A j \in 1 .. n - (i + 1) + 1 : b[j] = chain[i + 1 + j - 1]
        BY <4>1, SubSeqProperties
      <4>3. /\ n - (i + 1) + 1 = n - i /\ i + 1 <= n /\ 1 \in 1 .. n - (i + 1) + 1
            /\ i + 1 + 1 - 1 = i + 1
        BY <2>1, <2>2, <2>7
      <4> HIDE DEF b
      <4> QED
        BY <4>2, <4>3
    <3>3. rows = a \o b
      BY DEF RemoveAt
    <3> HIDE DEF a, b, rows
    <3>4. /\ rows \in Seq(Entries) /\ Len(rows) = Len(a) + Len(b)
          /\ \A j \in 1 .. Len(a) + Len(b) :
                rows[j] = IF j <= Len(a) THEN a[j] ELSE b[j - Len(a)]
      BY <3>1, <3>2, <3>3, ConcatProperties
    <3>5. Len(a) + Len(b) = n - 1 /\ DOMAIN rows = 1 .. n - 1 /\ n - 1 \in Nat
      BY <2>1, <2>2, <3>1, <3>2, <3>4
    <3>6. \A j \in 1 .. i - 1 : rows[j] = chain[j]
      BY <2>1, <2>2, <2>7, <3>1, <3>4, <3>5
    <3>7. rows[i] = chain[i + 1]
      <4>1. i \in 1 .. Len(a) + Len(b) /\ ~ (i <= Len(a)) /\ i - Len(a) = 1
        BY <2>1, <2>2, <2>7, <3>1, <3>5
      <4> QED
        BY <3>2, <3>4, <4>1
    <3>8. \A j \in 1 .. i - 1 : Break(rows, j) = "none"
      BY <2>1, <2>2, <3>6, CleanBefore
    <3>9. rows[i].seq = i
      <4>1. i + 1 \in 1 .. n
        BY <2>1, <2>2, <2>7
      <4>2. chain[i + 1].seq = i + 1 - 1
        BY <2>1, <4>1 DEF LinkedAt
      <4> QED
        BY <2>2, <3>7, <4>2
    <3>10. rows[i - 1].seq + 1 = i - 1
      <4>1. i - 1 \in 1 .. i - 1 /\ i - 1 \in 1 .. n
        BY <2>1, <2>2, <2>7
      <4>2. rows[i - 1].seq = i - 1 - 1
        BY <2>1, <3>6, <4>1 DEF LinkedAt
      <4> QED
        BY <2>2, <4>2
    <3>11. Break(rows, i) = "sequence_gap"
      BY <2>2, <2>7, <3>9, <3>10 DEF Break
    <3>12. i \in 1 .. n - 1
      BY <2>1, <2>2, <2>7
    <3>13. Verify(rows) = [kind |-> Break(rows, i), seq |-> rows[i].seq]
      BY <3>5, <3>8, <3>11, <3>12, FirstBreak
    <3> QED
      BY <3>9, <3>11, <3>13 DEF rows
  <2> QED
    BY <2>5, <2>6, <2>7
<1>2. Chained => BreaksAreNamed
  BY <1>1 DEF BreaksAreNamed
<1> QED
  BY <1>2, ChainedAlways, PTL
=============================================================================
