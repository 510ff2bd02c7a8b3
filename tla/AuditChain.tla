----------------------------- MODULE AuditChain ------------------------------
(***************************************************************************)
(* The hash-chained audit log of one tenant: appendInTx                    *)
(* (common/audit-log.service.ts) inside concurrent transactions, and       *)
(* verifyChainDetailed (packages/platform/src/audit/hash-chain.ts), which  *)
(* the verify job runs over the whole chain and the auditor pack over a    *)
(* range of it.  A hash is modelled by what it was taken over, so two      *)
(* hashes are equal only if their payloads and predecessors are.           *)
(***************************************************************************)
EXTENDS Integers, Sequences, SequencesExt

CONSTANTS
    Writers,    \* transactions that append to the chain
    Appends,    \* Appends[w]: how many rows w appends
    Forged,     \* a payload that nobody wrote
    Nobody

ChainAssumption ==
    /\ Appends \in [Writers -> Nat \ {0}]
    /\ Nobody \notin Writers
    /\ Forged \notin Writers \X Nat
ASSUME ChainAssumption

VARIABLES
    chain,      \* audit_log, as committed
    own,        \* own[w]: the rows w has inserted, not committed
    lock,       \* the advisory lock of the tenant
    pc          \* open, locked, or over

vars == <<chain, own, lock, pc>>

Genesis == <<>>
Hash(prev, payload) == Append(prev, payload)

Init ==
    /\ chain = <<>>
    /\ own = [w \in Writers |-> <<>>]
    /\ lock = Nobody
    /\ pc = [w \in Writers |-> "open"]

\* What w reads: the committed rows and its own.
Read(w) == chain \o own[w]

\* Mutant: no lock, every transaction appends to the last row it sees.
LockNothing(w) ==
    /\ pc[w] = "open"
    /\ pc' = [pc EXCEPT ![w] = "locked"]
    /\ UNCHANGED <<chain, own, lock>>

\* pg_advisory_xact_lock: waits, and is held until the transaction is over.
Lock(w) ==
    /\ pc[w] = "open" /\ lock \in {Nobody, w}
    /\ lock' = w
    /\ pc' = [pc EXCEPT ![w] = "locked"]
    /\ UNCHANGED <<chain, own>>

\* The row after the last one, with its hash.
Row(rows, payload) ==
    IF rows = <<>> THEN [seq |-> 0, prev |-> Genesis, payload |-> payload,
                         hash |-> Hash(Genesis, payload)]
    ELSE [seq |-> Last(rows).seq + 1, prev |-> Last(rows).hash, payload |-> payload,
          hash |-> Hash(Last(rows).hash, payload)]

Insert(w) ==
    /\ pc[w] = "locked" /\ Len(own[w]) < Appends[w]
    /\ own' = [own EXCEPT ![w] = Append(@, Row(Read(w), <<w, Len(@)>>))]
    /\ pc' = [pc EXCEPT ![w] = "open"]
    /\ UNCHANGED <<chain, lock>>

End(w) ==
    /\ pc' = [pc EXCEPT ![w] = "over"]
    /\ own' = [own EXCEPT ![w] = <<>>]
    /\ lock' = IF lock = w THEN Nobody ELSE lock

Commit(w) ==
    /\ pc[w] = "open" /\ Len(own[w]) = Appends[w]
    /\ chain' = chain \o own[w]
    /\ End(w)

\* The transaction fails, at any of its steps: its rows are gone.
Rollback(w) ==
    /\ pc[w] # "over"
    /\ End(w)
    /\ UNCHANGED chain

Next == \E w \in Writers : Lock(w) \/ Insert(w) \/ Commit(w) \/ Rollback(w)
Spec == Init /\ [][Next]_vars

(***************************************************************************)
(* verifyChainDetailed, on rows in the order of their numbers.             *)
(***************************************************************************)
\* Mutant: the first row is taken to have no predecessor.
BreakFromGenesis(rows, i) ==
    LET r == rows[i]
        prev == IF i = 1 THEN Genesis ELSE rows[i - 1].hash
    IN IF i > 1 /\ r.seq # rows[i - 1].seq + 1 THEN "sequence_gap"
       ELSE IF r.prev # prev THEN "link_mismatch"
       ELSE IF Hash(prev, r.payload) # r.hash THEN "hash_mismatch"
       ELSE "none"

\* Mutant: the link to the row before is not compared.
BreakUnlinked(rows, i) ==
    LET r == rows[i]
    IN IF i > 1 /\ r.seq # rows[i - 1].seq + 1 THEN "sequence_gap"
       ELSE IF Hash(r.prev, r.payload) # r.hash THEN "hash_mismatch"
       ELSE "none"

\* What the walk finds at row i, when it found nothing before.
Break(rows, i) ==
    LET r == rows[i]
        prev == IF i = 1 THEN r.prev ELSE rows[i - 1].hash
    IN IF i > 1 /\ r.seq # rows[i - 1].seq + 1 THEN "sequence_gap"
       ELSE IF r.prev # prev THEN "link_mismatch"
       ELSE IF Hash(prev, r.payload) # r.hash THEN "hash_mismatch"
       ELSE "none"

Intact == [kind |-> "none", seq |-> Nobody]

\* The first break, or none.
Verify(rows) ==
    LET breaks == {i \in DOMAIN rows : Break(rows, i) # "none"}
        first == CHOOSE i \in breaks : \A j \in breaks : i <= j
    IN IF breaks = {} THEN Intact
       ELSE [kind |-> Break(rows, first), seq |-> rows[first].seq]

(***************************************************************************)
(* Properties.                                                             *)
(***************************************************************************)
IsRow(r) == r.seq \in Nat /\ r.payload \in Writers \X Nat

\* Type invariant: every row is numbered from zero.
TypeOK ==
    /\ \A r \in ToSet(chain) : IsRow(r)
    /\ \A w \in Writers : \A r \in ToSet(own[w]) : IsRow(r)
    /\ lock \in Writers \cup {Nobody}
    /\ pc \in [Writers -> {"open", "locked", "over"}]

\* One chain, whoever appends at the same time and whoever rolls back: what a
\* transaction sees when it has written is numbered without a gap and linked row
\* by row, so that uq_audit_tenant_seq never refuses an append, and no two rows,
\* committed or not, share a number.
OneChain ==
    /\ \A w \in Writers : \A i \in DOMAIN Read(w) :
          /\ Read(w)[i].seq = i - 1
          /\ Read(w)[i].prev = IF i = 1 THEN Genesis ELSE Read(w)[i - 1].hash
    /\ \A v, w \in Writers : v # w => own[v] = <<>> \/ own[w] = <<>>

\* The verifier finds nothing wrong with what was written, whether it walks the
\* chain or a range of it, while others append.
WholeIsIntact ==
    \A w \in Writers : \A i, j \in DOMAIN Read(w) :
        Verify(SubSeq(Read(w), i, j)) = Intact

Edited(i) == [chain EXCEPT ![i].payload = Forged]
Resigned(i) == [chain EXCEPT ![i].payload = Forged, ![i].hash = Hash(chain[i].prev, Forged)]

\* "A hash mismatch means a row's content was changed in place; a link mismatch
\* means a row was replaced or re-signed; a sequence gap means a row was deleted
\* outright": each is found at its row, or at the row that follows it.
BreaksAreNamed ==
    \A i \in DOMAIN chain :
        /\ Verify(Edited(i)) = [kind |-> "hash_mismatch", seq |-> i - 1]
        /\ i < Len(chain) => Verify(Resigned(i)) = [kind |-> "link_mismatch", seq |-> i]
        /\ 1 < i /\ i < Len(chain) =>
              Verify(RemoveAt(chain, i)) = [kind |-> "sequence_gap", seq |-> i]

\* "Any insertion, deletion or edit of history breaks the chain": a chain from
\* which a row is missing does not verify.
MissingRowIsFound == \A i \in DOMAIN chain : Verify(RemoveAt(chain, i)) # Intact
=============================================================================
