----------------------------- MODULE DataImport -----------------------------
(***************************************************************************)
(* The commit of a spreadsheet import (dataimport.service.ts): any number  *)
(* of calls with the same file, from a retry, a double click or a          *)
(* colleague, find or create one batch, read its outstanding rows once,    *)
(* and post one document per group of rows to the module that owns the     *)
(* master, under the Idempotency-Key of the group's first outstanding row. *)
(* The posted requests live on their own: the importer may time out or die *)
(* while its request goes on.  The master changes between two passes, and  *)
(* with it the verdict on the rows.  The ledger of keys is the one of      *)
(* Idempotency, with its claim and its lookup as one step.                 *)
(***************************************************************************)
EXTENDS FiniteSets, Integers

CONSTANTS
    Importers,      \* the calls of commit that may run at the same time
    Calls,          \* the domain requests that may be in flight at once
    Rows,           \* the spreadsheet rows, by number
    Document,       \* of each row: what its target groups rows by
    Header,         \* of each row: the fields its document must agree on
    PoNumber,       \* of each row: the customer and the order number as written
    Resembling,     \* the rows that may resemble a record of somebody else
    Targets,        \* the targets a file of these rows may be imported to
    Skip,           \* whether suspected duplicates are left alone (onDuplicate)
    MaxCommits,     \* bound: calls of commit
    MaxFaults,      \* bound: importers and requests that die or time out
    MaxChanges      \* bound: changes of the master

AllTargets == {"sales_orders", "stock_opening", "customers", "items", "vendors"}

ImportAssumption ==
    /\ Rows \subseteq Nat /\ IsFiniteSet(Rows)
    /\ Resembling \subseteq Rows
    /\ Targets \subseteq AllTargets
    /\ Skip \in BOOLEAN
    \* custPoNo is a header field; the grouping ignores its case and its margins.
    /\ \A q, r \in Rows :
          /\ Document[q] = Document[r] /\ Header[q] = Header[r] => PoNumber[q] = PoNumber[r]
          /\ PoNumber[q] = PoNumber[r] => Document[q] = Document[r]
    /\ {MaxCommits, MaxFaults, MaxChanges} \subseteq Nat
ASSUME ImportAssumption

VARIABLES
    target,     \* what the file is imported to
    refused,    \* the rows that name something the master does not hold now
    batch,      \* data_import_batch.status, or "none"
    row,        \* row[r]: data_import_row.status, or "none"
    ledger,     \* ledger[r]: the idempotency_key row of r's key
    docs,       \* docs[s]: how many documents were made of exactly the rows s
    slipped,    \* the rows whose document was made by work that threw all the same
    call,       \* call[c]: a request to a domain endpoint
    commit,     \* commit[i]: where a call of commit is, and what it read
    spent       \* commits, faults and changes of the master so far

vars == <<target, refused, batch, row, ledger, docs, slipped, call, commit, spent>>

RowStatuses == {"none", "accepted", "rejected", "imported", "failed",
                "duplicate_suspected"}
BatchStatuses == {"none", "running", "completed", "partial", "failed"}
Answers == {"created", "suspected", "refused", "mismatch", "in_progress", "error"}

NoKey == [state |-> "free", rows |-> {}, answer |-> "error"]
NoCall == [phase |-> "none", key |-> 0, rows |-> {}, answer |-> "error"]
NoCommit == [pc |-> "idle", refused |-> {}, pending |-> {}, calls |-> {},
             status |-> "running"]

(***************************************************************************)
(* The verdict on a file: rows that pass, grouped into documents.          *)
(***************************************************************************)
\* Targets without groupBy get one group per row (groupImportRows).
Together(r, s) == r = s \/ (target = "sales_orders" /\ Document[r] = Document[s])

GroupOf(r, bad) == {s \in Rows \ bad : Together(r, s)}

\* A group whose rows disagree on a header field takes all of them down with it.
Agrees(s) == \A q, r \in s : Header[q] = Header[r]

Groups(bad) == {s \in {GroupOf(r, bad) : r \in Rows \ bad} : Agrees(s)}

Accepted(bad) == UNION Groups(bad)

First(s) == CHOOSE r \in s : \A q \in s : r =< q

Init ==
    /\ target \in Targets
    /\ refused \in SUBSET Rows
    /\ batch = "none"
    /\ row = [r \in Rows |-> "none"]
    /\ ledger = [r \in Rows |-> NoKey]
    /\ docs = [s \in SUBSET Rows |-> 0]
    /\ slipped = {}
    /\ call = [c \in Calls |-> NoCall]
    /\ commit = [i \in Importers |-> NoCommit]
    /\ spent = [commit |-> 0, fault |-> 0, change |-> 0]

\* The row is in a document that exists.
Carried(r) == \E s \in SUBSET Rows : r \in s /\ docs[s] > 0

(***************************************************************************)
(* One call of commit.                                                     *)
(***************************************************************************)
At(i, label) == commit[i].pc = label
Goto(i, label) == commit' = [commit EXCEPT ![i].pc = label]

\* assess: the verdict is the server's, of the master as it is now.
Assess(i) ==
    /\ At(i, "idle") /\ spent.commit < MaxCommits
    /\ spent' = [spent EXCEPT !.commit = @ + 1]
    /\ commit' = [commit EXCEPT ![i].pc = "find", ![i].refused = refused]
    /\ UNCHANGED <<target, refused, batch, row, ledger, docs, slipped, call>>

\* openBatch looks for a batch of this content first.
FindBatch(i) ==
    /\ At(i, "find")
    /\ Goto(i, IF batch = "none" THEN "insert" ELSE "prepare")
    /\ UNCHANGED <<target, refused, batch, row, ledger, docs, slipped, call, spent>>

\* All rows are written down before any domain call; of two inserts
\* uq_dibatch_tenant_content lets one through, and the loser joins it.
InsertBatch(i) ==
    /\ At(i, "insert")
    /\ \/ /\ batch = "none" /\ batch' = "running"
          /\ row' = [r \in Rows |-> IF r \in Accepted(commit[i].refused)
                                    THEN "accepted" ELSE "rejected"]
       \/ batch # "none" /\ UNCHANGED <<batch, row>>
    /\ Goto(i, "prepare")
    /\ UNCHANGED <<target, refused, ledger, docs, slipped, call, spent>>

\* canResumeImportBatch, for a batch that is not running.
MayResume == batch \in {"partial", "failed"} /\ \E r \in Rows : row[r] = "accepted"

\* prepareBatchForCommit, under a lock on the batch row.
PrepareBatch(i) ==
    /\ At(i, "prepare")
    /\ \/ batch = "running" /\ Goto(i, "read") /\ UNCHANGED batch
       \/ MayResume /\ batch' = "running" /\ Goto(i, "read")
       \/ /\ batch # "running" /\ ~MayResume /\ UNCHANGED batch
          /\ commit' = [commit EXCEPT ![i] = NoCommit]
    /\ UNCHANGED <<target, refused, row, ledger, docs, slipped, call, spent>>

\* pendingRows: read once, before the loop.
ReadPending(i) ==
    /\ At(i, "read")
    /\ commit' = [commit EXCEPT ![i].pc = "loop",
                                ![i].pending = {r \in Rows : row[r] = "accepted"}]
    /\ UNCHANGED <<target, refused, batch, row, ledger, docs, slipped, call, spent>>

\* The groups that are left, and the one the loop takes next: in file order.
Left(i) == {s \in Groups(commit[i].refused) : s \cap commit[i].pending # {}}
NextGroup(i, s) == s \in Left(i) /\ \A t \in Left(i) : First(s) =< First(t)

\* The group's key is the key of its first row that is outstanding.
PostGroup(i, c, s) ==
    /\ At(i, "loop") /\ NextGroup(i, s)
    /\ call[c].phase = "none"
    /\ call' = [call EXCEPT ![c] =
                   [phase |-> "sent", key |-> First(s \cap commit[i].pending),
                    rows |-> s, answer |-> "error"]]
    /\ commit' = [commit EXCEPT ![i].pc = "wait", ![i].calls = {c}]
    /\ UNCHANGED <<target, refused, batch, row, ledger, docs, slipped, spent>>

\* What recordOutcome writes for an answer.
StatusFor(answer) ==
    CASE answer = "created" -> "imported"
      [] answer = "suspected" /\ Skip -> "duplicate_suspected"
      [] OTHER -> "failed"

\* One update of every row of the group, whatever the rows say by now.  A key in
\* progress leaves them as they are.
RecordOutcome(i, c) ==
    /\ At(i, "wait") /\ c \in commit[i].calls /\ call[c].phase = "answered"
    /\ row' = [r \in Rows |->
                  IF r \in call[c].rows /\ call[c].answer # "in_progress"
                  THEN StatusFor(call[c].answer) ELSE row[r]]
    /\ commit' = [commit EXCEPT ![i].pc = "loop", ![i].calls = {},
                                ![i].pending = @ \ call[c].rows]
    /\ call' = [call EXCEPT ![c] = NoCall]
    /\ UNCHANGED <<target, refused, batch, ledger, docs, slipped, spent>>

\* Mutant: a row that still waits for an answer is not counted as unfinished.
SummaryForgetsPending ==
    LET unfinished == {r \in Rows : row[r] \in {"failed", "rejected", "duplicate_suspected"}}
    IN IF \A r \in Rows : row[r] # "imported" /\ unfinished # {} THEN "failed"
       ELSE IF unfinished # {} THEN "partial" ELSE "completed"

\* summarise, and the status closeBatch draws from it.
Summary ==
    LET unfinished == {r \in Rows : row[r] # "imported"}
    IN IF unfinished # {} /\ unfinished = Rows THEN "failed"
       ELSE IF unfinished # {} THEN "partial" ELSE "completed"

\* closeBatch counts in one transaction and writes in another.
CountRows(i) ==
    /\ At(i, "loop") /\ Left(i) = {}
    /\ commit' = [commit EXCEPT ![i].pc = "close", ![i].status = Summary]
    /\ UNCHANGED <<target, refused, batch, row, ledger, docs, slipped, call, spent>>

CloseBatch(i) ==
    /\ At(i, "close")
    /\ batch' = commit[i].status
    /\ commit' = [commit EXCEPT ![i] = NoCommit]
    /\ UNCHANGED <<target, refused, row, ledger, docs, slipped, call, spent>>

(***************************************************************************)
(* A request to the endpoint that owns the master.                         *)
(***************************************************************************)
\* Items and vendors look for duplicates before they ask the ledger, customers
\* as part of the work; orders and stock entries do not look.
LooksFirst == Skip /\ target \in {"items", "vendors"}
LooksInside == Skip /\ target = "customers"

Answered(c, answer) == [call EXCEPT ![c].phase = "answered", ![c].answer = answer]

\* The guard of the route, the session or the payload refuses before the ledger.
Refuse(c) ==
    /\ call[c].phase = "sent"
    /\ call' = Answered(c, "refused")
    /\ UNCHANGED <<target, refused, batch, row, ledger, docs, slipped, commit, spent>>

\* findDuplicates: the master may hold something similar, and certainly does when
\* it holds the document of this very row.
Similar(s) == \E r \in s : r \in Resembling \/ Carried(r)

LookForDuplicates(c) ==
    /\ call[c].phase = "sent" /\ LooksFirst
    /\ \/ Similar(call[c].rows) /\ call' = Answered(c, "suspected")
       \/ /\ \A r \in call[c].rows : ~Carried(r)
          /\ call' = [call EXCEPT ![c].phase = "looked"]
    /\ UNCHANGED <<target, refused, batch, row, ledger, docs, slipped, commit, spent>>

AsksLedger(c) == call[c].phase = (IF LooksFirst THEN "looked" ELSE "sent")

\* Mutant: the table has no unique key, a second claim overwrites the first.
ClaimKeyAnyway(c) ==
    /\ AsksLedger(c)
    /\ ledger' = [ledger EXCEPT ![call[c].key] =
                     [state |-> "pending", rows |-> call[c].rows, answer |-> "error"]]
    /\ call' = [call EXCEPT ![c].phase = "work"]
    /\ UNCHANGED <<target, refused, batch, row, docs, slipped, commit, spent>>

\* runIdempotent: the key is free and the request claims it.
ClaimKey(c) ==
    /\ AsksLedger(c) /\ ledger[call[c].key].state = "free"
    /\ ledger' = [ledger EXCEPT ![call[c].key] =
                     [state |-> "pending", rows |-> call[c].rows, answer |-> "error"]]
    /\ call' = [call EXCEPT ![c].phase = "work"]
    /\ UNCHANGED <<target, refused, batch, row, docs, slipped, commit, spent>>

\* Mutant: the fingerprint of the body is not compared.
ResolveAnyBody(c) ==
    LET found == ledger[call[c].key] IN
    /\ AsksLedger(c) /\ found.state # "free"
    /\ call' = Answered(c, IF found.state = "completed" THEN found.answer
                           ELSE "in_progress")
    /\ UNCHANGED <<target, refused, batch, row, ledger, docs, slipped, commit, spent>>

\* resolveExisting: another body is a mismatch, a recorded answer is replayed.
ResolveKey(c) ==
    LET found == ledger[call[c].key] IN
    /\ AsksLedger(c) /\ found.state # "free"
    /\ call' = Answered(c, IF found.rows # call[c].rows THEN "mismatch"
                           ELSE IF found.state = "completed" THEN found.answer
                           ELSE "in_progress")
    /\ UNCHANGED <<target, refused, batch, row, ledger, docs, slipped, commit, spent>>

\* DUPLICATE_CUSTOMER_PO: a number, as written, is on one sales order.
Taken(s) ==
    /\ target = "sales_orders"
    /\ \E q \in Rows : Carried(q) /\ \E r \in s : PoNumber[q] = PoNumber[r]

\* The transaction of the work commits, and with it the document.
Lands(c) ==
    /\ call[c].phase = "work" /\ ~Taken(call[c].rows)
    /\ LooksInside => \A r \in call[c].rows : ~Carried(r)
    /\ docs' = [docs EXCEPT ![call[c].rows] = @ + 1]

DropClaim(c) == ledger' = [ledger EXCEPT ![call[c].key] = NoKey]

\* The work makes the document, finds a duplicate, or throws and drops its claim.
Work(c) ==
    /\ call[c].phase = "work"
    /\ \/ /\ Lands(c)
          /\ call' = [call EXCEPT ![c].phase = "record", ![c].answer = "created"]
          /\ UNCHANGED ledger
       \/ /\ LooksInside /\ Similar(call[c].rows)
          /\ call' = [call EXCEPT ![c].phase = "record", ![c].answer = "suspected"]
          /\ UNCHANGED <<ledger, docs>>
       \/ /\ DropClaim(c)
          /\ call' = Answered(c, "error")
          /\ UNCHANGED docs
    /\ UNCHANGED <<target, refused, batch, row, slipped, commit, spent>>

\* The answer is recorded under the key, and returned.
RecordAnswer(c) ==
    /\ call[c].phase = "record"
    /\ ledger' = [ledger EXCEPT ![call[c].key].state = "completed",
                                ![call[c].key].answer = call[c].answer]
    /\ call' = Answered(c, call[c].answer)
    /\ UNCHANGED <<target, refused, batch, row, docs, slipped, commit, spent>>

(***************************************************************************)
(* Failures and the rest of the factory.                                   *)
(***************************************************************************)
Fault ==
    /\ spent.fault < MaxFaults
    /\ spent' = [spent EXCEPT !.fault = @ + 1]

\* The importer dies, or its own call of 20 seconds times out and commit throws;
\* a request it has sent goes on.
GiveUp(i) ==
    /\ ~At(i, "idle") /\ Fault
    /\ commit' = [commit EXCEPT ![i] = NoCommit]
    /\ UNCHANGED <<target, refused, batch, row, ledger, docs, slipped, call>>

\* The connection is lost as the work commits, and the claim is dropped for work
\* that landed; or as the answer is recorded, and the claim stays.
Slip(c) ==
    /\ Fault /\ call' = Answered(c, "error")
    /\ \/ Lands(c) /\ slipped' = slipped \cup {call[c].rows} /\ DropClaim(c)
       \/ call[c].phase = "record" /\ UNCHANGED <<docs, slipped, ledger>>
    /\ UNCHANGED <<target, refused, batch, row, commit>>

\* Nobody waits for the answer.
Unheard(c) ==
    /\ call[c].phase = "answered" /\ \A i \in Importers : c \notin commit[i].calls
    /\ call' = [call EXCEPT ![c] = NoCall]
    /\ UNCHANGED <<target, refused, batch, row, ledger, docs, slipped, commit, spent>>

\* The process of the request dies; an importer that waits for it fails with it.
Die(c) ==
    /\ call[c].phase \notin {"none", "answered"} /\ Fault
    /\ call' = [call EXCEPT ![c] = NoCall]
    /\ commit' = [i \in Importers |->
                     IF c \in commit[i].calls THEN NoCommit ELSE commit[i]]
    /\ UNCHANGED <<target, refused, batch, row, ledger, docs, slipped>>

\* The targets whose rows name other records by code (handler.lookups).
LooksUp == target \in {"sales_orders", "stock_opening"}

\* A part is created or deactivated: other rows resolve.
MasterChanges ==
    /\ LooksUp /\ spent.change < MaxChanges
    /\ refused' \in SUBSET Rows \ {refused}
    /\ spent' = [spent EXCEPT !.change = @ + 1]
    /\ UNCHANGED <<target, batch, row, ledger, docs, slipped, call, commit>>

Commit(i) ==
    \/ Assess(i) \/ FindBatch(i) \/ InsertBatch(i) \/ PrepareBatch(i) \/ ReadPending(i)
    \/ \E c \in Calls, s \in SUBSET Rows : PostGroup(i, c, s)
    \/ \E c \in Calls : RecordOutcome(i, c)
    \/ CountRows(i) \/ CloseBatch(i)

Request(c) ==
    \/ Refuse(c) \/ LookForDuplicates(c) \/ ClaimKey(c) \/ ResolveKey(c)
    \/ Work(c) \/ RecordAnswer(c)

Next ==
    \/ \E i \in Importers : Commit(i) \/ GiveUp(i)
    \/ \E c \in Calls : Request(c) \/ Slip(c) \/ Unheard(c) \/ Die(c)
    \/ MasterChanges

Spec == Init /\ [][Next]_vars

(***************************************************************************)
(* Properties.                                                             *)
(***************************************************************************)
\* Type invariant of the tables, the requests and the importers.
TypeOK ==
    /\ target \in Targets /\ refused \subseteq Rows
    /\ batch \in BatchStatuses
    /\ row \in [Rows -> RowStatuses]
    /\ ledger \in [Rows -> [state : {"free", "pending", "completed"},
                            rows : SUBSET Rows, answer : Answers]]
    /\ docs \in [SUBSET Rows -> Nat] /\ slipped \subseteq SUBSET Rows
    /\ call \in [Calls -> [phase : {"none", "sent", "looked", "work", "record", "answered"},
                           key : Rows \cup {0}, rows : SUBSET Rows, answer : Answers]]
    /\ commit \in [Importers -> [pc : {"idle", "find", "insert", "prepare", "read",
                                       "loop", "wait", "close"},
                                 refused : SUBSET Rows, pending : SUBSET Rows,
                                 calls : SUBSET Calls, status : BatchStatuses]]
    /\ spent \in [commit : Nat, fault : Nat, change : Nat]

\* A row that says imported is in a document that exists, whichever pass recorded
\* it, and whichever pass made the document (recordOutcome: "the document either
\* exists or it does not").
ImportedIsReal == \A r \in Rows : row[r] = "imported" => Carried(r)

\* No row becomes part of two documents, however many passes overlap, time out or
\* die, and whatever the master makes of the rows meanwhile: "a retry can never
\* create a document twice".  Only work that landed and threw may be done again,
\* for its claim is gone, and never that of a sales order.
OneDocument ==
    \A s, t \in SUBSET Rows : docs[s] > 0 /\ docs[t] > 0 /\ s \cap t # {} =>
        s = t /\ (docs[s] = 1 \/ (s \in slipped /\ target # "sales_orders"))

\* A batch that says completed has every row of the file in a document, although
\* it was counted in one transaction and closed in another, maybe by a pass that
\* others have overtaken ("`partial` is a first-class outcome rather than a
\* rounded-up success").
CompletedIsReal == batch = "completed" => \A r \in Rows : Carried(r)

(***************************************************************************)
(* Statements of the documentation the code does not keep.                 *)
(***************************************************************************)
\* 0096_data_import.sql: "The same row committed twice replays the first answer
\* [...] which is what makes a resume safe after a crash between the domain write
\* and the bookkeeping".  A row that was held as a duplicate, "Nothing was
\* created", has no document of its own.
HeldIsUnmade == \A r \in Rows : row[r] = "duplicate_suspected" => ~Carried(r)

\* "the wizard's final screen and the history screen cannot disagree about what
\* happened": with no pass at work, the batch says what its rows say.
BatchSpeaksForRows ==
    batch \notin {"none", "running"} /\ (\A i \in Importers : At(i, "idle"))
        => batch = Summary
=============================================================================
