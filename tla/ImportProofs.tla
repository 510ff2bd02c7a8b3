---------------------------- MODULE ImportProofs -----------------------------
(***************************************************************************)
(* What an import may say of the documents it made, for any file, any      *)
(* number of overlapping calls of commit, and any deaths, timeouts and     *)
(* changes of the master.  First what an answer is worth: whoever says     *)
(* created has a document to show, because only the holder of a key        *)
(* records its answer.  Then why no row is in two documents: orders are    *)
(* kept apart by the customer's PO number, all else by a key per row.      *)
(***************************************************************************)
EXTENDS DataImport, TLAPS, WellFoundedInduction

Working == {"work", "record"}
KeyTypes == [state : {"free", "pending", "completed"}, rows : SUBSET Rows,
             answer : Answers]
CallTypes == [phase : {"none", "sent", "looked", "work", "record", "answered"},
              key : Rows \cup {0}, rows : SUBSET Rows, answer : Answers]
CommitTypes == [pc : {"idle", "find", "insert", "prepare", "read", "loop", "wait", "close"},
                refused : SUBSET Rows, pending : SUBSET Rows,
                calls : SUBSET Calls, status : BatchStatuses]

\* The first of some rows is one of them.
LEMMA FirstIsIn ==
    ASSUME NEW s \in SUBSET Rows, s # {}
    PROVE  First(s) \in s
<1>1. Rows \subseteq Nat
  BY ImportAssumption DEF ImportAssumption
<1>2. PICK r \in s : \A q \in s : ~(<<q, r>> \in OpToRel(<, Nat))
  BY <1>1, WFMin, NatLessThanWellFounded, Zenon
<1>3. \A q \in s : ~(q < r)
  BY <1>1, <1>2 DEF OpToRel
<1>4. \A q \in s : r =< q
  BY <1>1, <1>3
<1> QED
  BY <1>4 DEF First

\* Groups are groups of rows that pass, and no row is in two of them.
LEMMA GroupsApart ==
    ASSUME NEW bad \in SUBSET Rows
    PROVE  /\ Groups(bad) \subseteq SUBSET Rows
           /\ \A s \in Groups(bad) : s # {} /\ First(s) \in s
           /\ \A s, t \in Groups(bad) : s \cap t # {} => s = t
<1>1. \A r \in Rows \ bad : r \in GroupOf(r, bad) /\ GroupOf(r, bad) \subseteq Rows
  BY DEF GroupOf, Together
<1>2. \A q, r \in Rows \ bad :
         GroupOf(q, bad) \cap GroupOf(r, bad) # {} => GroupOf(q, bad) = GroupOf(r, bad)
  BY DEF GroupOf, Together
<1>3. Groups(bad) \subseteq SUBSET Rows /\ \A s \in Groups(bad) : s # {}
  BY <1>1 DEF Groups
<1> QED
  BY <1>2, <1>3, FirstIsIn DEF Groups

\* The empty records are well typed.
LEMMA EmptyTypes ==
    NoKey \in KeyTypes /\ NoCall \in CallTypes /\ NoCommit \in CommitTypes
  BY DEF NoKey, NoCall, NoCommit, KeyTypes, CallTypes, CommitTypes, Answers, BatchStatuses

\* The types, and: a request that is under way has the key of a row.
TablesTyped ==
    /\ target \in Targets /\ refused \in SUBSET Rows /\ batch \in BatchStatuses
    /\ row \in [Rows -> RowStatuses] /\ docs \in [SUBSET Rows -> Nat]
    /\ slipped \subseteq SUBSET Rows
    /\ spent \in [commit : Nat, fault : Nat, change : Nat]
CallsTyped ==
    /\ ledger \in [Rows -> KeyTypes] /\ call \in [Calls -> CallTypes]
    /\ \A c \in Calls : call[c].phase # "none" => call[c].key \in Rows
CommitsTyped == commit \in [Importers -> CommitTypes]
Typed == TablesTyped /\ CallsTyped /\ CommitsTyped

LEMMA InitTyped == Init => Typed
<1> SUFFICES ASSUME Init PROVE Typed
  OBVIOUS
<1>1. CommitsTyped
  BY EmptyTypes DEF Init, CommitsTyped
<1>2. CallsTyped
  BY EmptyTypes DEF Init, CallsTyped, NoCall
<1>3. TablesTyped
  BY DEF Init, TablesTyped, BatchStatuses, RowStatuses
<1> QED
  BY <1>1, <1>2, <1>3 DEF Typed

\* A pass whose record changes in one of these ways keeps it well typed.
LEMMA CommitStep ==
    ASSUME CommitsTyped, NEW i \in Importers, NEW next,
           \/ next = [commit EXCEPT ![i] = NoCommit]
           \/ \E label \in {"find", "insert", "prepare", "read"} :
                 next = [commit EXCEPT ![i].pc = label]
           \/ \E bad \in SUBSET Rows :
                 next = [commit EXCEPT ![i].pc = "find", ![i].refused = bad]
           \/ \E some \in SUBSET Rows :
                 next = [commit EXCEPT ![i].pc = "loop", ![i].pending = some]
           \/ \E c \in Calls : next = [commit EXCEPT ![i].pc = "wait", ![i].calls = {c}]
           \/ \E some \in SUBSET Rows :
                 next = [commit EXCEPT ![i].pc = "loop", ![i].calls = {},
                                       ![i].pending = some]
           \/ \E status \in BatchStatuses :
                 next = [commit EXCEPT ![i].pc = "close", ![i].status = status]
    PROVE  next \in [Importers -> CommitTypes]
  BY EmptyTypes DEF CommitsTyped, CommitTypes

\* A pass keeps its own record well typed.
LEMMA CommitTyped ==
    ASSUME Typed, NEW i \in Importers, Commit(i)
    PROVE  CommitsTyped'
<1>0. CommitsTyped /\ refused \in SUBSET Rows
  BY DEF Typed, TablesTyped
<1>1. CASE Assess(i)
  BY <1>0, <1>1, CommitStep DEF Assess, CommitsTyped
<1>2. CASE FindBatch(i) \/ InsertBatch(i)
  BY <1>0, <1>2, CommitStep DEF FindBatch, InsertBatch, Goto, CommitsTyped
<1>3. CASE PrepareBatch(i) \/ CloseBatch(i)
  BY <1>0, <1>3, CommitStep DEF PrepareBatch, CloseBatch, Goto, CommitsTyped
<1>4. CASE ReadPending(i)
  <2>1. {r \in Rows : row[r] = "accepted"} \in SUBSET Rows
    OBVIOUS
  <2> QED
    BY <1>0, <1>4, <2>1, CommitStep DEF ReadPending, CommitsTyped
<1>5. ASSUME NEW c \in Calls, NEW s \in SUBSET Rows, PostGroup(i, c, s)
      PROVE  CommitsTyped'
  BY <1>0, <1>5, CommitStep DEF PostGroup, CommitsTyped
<1>6. ASSUME NEW c \in Calls, RecordOutcome(i, c) PROVE CommitsTyped'
  <2>1. commit[i].pending \ call[c].rows \in SUBSET Rows
    BY <1>0 DEF CommitsTyped, CommitTypes
  <2> QED
    BY <1>0, <1>6, <2>1, CommitStep DEF RecordOutcome, CommitsTyped
<1>7. CASE CountRows(i)
  <2>1. Summary \in BatchStatuses
    BY DEF Summary, BatchStatuses
  <2> QED
    BY <1>0, <1>7, <2>1, CommitStep DEF CountRows, CommitsTyped
<1> QED
  BY <1>1, <1>2, <1>3, <1>4, <1>5, <1>6, <1>7 DEF Commit

\* And the tables.
LEMMA CommitTables ==
    ASSUME Typed, NEW i \in Importers, Commit(i)
    PROVE  TablesTyped'
<1> USE DEF Typed, TablesTyped
<1>1. CASE Assess(i)
  BY <1>1 DEF Assess
<1>2. CASE InsertBatch(i)
  BY <1>2 DEF InsertBatch, BatchStatuses, RowStatuses
<1>3. CASE PrepareBatch(i)
  BY <1>3 DEF PrepareBatch, BatchStatuses
<1>4. ASSUME NEW c \in Calls, RecordOutcome(i, c) PROVE TablesTyped'
  <2>1. StatusFor(call[c].answer) \in RowStatuses
    BY DEF StatusFor, RowStatuses
  <2>2. row' \in [Rows -> RowStatuses]
    BY <1>4, <2>1 DEF RecordOutcome
  <2> QED
    BY <1>4, <2>2 DEF RecordOutcome
<1>5. CASE CloseBatch(i)
  <2>1. commit[i].status \in BatchStatuses
    BY DEF CommitsTyped, CommitTypes
  <2> QED
    BY <1>5, <2>1 DEF CloseBatch
<1>6. CASE UNCHANGED <<target, refused, batch, row, docs, slipped, spent>>
  BY <1>6
<1>7. \/ Assess(i) \/ InsertBatch(i) \/ PrepareBatch(i) \/ CloseBatch(i)
      \/ (\E c \in Calls : RecordOutcome(i, c))
      \/ UNCHANGED <<target, refused, batch, row, docs, slipped, spent>>
  BY DEF Commit, FindBatch, ReadPending, PostGroup, CountRows
<1> QED
  BY <1>1, <1>2, <1>3, <1>4, <1>5, <1>6, <1>7

\* A request that is replaced by a well-typed one leaves the requests well typed.
LEMMA CallStep ==
    ASSUME CallsTyped, ledger' \in [Rows -> KeyTypes],
           NEW c \in Calls, NEW x \in CallTypes, x.phase # "none" => x.key \in Rows,
           call' = [call EXCEPT ![c] = x]
    PROVE  CallsTyped'
  BY DEF CallsTyped

\* A request that is answered, with one of the answers.
LEMMA AnswerStep ==
    ASSUME CallsTyped, ledger' \in [Rows -> KeyTypes],
           NEW c \in Calls, call[c].phase # "none", NEW a \in Answers,
           call' = Answered(c, a)
    PROVE  CallsTyped'
  BY DEF CallsTyped, CallTypes, Answered

LEMMA RequestTyped ==
    ASSUME Typed, NEW c \in Calls, Request(c)
    PROVE  CallsTyped' /\ TablesTyped' /\ CommitsTyped'
<1> USE DEF Typed
<1>0. AsksLedger(c) => call[c].phase # "none"
  BY DEF AsksLedger
<1>1. CASE Refuse(c)
  BY <1>1, AnswerStep DEF Refuse, Answers, CallsTyped, TablesTyped, CommitsTyped
<1>2. CASE LookForDuplicates(c)
  <2>1. CASE call' = Answered(c, "suspected")
    BY <1>2, <2>1, AnswerStep
       DEF LookForDuplicates, Answers, CallsTyped, TablesTyped, CommitsTyped
  <2>2. CASE call' = [call EXCEPT ![c].phase = "looked"]
    BY <1>2, <2>2 DEF LookForDuplicates, CallsTyped, CallTypes, TablesTyped, CommitsTyped
  <2> QED
    BY <1>2, <2>1, <2>2 DEF LookForDuplicates
<1>3. CASE ClaimKey(c)
  <2>1. ledger' \in [Rows -> KeyTypes]
    BY <1>3 DEF ClaimKey, CallsTyped, KeyTypes, CallTypes, Answers
  <2>2. CallsTyped'
    BY <1>0, <1>3, <2>1 DEF ClaimKey, CallsTyped, CallTypes
  <2> QED
    BY <1>3, <2>2 DEF ClaimKey, TablesTyped, CommitsTyped
<1>4. CASE ResolveKey(c)
  <2>1. call[c].key \in Rows
    BY <1>0, <1>4 DEF ResolveKey, CallsTyped
  <2>2. ledger[call[c].key].answer \in Answers
    BY <2>1 DEF CallsTyped, KeyTypes
  <2>3. PICK a \in Answers : call' = Answered(c, a)
    BY <1>4, <2>2 DEF ResolveKey, Answers
  <2> QED
    BY <1>0, <1>4, <2>3, AnswerStep DEF ResolveKey, CallsTyped, TablesTyped, CommitsTyped
<1>5. CASE Work(c)
  <2>0. call[c].key \in Rows /\ call[c].rows \in SUBSET Rows
    BY <1>5 DEF Work, CallsTyped, CallTypes
  <2>1. ledger' \in [Rows -> KeyTypes]
    BY <1>5, <2>0, EmptyTypes DEF Work, DropClaim, CallsTyped
  <2>2. docs' \in [SUBSET Rows -> Nat]
    BY <1>5, <2>0 DEF Work, Lands, TablesTyped
  <2>3. CASE call' = Answered(c, "error")
    BY <1>5, <2>1, <2>2, <2>3, AnswerStep DEF Work, Answers, TablesTyped, CommitsTyped
  <2>4. ASSUME NEW a \in {"created", "suspected"},
               call' = [call EXCEPT ![c].phase = "record", ![c].answer = a]
        PROVE  CallsTyped'
    BY <2>0, <2>1, <2>4 DEF CallsTyped, CallTypes, Answers
  <2> QED
    BY <1>5, <2>2, <2>3, <2>4 DEF Work, TablesTyped, CommitsTyped
<1>6. CASE RecordAnswer(c)
  <2>1. call[c].answer \in Answers
    BY DEF CallsTyped, CallTypes
  <2>2. ASSUME NEW r \in Rows
        PROVE  [ledger[r] EXCEPT !.state = "completed", !.answer = call[c].answer] \in KeyTypes
    BY <2>1, ledger[r] \in KeyTypes DEF CallsTyped, KeyTypes
  <2>3. ledger' \in [Rows -> KeyTypes]
    BY <1>6, <2>2 DEF RecordAnswer, CallsTyped
  <2> QED
    BY <1>6, <2>1, <2>3, AnswerStep DEF RecordAnswer, TablesTyped, CommitsTyped
<1> QED
  BY <1>1, <1>2, <1>3, <1>4, <1>5, <1>6 DEF Request

\* Every step keeps the types.
LEMMA NextTyped ==
    ASSUME Typed, [Next]_vars
    PROVE  Typed'
<1> USE DEF Typed
<1>1. ASSUME NEW i \in Importers, Commit(i) PROVE CallsTyped'
  <2>1. ASSUME NEW c \in Calls, NEW s \in SUBSET Rows, PostGroup(i, c, s)
        PROVE  CallsTyped'
    <3>1. First(s \cap commit[i].pending) \in Rows
      BY <2>1, FirstIsIn DEF PostGroup, NextGroup, Left
    <3>2. ledger' \in [Rows -> KeyTypes]
      BY <2>1 DEF PostGroup, CallsTyped
    <3> QED
      BY <2>1, <3>1, <3>2 DEF PostGroup, CallsTyped, CallTypes, Answers
  <2>2. ASSUME NEW c \in Calls, RecordOutcome(i, c) PROVE CallsTyped'
    <3>1. ledger' \in [Rows -> KeyTypes] /\ NoCall.phase = "none"
      BY <2>2 DEF RecordOutcome, CallsTyped, NoCall
    <3>2. call' = [call EXCEPT ![c] = NoCall]
      BY <2>2 DEF RecordOutcome
    <3> QED
      BY <3>1, <3>2, EmptyTypes, CallStep
  <2>3. (\E c \in Calls, s \in SUBSET Rows : PostGroup(i, c, s))
          \/ (\E c \in Calls : RecordOutcome(i, c)) \/ UNCHANGED <<call, ledger>>
    BY <1>1 DEF Commit, Assess, FindBatch, InsertBatch, PrepareBatch, ReadPending,
                CountRows, CloseBatch
  <2> QED
    BY <2>1, <2>2, <2>3 DEF CallsTyped
<1>2. ASSUME NEW i \in Importers, GiveUp(i) PROVE Typed'
  BY <1>2, EmptyTypes, ImportAssumption
     DEF GiveUp, Fault, CallsTyped, TablesTyped, CommitsTyped, ImportAssumption
<1>3. ASSUME NEW c \in Calls, Unheard(c) \/ Die(c) PROVE Typed'
  <2>1. CallsTyped'
    <3>1. ledger' \in [Rows -> KeyTypes] /\ NoCall.phase = "none"
      BY <1>3 DEF Unheard, Die, CallsTyped, NoCall
    <3>2. call' = [call EXCEPT ![c] = NoCall]
      BY <1>3 DEF Unheard, Die
    <3> QED
      BY <3>1, <3>2, EmptyTypes, CallStep
  <2>2. CommitsTyped'
    BY <1>3, EmptyTypes DEF Unheard, Die, CommitsTyped
  <2>3. TablesTyped'
    BY <1>3 DEF Unheard, Die, Fault, TablesTyped
  <2> QED
    BY <2>1, <2>2, <2>3
<1>6. ASSUME NEW c \in Calls, Slip(c) PROVE Typed'
  <2>0. /\ call[c].phase # "none" /\ "error" \in Answers /\ call' = Answered(c, "error")
        /\ call[c].rows \in SUBSET Rows
    BY <1>6 DEF Slip, Lands, Answers, CallsTyped, CallTypes
  <2>1. ledger' \in [Rows -> KeyTypes]
    BY <1>6, EmptyTypes DEF Slip, DropClaim, CallsTyped
  <2>2. CallsTyped'
    BY <2>0, <2>1, AnswerStep
  <2>3. docs' \in [SUBSET Rows -> Nat] /\ slipped' \subseteq SUBSET Rows
    BY <1>6, <2>0 DEF Slip, Lands, TablesTyped
  <2> QED
    BY <1>6, <2>2, <2>3 DEF Slip, Fault, TablesTyped, CommitsTyped
<1>4. CASE MasterChanges
  BY <1>4 DEF MasterChanges, CallsTyped, TablesTyped, CommitsTyped
<1>5. CASE UNCHANGED vars
  BY <1>5 DEF vars, CallsTyped, TablesTyped, CommitsTyped
<1> QED
  BY <1>1, <1>2, <1>3, <1>4, <1>5, <1>6, CommitTyped, CommitTables, RequestTyped DEF Next

(***************************************************************************)
(* What an answer is worth.                                                *)
(***************************************************************************)
\* Who works under a key holds its row, alone.
Holds ==
    /\ \A c \in Calls : call[c].phase \in Working =>
          ledger[call[c].key].state = "pending" /\ ledger[call[c].key].rows = call[c].rows
    /\ \A c, d \in Calls :
          call[c].phase \in Working /\ call[d].phase \in Working /\ call[c].key = call[d].key
             => c = d

\* Created is said of documents that exist, by a request and by the ledger.
Truthful ==
    /\ \A c \in Calls : call[c].answer = "created" => docs[call[c].rows] > 0
    /\ \A r \in Rows : ledger[r].answer = "created" => docs[ledger[r].rows] > 0

\* A pass that found the batch completed found a document for every row.
Counted ==
    \A i \in Importers : commit[i].status = "completed" => \A r \in Rows : Carried(r)

Reliable == Typed /\ Holds /\ Truthful /\ Counted /\ ImportedIsReal /\ CompletedIsReal

\* What a step may do to the requests, the ledger and the documents.
Only(c) == \A d \in Calls \ {c} : call'[d] = call[d]
Harmless(c) ==
    /\ Only(c) /\ UNCHANGED <<ledger, docs>>
    /\ call'[c].phase \notin Working
    /\ call'[c].answer = "created" => UNCHANGED <<call[c].answer, call[c].rows>>
    /\ call'[c].phase # "none" =>
          \/ UNCHANGED <<call[c].key, call[c].rows>> /\ call[c].phase # "none"
          \/ \E i \in Importers, s \in SUBSET Rows : PostGroup(i, c, s)
LedgerStep(c) == ClaimKey(c) \/ ResolveKey(c) \/ Work(c) \/ Slip(c) \/ RecordAnswer(c)

LEMMA RequestSteps ==
    ASSUME Typed, [Next]_vars
    PROVE  \/ UNCHANGED <<ledger, docs, call>>
           \/ \E c \in Calls : Harmless(c) \/ LedgerStep(c)
<1> USE DEF Harmless, Only, Working
<1>0. /\ call \in [Calls -> CallTypes]
      /\ NoCall.phase = "none" /\ NoCall.answer = "error"
  BY DEF Typed, CallsTyped, NoCall
<1>1. ASSUME NEW i \in Importers, Commit(i)
      PROVE  \/ UNCHANGED <<ledger, docs, call>>
             \/ \E c \in Calls : Harmless(c)
  <2>1. ASSUME NEW c \in Calls, NEW s \in SUBSET Rows, PostGroup(i, c, s) PROVE Harmless(c)
    <3>1. /\ call'[c].phase = "sent" /\ call'[c].answer = "error"
          /\ \A d \in Calls \ {c} : call'[d] = call[d]
      BY <1>0, <2>1 DEF PostGroup
    <3> QED
      BY <2>1, <3>1 DEF PostGroup
  <2>2. ASSUME NEW c \in Calls, RecordOutcome(i, c) PROVE Harmless(c)
    BY <1>0, <2>2 DEF RecordOutcome
  <2> QED
    BY <1>1, <2>1, <2>2 DEF Commit, Assess, FindBatch, InsertBatch, PrepareBatch,
       ReadPending, CountRows, CloseBatch
<1>2. ASSUME NEW c \in Calls, Unheard(c) \/ Die(c) PROVE Harmless(c)
  BY <1>0, <1>2 DEF Unheard, Die
<1>3. ASSUME NEW c \in Calls, Refuse(c) \/ LookForDuplicates(c) PROVE Harmless(c)
  <2>1. CASE call' = Answered(c, "refused") \/ call' = Answered(c, "suspected")
    BY <1>0, <1>3, <2>1 DEF Answered, CallTypes, Refuse, LookForDuplicates
  <2>2. CASE call' = [call EXCEPT ![c].phase = "looked"]
    BY <1>0, <1>3, <2>2 DEF Refuse, LookForDuplicates, CallTypes
  <2> QED
    BY <1>3, <2>1, <2>2 DEF Refuse, LookForDuplicates
<1>4. (\E i \in Importers : GiveUp(i)) \/ MasterChanges \/ UNCHANGED vars
         => UNCHANGED <<ledger, docs, call>>
  BY DEF GiveUp, MasterChanges, vars
<1> QED
  BY <1>1, <1>2, <1>3, <1>4 DEF Next, Request, LedgerStep

\* Documents stay.
LEMMA DocsStay ==
    ASSUME Typed, [Next]_vars
    PROVE  \A s \in SUBSET Rows : docs[s] > 0 => docs'[s] > 0
<1>1. ASSUME NEW c \in Calls, LedgerStep(c), NEW s \in SUBSET Rows, docs[s] > 0
      PROVE  docs'[s] > 0
  <2>1. docs \in [SUBSET Rows -> Nat] /\ call[c].rows \in SUBSET Rows
    BY DEF Typed, TablesTyped, CallsTyped, CallTypes
  <2>2. docs' = [docs EXCEPT ![call[c].rows] = @ + 1] \/ docs' = docs
    BY <1>1 DEF LedgerStep, ClaimKey, ResolveKey, Work, Slip, Lands, RecordAnswer
  <2> QED
    BY <1>1, <2>1, <2>2
<1> QED
  BY <1>1, RequestSteps DEF Harmless

LEMMA CarriedStays ==
    ASSUME Typed, [Next]_vars, NEW r \in Rows, Carried(r)
    PROVE  Carried(r)'
  BY DocsStay DEF Carried

\* The claim stays a lock: the key of a worker is pending, so no other claims it.
LEMMA HoldsStays ==
    ASSUME Typed, Holds, [Next]_vars
    PROVE  Holds'
<1> USE DEF Holds
<1>0. ledger \in [Rows -> KeyTypes] /\ call \in [Calls -> CallTypes]
      /\ \A c \in Calls : call[c].phase # "none" => call[c].key \in Rows
  BY DEF Typed, CallsTyped
<1>1. CASE UNCHANGED <<ledger, docs, call>>
  BY <1>1
<1>2. ASSUME NEW c \in Calls, Harmless(c) PROVE Holds'
  BY <1>2 DEF Harmless, Only
<1>3. ASSUME NEW c \in Calls, ResolveKey(c) PROVE Holds'
  <2>1. Only(c) /\ call'[c].phase \notin Working /\ UNCHANGED ledger
    BY <1>0, <1>3 DEF ResolveKey, Answered, Only, CallTypes, Working
  <2> QED
    BY <2>1 DEF Only
<1>4. ASSUME NEW c \in Calls, ClaimKey(c) PROVE Holds'
  <2>1. /\ Only(c) /\ UNCHANGED <<call[c].key, call[c].rows>>
        /\ call[c].key \in Rows /\ ledger[call[c].key].state = "free"
    BY <1>0, <1>4 DEF ClaimKey, AsksLedger, Only, CallTypes
  <2>2. /\ ledger'[call[c].key].state = "pending"
        /\ ledger'[call[c].key].rows = call[c].rows
        /\ \A r \in Rows \ {call[c].key} : ledger'[r] = ledger[r]
    BY <1>0, <1>4, <2>1 DEF ClaimKey
  <2>3. \A d \in Calls \ {c} : call[d].phase \in Working =>
           call[d].key \in Rows \ {call[c].key}
    BY <1>0, <2>1 DEF Working
  <2> QED
    BY <2>1, <2>2, <2>3 DEF Only
<1>5. ASSUME NEW c \in Calls, Work(c) \/ Slip(c) PROVE Holds'
  <2>1. /\ Only(c) /\ UNCHANGED <<call[c].key, call[c].rows>> /\ call[c].phase \in Working
        /\ UNCHANGED ledger \/ call'[c].phase \notin Working
    BY <1>0, <1>5 DEF Work, Slip, Lands, Answered, Only, CallTypes, Working
  <2>2. \A r \in Rows \ {call[c].key} : ledger'[r] = ledger[r]
    BY <1>0, <1>5 DEF Work, Slip, DropClaim
  <2>3. \A d \in Calls \ {c} : call[d].phase \in Working =>
           call[d].key \in Rows \ {call[c].key}
    BY <1>0, <2>1 DEF Working
  <2> QED
    BY <2>1, <2>2, <2>3 DEF Only
<1>6. ASSUME NEW c \in Calls, RecordAnswer(c) PROVE Holds'
  <2>1. /\ Only(c) /\ call[c].phase \in Working /\ call'[c].phase \notin Working
        /\ \A r \in Rows \ {call[c].key} : ledger'[r] = ledger[r]
    BY <1>0, <1>6 DEF RecordAnswer, Answered, Only, CallTypes, Working
  <2>2. \A d \in Calls \ {c} : call[d].phase \in Working =>
           call[d].key \in Rows \ {call[c].key}
    BY <1>0, <2>1 DEF Working
  <2> QED
    BY <2>1, <2>2 DEF Only
<1> QED
  BY <1>1, <1>2, <1>3, <1>4, <1>5, <1>6, RequestSteps DEF LedgerStep

\* Nobody says created without a document: an answer is recorded by the worker
\* that made it, and replayed to a request for the same rows only.
LEMMA TruthfulStays ==
    ASSUME Typed, Holds, Truthful, [Next]_vars
    PROVE  Truthful'
<1> USE DEF Truthful
<1>0. /\ ledger \in [Rows -> KeyTypes] /\ call \in [Calls -> CallTypes]
      /\ docs \in [SUBSET Rows -> Nat]
      /\ \A c \in Calls : call[c].phase # "none" => call[c].key \in Rows
      /\ \A c \in Calls : call[c].rows \in SUBSET Rows
      /\ \A r \in Rows : ledger[r].rows \in SUBSET Rows
  BY DEF Typed, CallsTyped, TablesTyped, CallTypes, KeyTypes
<1>1. CASE UNCHANGED <<ledger, docs, call>>
  BY <1>1
<1>2. ASSUME NEW c \in Calls, Harmless(c) PROVE Truthful'
  BY <1>2 DEF Harmless, Only
<1>3. ASSUME NEW c \in Calls, ResolveKey(c) PROVE Truthful'
  <2>1. /\ Only(c) /\ UNCHANGED <<ledger, docs, call[c].rows>> /\ call[c].key \in Rows
    BY <1>0, <1>3 DEF ResolveKey, AsksLedger, Answered, Only, CallTypes
  <2>2. call'[c].answer = "created" => /\ ledger[call[c].key].answer = "created"
                                      /\ ledger[call[c].key].rows = call[c].rows
    BY <1>0, <1>3 DEF ResolveKey, Answered, CallTypes
  <2> QED
    BY <2>1, <2>2 DEF Only
<1>4. ASSUME NEW c \in Calls, ClaimKey(c) PROVE Truthful'
  <2>1. /\ Only(c) /\ UNCHANGED <<docs, call[c].answer, call[c].rows>>
    BY <1>0, <1>4 DEF ClaimKey, Only, CallTypes
  <2>2. \A r \in Rows : ledger'[r] = ledger[r] \/ ledger'[r].answer = "error"
    BY <1>0, <1>4 DEF ClaimKey
  <2> QED
    BY <2>1, <2>2 DEF Only
<1>5. ASSUME NEW c \in Calls, Work(c) \/ Slip(c) PROVE Truthful'
  <2>1. /\ Only(c) /\ UNCHANGED call[c].rows
    BY <1>0, <1>5 DEF Work, Slip, Answered, Only, CallTypes
  <2>2. \A r \in Rows : ledger'[r] = ledger[r] \/ ledger'[r].answer = "error"
    BY <1>0, <1>5 DEF Work, Slip, DropClaim, NoKey
  <2>3. call'[c].answer = "created" => docs'[call[c].rows] > 0
    BY <1>0, <1>5 DEF Work, Slip, Lands, Answered, CallTypes
  <2> QED
    BY <1>0, <2>1, <2>2, <2>3, DocsStay DEF Only
<1>6. ASSUME NEW c \in Calls, RecordAnswer(c) PROVE Truthful'
  <2>1. /\ Only(c) /\ UNCHANGED <<docs, call[c].answer, call[c].rows>>
    BY <1>0, <1>6 DEF RecordAnswer, Answered, Only, CallTypes
  <2>2. /\ \A r \in Rows \ {call[c].key} : ledger'[r] = ledger[r]
        /\ call[c].key \in Rows
        /\ ledger'[call[c].key].answer = call[c].answer
        /\ ledger'[call[c].key].rows = ledger[call[c].key].rows
    BY <1>0, <1>6 DEF RecordAnswer, KeyTypes
  <2>3. ledger[call[c].key].rows = call[c].rows
    BY <1>6 DEF RecordAnswer, Holds, Working
  <2> QED
    BY <2>1, <2>2, <2>3 DEF Only
<1> QED
  BY <1>1, <1>2, <1>3, <1>4, <1>5, <1>6, RequestSteps DEF LedgerStep

\* Rows are marked by a pass that has an answer in hand, whatever they said before.
LEMMA RowsStayReal ==
    ASSUME Typed, Truthful, ImportedIsReal, [Next]_vars
    PROVE  ImportedIsReal'
<1> USE DEF ImportedIsReal
<1>1. CASE UNCHANGED row
  BY <1>1, CarriedStays
<1>2. ASSUME NEW i \in Importers, InsertBatch(i) PROVE ImportedIsReal'
  <2>1. \A r \in Rows : row'[r] = "imported" => row[r] = "imported"
    BY <1>2 DEF InsertBatch
  <2> QED
    BY <2>1, CarriedStays
<1>3. ASSUME NEW i \in Importers, NEW c \in Calls, RecordOutcome(i, c) PROVE ImportedIsReal'
  <2>1. ASSUME NEW r \in Rows, row'[r] = "imported", row[r] # "imported" PROVE Carried(r)
    <3>1. r \in call[c].rows /\ StatusFor(call[c].answer) = "imported"
      BY <1>3, <2>1 DEF RecordOutcome
    <3>2. call[c].answer = "created"
      BY <3>1 DEF StatusFor
    <3>3. docs[call[c].rows] > 0 /\ call[c].rows \in SUBSET Rows
      BY <3>2 DEF Truthful, Typed, CallsTyped, CallTypes
    <3> QED
      BY <3>1, <3>3 DEF Carried
  <2> QED
    BY <2>1, CarriedStays
<1>4. \/ UNCHANGED row
      \/ \E i \in Importers : InsertBatch(i) \/ \E c \in Calls : RecordOutcome(i, c)
  BY DEF Next, vars, Commit, Assess, FindBatch, PrepareBatch, ReadPending, PostGroup,
         CountRows, CloseBatch, GiveUp, Request, Refuse, LookForDuplicates, ClaimKey,
         ResolveKey, Work, Slip, RecordAnswer, Unheard, Die, MasterChanges
<1> QED
  BY <1>1, <1>2, <1>3, <1>4

\* What a pass counted stays true until it closes the batch.
LEMMA CountedStays ==
    ASSUME Typed, Counted, ImportedIsReal, [Next]_vars
    PROVE  Counted'
<1>0. commit \in [Importers -> CommitTypes] /\ NoCommit.status = "running"
  BY DEF Typed, CommitsTyped, NoCommit
<1>1. ASSUME NEW i \in Importers, commit'[i].status = "completed"
      PROVE  \A r \in Rows : Carried(r)'
  <2>1. CASE commit[i].status = "completed"
    BY <2>1, CarriedStays DEF Counted
  <2>2. CASE CountRows(i)
    <3>1. Summary = "completed"
      BY <1>0, <1>1, <2>2 DEF CountRows, CommitTypes
    <3>2. \A r \in Rows : row[r] = "imported"
      BY <3>1 DEF Summary
    <3> QED
      BY <3>2, CarriedStays DEF ImportedIsReal
  <2>3. commit[i].status = "completed" \/ CountRows(i)
    <3>1. ASSUME NEW j \in Importers, Commit(j), ~CountRows(j)
          PROVE  commit'[i].status \in {commit[i].status, "running"}
      <4>1. CASE Assess(j) \/ FindBatch(j) \/ InsertBatch(j) \/ ReadPending(j)
        BY <1>0, <4>1 DEF Assess, FindBatch, InsertBatch, ReadPending, Goto, CommitTypes
      <4>2. CASE PrepareBatch(j) \/ CloseBatch(j)
        BY <1>0, <4>2 DEF PrepareBatch, CloseBatch, Goto, CommitTypes
      <4>3. ASSUME NEW c \in Calls, NEW s \in SUBSET Rows,
                   PostGroup(j, c, s) \/ RecordOutcome(j, c)
            PROVE  commit'[i].status = commit[i].status
        BY <1>0, <4>3 DEF PostGroup, RecordOutcome, CommitTypes
      <4> QED
        BY <3>1, <4>1, <4>2, <4>3 DEF Commit
    <3>2. ASSUME NEW j \in Importers, CountRows(j), i # j
          PROVE  commit'[i].status = commit[i].status
      BY <1>0, <3>2 DEF CountRows, CommitTypes
    <3>3. ASSUME NEW j \in Importers, GiveUp(j)
          PROVE  commit'[i].status \in {commit[i].status, "running"}
      BY <1>0, <3>3 DEF GiveUp
    <3>4. ASSUME NEW c \in Calls, Die(c)
          PROVE  commit'[i].status \in {commit[i].status, "running"}
      BY <1>0, <3>4 DEF Die
    <3>5. (\E c \in Calls : Request(c) \/ Slip(c) \/ Unheard(c)) \/ MasterChanges \/ UNCHANGED vars
             => UNCHANGED commit
      BY DEF Request, Refuse, LookForDuplicates, ClaimKey, ResolveKey, Work, Slip, RecordAnswer,
             Unheard, MasterChanges, vars
    <3> QED
      BY <1>1, <3>1, <3>2, <3>3, <3>4, <3>5 DEF Next
  <2> QED
    BY <2>1, <2>2, <2>3
<1> QED
  BY <1>1 DEF Counted, Carried

LEMMA CompletedStays ==
    ASSUME Typed, Counted, CompletedIsReal, [Next]_vars
    PROVE  CompletedIsReal'
<1>1. batch' # "completed" \/ batch' = batch \/ \E i \in Importers : CloseBatch(i)
  BY DEF Next, vars, Commit, Assess, FindBatch, InsertBatch, PrepareBatch, ReadPending,
         PostGroup, RecordOutcome, CountRows, GiveUp, Request, Refuse, LookForDuplicates,
         ClaimKey, ResolveKey, Work, Slip, RecordAnswer, Unheard, Die, MasterChanges
<1>2. ASSUME batch' = "completed" PROVE \A r \in Rows : Carried(r)
  BY <1>1, <1>2 DEF CloseBatch, Counted, CompletedIsReal
<1> QED
  BY <1>2, CarriedStays DEF CompletedIsReal

LEMMA ReliableInitially == Init => Reliable
<1> SUFFICES ASSUME Init PROVE Reliable
  OBVIOUS
<1>1. /\ \A c \in Calls : call[c].phase = "none" /\ call[c].answer = "error"
      /\ \A r \in Rows : ledger[r].answer = "error"
      /\ \A i \in Importers : commit[i].status = "running"
      /\ batch = "none" /\ \A r \in Rows : row[r] = "none"
  BY DEF Init, NoCall, NoKey, NoCommit
<1> QED
  BY <1>1, InitTyped
     DEF Reliable, Holds, Truthful, Counted, ImportedIsReal, CompletedIsReal, Working

\* The invariant of the answers, for any file and any number of passes.
LEMMA ReliableAlways == Spec => []Reliable
<1>1. Reliable /\ [Next]_vars => Reliable'
  BY NextTyped, HoldsStays, TruthfulStays, CountedStays, RowsStayReal, CompletedStays
     DEF Reliable
<1> QED
  BY <1>1, ReliableInitially, PTL DEF Spec

\* Whatever pass marked a row imported, and however late, the row is in a document
\* that exists (recordOutcome).
THEOREM ImportedRowsAreReal == Spec => []ImportedIsReal
  BY ReliableAlways, PTL DEF Reliable

\* A batch that says completed has a document for every row of the file (closeBatch).
THEOREM CompletedBatchIsReal == Spec => []CompletedIsReal
  BY ReliableAlways, PTL DEF Reliable

(***************************************************************************)
(* Why no row is in two documents.                                         *)
(***************************************************************************)
\* Orders: a purchase order is on one sales order.
Unique ==
    target = "sales_orders" =>
        \A s, t \in SUBSET Rows : docs[s] > 0 /\ docs[t] > 0 /\ s \cap t # {} =>
            s = t /\ docs[s] = 1

\* Everything else: a request is about one row, under the key of that row,
Requested ==
    target # "sales_orders" =>
        \A c \in Calls : call[c].phase # "none" =>
            call[c].key \in Rows /\ call[c].rows = {call[c].key}

\* each document is of one row, and unless work on it landed and threw it was made
\* once, its key is taken, and who is about to make one makes the first.
Keyed ==
    target # "sales_orders" =>
        /\ \A s \in SUBSET Rows : docs[s] > 0 =>
              \E r \in Rows : /\ s = {r}
                              /\ s \in slipped \/ (docs[s] = 1 /\ ledger[r].state # "free")
        /\ \A c \in Calls : call[c].phase = "work" /\ call[c].rows \notin slipped =>
              docs[call[c].rows] = 0

Apart == Unique /\ Requested /\ Keyed

LEMMA ApartInitially == Init => Apart
<1> SUFFICES ASSUME Init PROVE Apart
  OBVIOUS
<1>1. /\ \A c \in Calls : call[c].phase = "none"
      /\ \A s \in SUBSET Rows : docs[s] = 0
  BY DEF Init, NoCall
<1> QED
  BY <1>1 DEF Apart, Unique, Requested, Keyed

LEMMA TargetStays == [Next]_vars => UNCHANGED target
  BY DEF Next, vars, Commit, Assess, FindBatch, InsertBatch, PrepareBatch, ReadPending,
         PostGroup, RecordOutcome, CountRows, CloseBatch, GiveUp, Request, Refuse,
         LookForDuplicates, ClaimKey, ResolveKey, Work, Slip, RecordAnswer, Unheard, Die,
         MasterChanges

LEMMA UniqueStays ==
    ASSUME Typed, Unique, [Next]_vars
    PROVE  Unique'
<1>0. docs \in [SUBSET Rows -> Nat] /\ call \in [Calls -> CallTypes] /\ target' = target
  BY TargetStays DEF Typed, TablesTyped, CallsTyped
<1>1. CASE UNCHANGED docs
  BY <1>0, <1>1 DEF Unique
<1>2. ASSUME NEW c \in Calls, Lands(c), target = "sales_orders" PROVE Unique'
  <2> DEFINE new == call[c].rows
  <2>1. new \in SUBSET Rows /\ ~Taken(new) /\ docs' = [docs EXCEPT ![new] = @ + 1]
    BY <1>0, <1>2 DEF Lands, CallTypes
  <2> HIDE DEF new
  <2>2. ASSUME NEW s \in SUBSET Rows, docs[s] > 0 PROVE s \cap new = {}
    <3>1. \A q \in s : Carried(q)
      BY <2>2 DEF Carried
    <3> QED
      BY <1>2, <2>1, <3>1 DEF Taken
  <2>3. \A s \in SUBSET Rows : docs'[s] > 0 => docs[s] > 0 \/ s = new
    BY <1>0, <2>1
  <2>4. new # {} => docs'[new] = 1
    BY <1>0, <2>1, <2>2
  <2>5. \A s \in (SUBSET Rows) \ {new} : docs'[s] = docs[s]
    BY <1>0, <2>1
  <2> QED
    BY <1>0, <1>2, <2>2, <2>3, <2>4, <2>5 DEF Unique
<1>3. UNCHANGED docs \/ \E c \in Calls : Lands(c)
  BY RequestSteps DEF Harmless, LedgerStep, ClaimKey, ResolveKey, Work, Slip, RecordAnswer
<1> QED
  BY <1>0, <1>1, <1>2, <1>3 DEF Unique

\* A target that does not group posts its rows one by one.
LEMMA RequestedStays ==
    ASSUME Typed, Requested, [Next]_vars
    PROVE  Requested'
<1>0. /\ call \in [Calls -> CallTypes] /\ target' = target
      /\ \A i \in Importers : commit[i].refused \in SUBSET Rows
  BY TargetStays DEF Typed, CallsTyped, CommitsTyped, CommitTypes
<1> SUFFICES ASSUME target # "sales_orders"
             PROVE  \A c \in Calls : call'[c].phase # "none" =>
                       call'[c].key \in Rows /\ call'[c].rows = {call'[c].key}
  BY <1>0 DEF Requested
<1> DEFINE Good(x) == x.phase # "none" => x.key \in Rows /\ x.rows = {x.key}
<1>1. \A c \in Calls : Good(call[c])
  BY DEF Requested
<1>2. ASSUME NEW c \in Calls, Harmless(c) PROVE \A d \in Calls : Good(call'[d])
  <2>1. ASSUME NEW i \in Importers, NEW s \in SUBSET Rows, PostGroup(i, c, s)
        PROVE  Good(call'[c])
    <3>1. s \in Groups(commit[i].refused) /\ s \cap commit[i].pending # {}
      BY <2>1 DEF PostGroup, NextGroup, Left
    <3>2. PICK r \in Rows : s = {r}
      BY <3>1 DEF Groups, GroupOf, Together
    <3>3. s \cap commit[i].pending = {r} /\ First({r}) \in {r}
      BY <3>1, <3>2, FirstIsIn
    <3>4. call'[c].rows = s /\ call'[c].key = First(s \cap commit[i].pending)
      BY <1>0, <2>1 DEF PostGroup
    <3> QED
      BY <3>2, <3>3, <3>4
  <2> QED
    BY <1>1, <1>2, <2>1 DEF Harmless, Only
<1>3. ASSUME NEW c \in Calls, LedgerStep(c) PROVE \A d \in Calls : Good(call'[d])
  <2>1. Only(c) /\ UNCHANGED <<call[c].key, call[c].rows>> /\ call[c].phase # "none"
    <3>1. CASE ClaimKey(c)
      BY <1>0, <3>1 DEF ClaimKey, AsksLedger, Only, CallTypes
    <3>2. CASE ResolveKey(c)
      BY <1>0, <3>2 DEF ResolveKey, AsksLedger, Answered, Only, CallTypes
    <3>3. CASE Work(c)
      BY <1>0, <3>3 DEF Work, Answered, Only, CallTypes
    <3>5. CASE Slip(c)
      BY <1>0, <3>5 DEF Slip, Lands, Answered, Only, CallTypes
    <3>4. CASE RecordAnswer(c)
      BY <1>0, <3>4 DEF RecordAnswer, Answered, Only, CallTypes
    <3> QED
      BY <1>3, <3>1, <3>2, <3>3, <3>4, <3>5 DEF LedgerStep
  <2> QED
    BY <1>1, <2>1 DEF Only
<1> QED
  BY <1>1, <1>2, <1>3, RequestSteps

\* A document is made by the holder of its key, and its key is never free again,
\* unless the work threw after it landed.
LEMMA SlippedStays == [Next]_vars => \A s \in slipped : s \in slipped'
  BY DEF Next, vars, Commit, Assess, FindBatch, InsertBatch, PrepareBatch, ReadPending,
         PostGroup, RecordOutcome, CountRows, CloseBatch, GiveUp, Request, Refuse,
         LookForDuplicates, ClaimKey, ResolveKey, Work, Slip, RecordAnswer, Unheard, Die,
         MasterChanges

LEMMA KeyedStays ==
    ASSUME Typed, Holds, Requested, Keyed, [Next]_vars
    PROVE  Keyed'
<1>0. /\ ledger \in [Rows -> KeyTypes] /\ call \in [Calls -> CallTypes]
      /\ docs \in [SUBSET Rows -> Nat] /\ target' = target
      /\ \A s \in slipped : s \in slipped'
  BY TargetStays, SlippedStays DEF Typed, TablesTyped, CallsTyped
<1> DEFINE Made == \A s \in SUBSET Rows : docs[s] > 0 =>
                      \E r \in Rows : /\ s = {r}
                                      /\ s \in slipped \/ (docs[s] = 1 /\ ledger[r].state # "free")
           About == \A c \in Calls : call[c].phase = "work" /\ call[c].rows \notin slipped =>
                       docs[call[c].rows] = 0
<1> SUFFICES ASSUME target # "sales_orders" PROVE Made' /\ About'
  BY <1>0 DEF Keyed
<1>1. /\ Made /\ About
      /\ \A c \in Calls : call[c].phase # "none" =>
            call[c].key \in Rows /\ call[c].rows = {call[c].key}
  BY DEF Keyed, Requested
<1>3. CASE UNCHANGED <<ledger, docs, call>>
  BY <1>0, <1>1, <1>3
<1>4. ASSUME NEW c \in Calls, Harmless(c) PROVE Made' /\ About'
  BY <1>0, <1>1, <1>4 DEF Harmless, Only, Working
<1>5. ASSUME NEW c \in Calls, ClaimKey(c) PROVE Made' /\ About'
  <2>1. /\ Only(c) /\ UNCHANGED <<docs, slipped, call[c].rows>> /\ call[c].phase # "none"
        /\ ledger[call[c].key].state = "free"
    BY <1>0, <1>5 DEF ClaimKey, AsksLedger, Only, CallTypes
  <2>2. \A r \in Rows : ledger'[r] = ledger[r] \/ ledger'[r].state = "pending"
    BY <1>0, <1>5 DEF ClaimKey
  <2>3. call[c].rows \in slipped \/ docs[call[c].rows] = 0
    BY <1>0, <1>1, <2>1
  <2>4. ASSUME NEW s \in SUBSET Rows, docs[s] > 0
        PROVE  \E r \in Rows : /\ s = {r}
                               /\ s \in slipped \/ (docs[s] = 1 /\ ledger'[r].state # "free")
    BY <1>1, <2>2, <2>4
  <2>5. About'
    BY <1>1, <2>1, <2>3 DEF Only
  <2> QED
    BY <2>1, <2>4, <2>5
<1>6. ASSUME NEW c \in Calls, ResolveKey(c) PROVE Made' /\ About'
  <2>1. Only(c) /\ UNCHANGED <<ledger, docs>> /\ call'[c].phase = "answered"
    BY <1>0, <1>6 DEF ResolveKey, Answered, Only, CallTypes
  <2> QED
    BY <1>0, <1>1, <2>1 DEF Only
\* Work drops its claim, or makes the first document of its row.
<1>7. ASSUME NEW c \in Calls, Work(c) \/ Slip(c) PROVE Made' /\ About'
  <2>1. /\ Only(c) /\ call'[c].phase # "work"
        /\ call[c].key \in Rows /\ call[c].rows = {call[c].key}
        /\ call[c].rows \in SUBSET Rows
    BY <1>0, <1>1, <1>7 DEF Work, Slip, Lands, Answered, Only, CallTypes
  <2>2. ledger[call[c].key].state = "pending"
    BY <1>7 DEF Work, Slip, Lands, Holds, Working
  <2>3. CASE UNCHANGED docs /\ call[c].phase = "work"
    <3>1. \A r \in Rows \ {call[c].key} : ledger'[r] = ledger[r]
      BY <1>0, <1>7 DEF Work, Slip, DropClaim
    <3>2. ASSUME NEW s \in SUBSET Rows, docs[s] > 0
          PROVE  \E r \in Rows : /\ s = {r}
                                 /\ s \in slipped' \/ (docs[s] = 1 /\ ledger'[r].state # "free")
      <4>1. PICK r \in Rows : s = {r} /\ (s \in slipped \/ (docs[s] = 1 /\ ledger[r].state # "free"))
        BY <1>1, <3>2
      <4>2. ASSUME s \notin slipped, r = call[c].key PROVE FALSE
        <5>1. s = call[c].rows
          BY <2>1, <4>1, <4>2
        <5>2. docs[s] = 0
          BY <1>1, <2>3, <4>2, <5>1
        <5> QED
          BY <3>2, <5>2
      <4> QED
        BY <1>0, <3>1, <4>1, <4>2
    <3>3. About'
      BY <1>0, <1>1, <2>1, <2>3 DEF Only
    <3> QED
      BY <2>3, <3>2, <3>3
  <2>4. CASE UNCHANGED <<docs, ledger>>
    BY <1>0, <1>1, <2>1, <2>4 DEF Only
  <2>5. CASE /\ Lands(c)
             /\ \/ UNCHANGED ledger
                \/ /\ call[c].rows \in slipped'
                   /\ \A r \in Rows \ {call[c].key} : ledger'[r] = ledger[r]
    <3>1. /\ docs'[call[c].rows] = docs[call[c].rows] + 1
          /\ \A s \in (SUBSET Rows) \ {call[c].rows} : docs'[s] = docs[s]
      BY <1>0, <2>1, <2>5 DEF Lands
    <3>2. call[c].rows \in slipped' \/ docs[call[c].rows] = 0
      BY <1>0, <1>1, <2>5 DEF Lands
    <3>3. ASSUME NEW d \in Calls, call'[d].phase = "work", call'[d].rows \notin slipped'
          PROVE  docs'[call'[d].rows] = 0
      <4>1. d # c /\ call'[d] = call[d] /\ call[d].phase = "work"
        BY <2>1, <3>3 DEF Only
      <4>2. call[d].key # call[c].key
        BY <2>5, <4>1 DEF Holds, Lands, Working
      <4>3. call[d].rows # call[c].rows /\ call[d].rows \in SUBSET Rows
        BY <1>1, <2>1, <4>1, <4>2
      <4> QED
        BY <1>0, <1>1, <3>1, <3>3, <4>1, <4>3
    <3>4. ASSUME NEW s \in SUBSET Rows, docs'[s] > 0
          PROVE  \E r \in Rows : /\ s = {r}
                                 /\ s \in slipped' \/ (docs'[s] = 1 /\ ledger'[r].state # "free")
      <4>1. CASE s = call[c].rows
        BY <1>0, <2>1, <2>2, <2>5, <3>1, <3>2, <4>1
      <4>2. CASE s # call[c].rows
        <5>1. docs'[s] = docs[s]
          BY <3>1, <4>2
        <5>2. PICK r \in Rows :
                 s = {r} /\ (s \in slipped \/ (docs[s] = 1 /\ ledger[r].state # "free"))
          BY <1>1, <3>4, <5>1
        <5>3. r # call[c].key
          BY <2>1, <4>2, <5>2
        <5> QED
          BY <1>0, <2>5, <5>1, <5>2, <5>3
      <4> QED
        BY <4>1, <4>2
    <3> QED
      BY <3>3, <3>4
  <2>6. \/ UNCHANGED docs /\ call[c].phase = "work"
        \/ UNCHANGED <<docs, ledger>>
        \/ /\ Lands(c)
           /\ \/ UNCHANGED ledger
              \/ /\ call[c].rows \in slipped'
                 /\ \A r \in Rows \ {call[c].key} : ledger'[r] = ledger[r]
    <3>1. CASE Work(c)
      BY <3>1 DEF Work
    <3>2. CASE Slip(c)
      BY <1>0, <3>2 DEF Slip, DropClaim
    <3> QED
      BY <1>7, <3>1, <3>2
  <2> QED
    BY <2>3, <2>4, <2>5, <2>6
<1>8. ASSUME NEW c \in Calls, RecordAnswer(c) PROVE Made' /\ About'
  <2>1. Only(c) /\ UNCHANGED docs /\ call'[c].phase = "answered"
    BY <1>0, <1>8 DEF RecordAnswer, Answered, Only, CallTypes
  <2>2. \A r \in Rows : ledger'[r] = ledger[r] \/ ledger'[r].state = "completed"
    BY <1>0, <1>8 DEF RecordAnswer, KeyTypes
  <2> QED
    BY <1>0, <1>1, <2>1, <2>2 DEF Only
<1> QED
  BY <1>3, <1>4, <1>5, <1>6, <1>7, <1>8, RequestSteps DEF LedgerStep

\* No row is in two documents, for any file and any number of passes that overlap,
\* die or time out, and whatever becomes of the master; and a document is made twice
\* only by work that landed and threw, which a sales order survives as well.
THEOREM DocumentsAreOne == Spec => []OneDocument
<1>1. Reliable /\ Apart /\ [Next]_vars => Apart'
  BY UniqueStays, RequestedStays, KeyedStays DEF Apart, Reliable
<1>2. Apart => OneDocument
  <2>1. CASE target = "sales_orders"
    BY <2>1 DEF Apart, Unique, OneDocument
  <2>2. CASE target # "sales_orders"
    <3> SUFFICES ASSUME Apart, NEW s \in SUBSET Rows, NEW t \in SUBSET Rows,
                        docs[s] > 0, docs[t] > 0, s \cap t # {}
                 PROVE  s = t /\ (docs[s] = 1 \/ s \in slipped)
      BY <2>2 DEF OneDocument
    <3>1. (docs[s] = 1 \/ s \in slipped) /\ \E r \in Rows : s = {r}
      BY <2>2 DEF Apart, Keyed
    <3>2. \E r \in Rows : t = {r}
      BY <2>2 DEF Apart, Keyed
    <3> QED
      BY <3>1, <3>2
  <2> QED
    BY <2>1, <2>2
<1> QED
  BY <1>1, <1>2, ReliableAlways, ApartInitially, PTL DEF Spec
=============================================================================
