----------------------------- MODULE Idempotency ----------------------------
(***************************************************************************)
(* runIdempotent (common/idempotency.ts): the steps of every HTTP request  *)
(* that carries an Idempotency-Key.  Each step is one transaction of its   *)
(* own; any number of requests with the same key interleave, any of them   *)
(* may die between two steps, and a transaction may fail, with or without  *)
(* having committed.                                                       *)
(***************************************************************************)
EXTENDS Naturals

CONSTANTS
    Requests,       \* the requests, retries included
    Keys,           \* the Idempotency-Keys of one tenant
    Key, Body,      \* of each request: its key, the fingerprint of its body
    Nobody,         \* stands for an absent request
    MaxFaults,      \* bound: crashes and failed transactions
    Slippery        \* the requests whose work may throw although it has committed

RequestAssumption ==
    /\ Nobody \notin Requests
    /\ Key \in [Requests -> Keys]
    /\ Requests \cap {"nothing", "mismatch", "in_progress", "error"} = {}
    /\ MaxFaults \in Nat
    /\ Slippery \subseteq Requests
ASSUME RequestAssumption

VARIABLES
    row,        \* row[k] of idempotency_key: state, fingerprint, recorded answer
    pc,         \* where each request is in runIdempotent
    landed,     \* the requests whose work has committed
    reply,      \* reply[r]: the request whose outcome r returned, or its refusal
    faults      \* crashes and failed transactions so far

vars == <<row, pc, landed, reply, faults>>

Bodies == {Body[r] : r \in Requests}
NoRow == [state |-> "free", body |-> Nobody, answer |-> Nobody]
Rows == [state : {"free", "pending"}, body : Bodies \cup {Nobody}, answer : {Nobody}]
        \cup [state : {"completed"}, body : Bodies \cup {Nobody}, answer : Requests]
Replies == Requests \cup {"nothing", "mismatch", "in_progress", "error"}
Steps == {"look", "claim", "lookAgain", "work", "abandon", "record", "done"}

Init ==
    /\ row = [k \in Keys |-> NoRow]
    /\ pc = [r \in Requests |-> "look"]
    /\ landed = {}
    /\ reply = [r \in Requests |-> "nothing"]
    /\ faults = 0

\* A crash or a transaction that fails is counted.
Fault == faults < MaxFaults /\ faults' = faults + 1
NoFault == UNCHANGED faults

Answer(r, x) ==
    /\ pc' = [pc EXCEPT ![r] = "done"]
    /\ reply' = [reply EXCEPT ![r] = x]
Proceed(r, step) ==
    /\ pc' = [pc EXCEPT ![r] = step]
    /\ UNCHANGED reply

\* Mutant: the fingerprint is not compared.
ResolveAny(r) ==
    LET found == row[Key[r]] IN
    Answer(r, IF found.state = "completed" THEN found.answer ELSE "in_progress")

\* resolveExisting: the tests in the order of the code.
Resolve(r) ==
    LET found == row[Key[r]] IN
    Answer(r, IF found.body # Body[r] THEN "mismatch"
              ELSE IF found.state = "completed" THEN found.answer
              ELSE "in_progress")

Look(r) ==
    /\ pc[r] = "look"
    /\ \/ row[Key[r]].state # "free" /\ Resolve(r)
       \/ row[Key[r]].state = "free" /\ Proceed(r, "claim")
    /\ NoFault /\ UNCHANGED <<row, landed>>

\* Mutant: the table has no unique key, a second claim overwrites the first.
ClaimAnyway(r) ==
    /\ pc[r] = "claim"
    /\ row' = [row EXCEPT ![Key[r]] =
                  [state |-> "pending", body |-> Body[r], answer |-> Nobody]]
    /\ Proceed(r, "work")
    /\ NoFault /\ UNCHANGED landed

\* The insert of a pending row: uq_idem_tenant_key lets one request through.
\* The others, and whoever lost the answer of the database, look again.
Claim(r) ==
    /\ pc[r] = "claim"
    /\ \/ /\ row[Key[r]].state = "free"
          /\ row' = [row EXCEPT ![Key[r]] =
                        [state |-> "pending", body |-> Body[r], answer |-> Nobody]]
          /\ \/ Proceed(r, "work") /\ NoFault
             \/ Proceed(r, "lookAgain") /\ Fault
       \/ /\ Proceed(r, "lookAgain") /\ UNCHANGED row
          /\ \/ row[Key[r]].state # "free" /\ NoFault
             \/ Fault
    /\ UNCHANGED landed

\* The winner may have failed and dropped its claim meanwhile.
LookAgain(r) ==
    /\ pc[r] = "lookAgain"
    /\ \/ row[Key[r]].state # "free" /\ Resolve(r)
       \/ row[Key[r]].state = "free" /\ Answer(r, "error")
    /\ NoFault /\ UNCHANGED <<row, landed>>

\* work(): it commits and returns, or it throws.  Work of one transaction that
\* throws has left nothing behind, unless the answer to its COMMIT was lost;
\* work that records a failure before it throws has.
Work(r) ==
    /\ pc[r] = "work"
    /\ \/ landed' = landed \cup {r} /\ Proceed(r, "record")
       \/ UNCHANGED landed /\ Proceed(r, "abandon")
       \/ r \in Slippery /\ landed' = landed \cup {r} /\ Proceed(r, "abandon")
    /\ NoFault /\ UNCHANGED row

\* Mutant: a failed request leaves its claim.
KeepClaim(r) ==
    /\ pc[r] = "abandon" /\ Answer(r, "error")
    /\ NoFault /\ UNCHANGED <<row, landed>>

\* Drops the claim, by key; an error of the delete is swallowed.
Abandon(r) ==
    /\ pc[r] = "abandon"
    /\ \/ row' = [row EXCEPT ![Key[r]] = NoRow] /\ NoFault
       \/ Fault /\ UNCHANGED row
    /\ Answer(r, "error")
    /\ UNCHANGED landed

\* Records the answer, by key; an error reaches the caller.
Record(r) ==
    LET recorded ==
          IF row[Key[r]].state = "free" THEN row
          ELSE [row EXCEPT ![Key[r]].state = "completed", ![Key[r]].answer = r]
    IN /\ pc[r] = "record"
       /\ \/ row' = recorded /\ Answer(r, r) /\ NoFault
          \/ row' \in {row, recorded} /\ Answer(r, "error") /\ Fault
       /\ UNCHANGED landed

\* The process dies: the request is never answered.
Crash(r) ==
    /\ pc[r] # "done" /\ Fault
    /\ pc' = [pc EXCEPT ![r] = "done"]
    /\ UNCHANGED <<row, landed, reply>>

Holds(r) == pc[r] \in {"work", "abandon", "record"}

\* The operator procedure for a key that answers 409 for ever: nobody works on
\* it any more, and the domain row it would have written is not there.
ReleaseKey(k) ==
    /\ row[k].state = "pending"
    /\ \A r \in Requests : Key[r] = k => ~Holds(r) /\ r \notin landed
    /\ row' = [row EXCEPT ![k] = NoRow]
    /\ UNCHANGED <<pc, landed, reply, faults>>

Run(r) == Look(r) \/ Claim(r) \/ LookAgain(r) \/ Work(r) \/ Abandon(r) \/ Record(r)

Next ==
    \/ \E r \in Requests : Run(r) \/ Crash(r)
    \/ \E k \in Keys : ReleaseKey(k)

Spec == Init /\ [][Next]_vars

\* A request that runs goes on; nothing makes an operator act.
FairSpec == Spec /\ \A r \in Requests : WF_vars(Run(r))

(***************************************************************************)
(* Properties.                                                             *)
(***************************************************************************)
\* Type invariant of the table and of the requests.
TypeOK ==
    /\ row \in [Keys -> Rows]
    /\ pc \in [Requests -> Steps]
    /\ landed \subseteq Requests
    /\ reply \in [Requests -> Replies]
    /\ faults \in 0..MaxFaults

\* "Run `work` at most once per Idempotency-Key": of the requests with one key
\* at most one has taken effect.
AtMostOnce == \A r, s \in landed : Key[r] = Key[s] => r = s

\* Whoever works on a key holds its pending row, alone.
ClaimIsLock ==
    /\ \A r \in Requests : Holds(r) =>
          row[Key[r]].state = "pending" /\ row[Key[r]].body = Body[r]
    /\ \A r, s \in Requests : Holds(r) /\ Holds(s) /\ Key[r] = Key[s] => r = s

\* Where work has landed and returned, the row of its key bars the way to any
\* other.
LandedBars ==
    /\ \A r \in Requests : pc[r] = "record" => r \in landed
    /\ \A r \in Requests : pc[r] \in {"look", "claim", "lookAgain", "work"} => r \notin landed
    /\ \A r \in landed \ Slippery :
          /\ row[Key[r]].state # "free" /\ row[Key[r]].body = Body[r]
          /\ \A s \in Requests : Holds(s) /\ Key[s] = Key[r] => pc[s] = "record"

\* A recorded answer is the answer of work that landed.
AnswersLanded ==
    \A k \in Keys : row[k].state = "completed" =>
        /\ row[k].answer \in landed
        /\ Key[row[k].answer] = k /\ Body[row[k].answer] = row[k].body

\* A request returns once.
SilentUntilDone == \A r \in Requests : pc[r] # "done" => reply[r] = "nothing"

\* Under which runIdempotent keeps its promise: a request whose work may throw
\* although it has committed has its key to itself.  Otherwise the claim is
\* dropped and a retry does the work again.
SlipsAlone == \A r \in Slippery, s \in Requests : Key[s] = Key[r] => s = r

\* The claim is a lock and the row a faithful record, whatever dies or fails
\* between two steps, as long as SlipsAlone.
ClaimGuards ==
    ClaimIsLock /\ LandedBars /\ AnswersLanded /\ SilentUntilDone /\ AtMostOnce

\* Every step of the requests is a step of the promise, or changes nothing that
\* a caller sees: in particular a replay returns the outcome of the one request
\* that took effect, and only to a request with the same body.
Promise == INSTANCE OncePerKey WITH effects <- landed, told <- reply
KeepsPromise == Promise!OnceSpec

\* "If the process is killed in that window the row stays pending for ever":
\* only then.  As long as nothing crashes or fails, every claim is settled.
KeySettles ==
    \A k \in Keys : row[k].state = "pending" ~> row[k].state # "pending" \/ faults > 0
=============================================================================
