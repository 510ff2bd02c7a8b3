------------------------- MODULE IdempotencyProofs --------------------------
(***************************************************************************)
(* Idempotency keeps its promise for any number of requests, keys, crashes *)
(* and failed transactions, as long as a request whose work may throw      *)
(* although it has committed shares its key with no other (SlipsAlone).    *)
(***************************************************************************)
EXTENDS Idempotency, TLAPS

\* Answering and proceeding keep the types.
LEMMA StepTypes ==
    ASSUME TypeOK, NEW r \in Requests
    PROVE  /\ \A x \in Replies : Answer(r, x) =>
                 pc' \in [Requests -> Steps] /\ reply' \in [Requests -> Replies]
           /\ \A s \in Steps : Proceed(r, s) =>
                 pc' \in [Requests -> Steps] /\ reply' \in [Requests -> Replies]
  BY DEF TypeOK, Answer, Proceed, Steps

\* A row written by a claim, a recording or a deletion is a row.
LEMMA RowTypes ==
    ASSUME TypeOK, NEW r \in Requests
    PROVE  /\ Key[r] \in Keys /\ row[Key[r]] \in Rows
           /\ [row EXCEPT ![Key[r]] = NoRow] \in [Keys -> Rows]
           /\ [row EXCEPT ![Key[r]] =
                 [state |-> "pending", body |-> Body[r], answer |-> Nobody]] \in [Keys -> Rows]
           /\ [row EXCEPT ![Key[r]].state = "completed", ![Key[r]].answer = r]
                 \in [Keys -> Rows]
<1>1. Key[r] \in Keys /\ row[Key[r]] \in Rows
  BY RequestAssumption DEF RequestAssumption, TypeOK
<1>2. NoRow \in Rows
  BY DEF NoRow, Rows
<1>3. [state |-> "pending", body |-> Body[r], answer |-> Nobody] \in Rows
  BY DEF Rows, Bodies
<1>4. [row[Key[r]] EXCEPT !.state = "completed", !.answer = r] \in Rows
  BY <1>1 DEF Rows
<1>5. [row EXCEPT ![Key[r]].state = "completed", ![Key[r]].answer = r] \in [Keys -> Rows]
  BY <1>1, <1>4 DEF TypeOK
<1> QED
  BY <1>1, <1>2, <1>3, <1>5 DEF TypeOK

\* Whatever happens, the table and the requests stay well typed: in particular a
\* replay returns an answer, never the empty one of a pending row.
THEOREM TypeCorrect == Spec => []TypeOK
<1>1. Init => TypeOK
  BY RequestAssumption DEF RequestAssumption, Init, TypeOK, NoRow, Rows, Steps, Replies
<1>2. ASSUME TypeOK, [Next]_vars PROVE TypeOK'
  <2>1. Fault \/ NoFault => faults' \in 0..MaxFaults
    BY <1>2, RequestAssumption DEF RequestAssumption, TypeOK, Fault, NoFault
  <2>2. "mismatch" \in Replies /\ "in_progress" \in Replies /\ "error" \in Replies
        /\ Requests \subseteq Replies
    BY DEF Replies
  <2>3. ASSUME NEW r \in Requests, Resolve(r), row[Key[r]].state # "free"
        PROVE  pc' \in [Requests -> Steps] /\ reply' \in [Requests -> Replies]
    <3>1. row[Key[r]].state = "completed" => row[Key[r]].answer \in Requests
      BY <1>2, RowTypes DEF Rows
    <3> QED
      BY <1>2, <2>2, <2>3, <3>1, StepTypes DEF Resolve
  <2>4. ASSUME NEW r \in Requests, Look(r) \/ LookAgain(r) PROVE TypeOK'
    BY <1>2, <2>1, <2>2, <2>3, <2>4, StepTypes DEF Look, LookAgain, TypeOK, Steps
  <2>5. ASSUME NEW r \in Requests, Claim(r) PROVE TypeOK'
    <3>1. row \in [Keys -> Rows]
      BY <1>2 DEF TypeOK
    <3>2. [row EXCEPT ![Key[r]] =
             [state |-> "pending", body |-> Body[r], answer |-> Nobody]] \in [Keys -> Rows]
      BY <1>2, RowTypes
    <3>3. row' \in [Keys -> Rows]
      BY <2>5, <3>1, <3>2 DEF Claim
    <3>4. pc' \in [Requests -> Steps] /\ reply' \in [Requests -> Replies]
      BY <1>2, <2>5, StepTypes DEF Claim, Steps
    <3>5. faults' \in 0..MaxFaults /\ landed' = landed
      BY <2>1, <2>5 DEF Claim
    <3> QED
      BY <1>2, <3>3, <3>4, <3>5 DEF TypeOK
  <2>6. ASSUME NEW r \in Requests, Work(r) PROVE TypeOK'
    BY <1>2, <2>1, <2>6, StepTypes DEF Work, TypeOK, Steps
  <2>7. ASSUME NEW r \in Requests, Abandon(r) PROVE TypeOK'
    <3>1. row \in [Keys -> Rows]
      BY <1>2 DEF TypeOK
    <3>2. [row EXCEPT ![Key[r]] = NoRow] \in [Keys -> Rows]
      BY <1>2, RowTypes
    <3>3. row' \in [Keys -> Rows]
      BY <2>7, <3>1, <3>2 DEF Abandon
    <3>4. pc' \in [Requests -> Steps] /\ reply' \in [Requests -> Replies]
      BY <1>2, <2>2, <2>7, StepTypes DEF Abandon
    <3>5. faults' \in 0..MaxFaults /\ landed' = landed
      BY <2>1, <2>7 DEF Abandon
    <3> QED
      BY <1>2, <3>3, <3>4, <3>5 DEF TypeOK
  <2>8. ASSUME NEW r \in Requests, Record(r) PROVE TypeOK'
    <3>1. row \in [Keys -> Rows]
      BY <1>2 DEF TypeOK
    <3>2. [row EXCEPT ![Key[r]].state = "completed", ![Key[r]].answer = r]
             \in [Keys -> Rows]
      BY <1>2, RowTypes
    <3>3. row' \in [Keys -> Rows]
      BY <2>8, <3>1, <3>2 DEF Record
    <3>4. pc' \in [Requests -> Steps] /\ reply' \in [Requests -> Replies]
      BY <1>2, <2>2, <2>8, StepTypes DEF Record
    <3>5. faults' \in 0..MaxFaults /\ landed' = landed
      BY <2>1, <2>8 DEF Record
    <3> QED
      BY <1>2, <3>3, <3>4, <3>5 DEF TypeOK
  <2>9. ASSUME NEW r \in Requests, Crash(r) PROVE TypeOK'
    BY <1>2, <2>1, <2>9 DEF Crash, TypeOK, Steps
  <2>10. ASSUME NEW k \in Keys, ReleaseKey(k) PROVE TypeOK'
    BY <1>2, <2>10 DEF ReleaseKey, TypeOK, NoRow, Rows
  <2>11. CASE UNCHANGED vars
    BY <1>2, <2>11 DEF vars, TypeOK
  <2> QED
    BY <1>2, <2>4, <2>5, <2>6, <2>7, <2>8, <2>9, <2>10, <2>11 DEF Next, Run
<1> QED
  BY <1>1, <1>2, PTL DEF Spec

\* A request moves only itself, and touches only the row of its key.
LEMMA OwnStep ==
    ASSUME TypeOK, NEW r \in Requests, Run(r) \/ Crash(r)
    PROVE  /\ \A s \in Requests : s # r => pc'[s] = pc[s] /\ reply'[s] = reply[s]
           /\ \A k \in Keys : k # Key[r] => row'[k] = row[k]
           /\ landed' \in {landed, landed \cup {r}}
<1>1. ASSUME NEW x, Answer(r, x)
      PROVE  \A s \in Requests : s # r => pc'[s] = pc[s] /\ reply'[s] = reply[s]
  BY <1>1 DEF Answer, TypeOK
<1>2. ASSUME NEW x, Proceed(r, x)
      PROVE  \A s \in Requests : s # r => pc'[s] = pc[s] /\ reply'[s] = reply[s]
  BY <1>2 DEF Proceed, TypeOK
<1>3. \A s \in Requests : s # r => pc'[s] = pc[s] /\ reply'[s] = reply[s]
  BY <1>1, <1>2 DEF Run, Look, Claim, LookAgain, Work, Abandon, Record, Crash, Resolve, TypeOK
<1>4. \A k \in Keys : k # Key[r] => row'[k] = row[k]
  <2>1. CASE Record(r)
    BY <2>1 DEF Record, TypeOK
  <2>2. CASE Claim(r)
    BY <2>2 DEF Claim, TypeOK
  <2>3. CASE Abandon(r)
    BY <2>3 DEF Abandon, TypeOK
  <2> QED
    BY <2>1, <2>2, <2>3 DEF Run, Look, LookAgain, Work, Crash
<1>5. landed' \in {landed, landed \cup {r}}
  BY DEF Run, Look, Claim, LookAgain, Work, Abandon, Record, Crash
<1> QED
  BY <1>3, <1>4, <1>5

\* What one step does to the row of the request and to its hold on it.
LEMMA HoldMoves ==
    ASSUME TypeOK, NEW r \in Requests, Run(r) \/ Crash(r)
    PROVE  \/ /\ row[Key[r]].state = "free" /\ pc'[r] \in {"work", "lookAgain"}
              /\ row'[Key[r]] = [state |-> "pending", body |-> Body[r], answer |-> Nobody]
           \/ row'[Key[r]] = row[Key[r]] /\ (Holds(r)' => Holds(r))
           \/ Holds(r) /\ ~Holds(r)'
<1>1. Key[r] \in Keys
  BY RequestAssumption DEF RequestAssumption
<1>2. CASE Claim(r)
  BY <1>1, <1>2 DEF Claim, Proceed, Holds, TypeOK
<1>3. CASE Look(r) \/ LookAgain(r) \/ Crash(r)
  BY <1>1, <1>3 DEF Look, LookAgain, Resolve, Answer, Proceed, Crash, Holds, TypeOK
<1>4. CASE Work(r)
  BY <1>1, <1>4 DEF Work, Proceed, Holds, TypeOK
<1>5. CASE Abandon(r) \/ Record(r)
  BY <1>1, <1>5 DEF Abandon, Record, Answer, Holds, TypeOK
<1> QED
  BY <1>2, <1>3, <1>4, <1>5 DEF Run

\* Only a claim gives a request the row, and it takes a free one: a request that
\* works on a key goes on holding its pending row alone.
LEMMA LockKept == ASSUME TypeOK, ClaimIsLock, [Next]_vars PROVE ClaimIsLock'
<1>0. \A r \in Requests : Key[r] \in Keys
  BY RequestAssumption DEF RequestAssumption
<1>1. ASSUME NEW r \in Requests, Run(r) \/ Crash(r) PROVE ClaimIsLock'
  <2>1. \A s \in Requests : s # r => (Holds(s)' <=> Holds(s))
    BY <1>1, OwnStep DEF Holds
  <2>2. \A k \in Keys : k # Key[r] => row'[k] = row[k]
    BY <1>1, OwnStep
  <2>3. CASE /\ row[Key[r]].state = "free"
             /\ row'[Key[r]] = [state |-> "pending", body |-> Body[r], answer |-> Nobody]
    BY <1>0, <2>1, <2>2, <2>3 DEF ClaimIsLock
  <2>4. CASE row'[Key[r]] = row[Key[r]] /\ (Holds(r)' => Holds(r))
    BY <1>0, <2>1, <2>2, <2>4 DEF ClaimIsLock
  <2>5. CASE Holds(r) /\ ~Holds(r)'
    BY <1>0, <2>1, <2>2, <2>5 DEF ClaimIsLock
  <2> QED
    BY <1>1, <2>3, <2>4, <2>5, HoldMoves
<1>2. ASSUME NEW k \in Keys, ReleaseKey(k) PROVE ClaimIsLock'
  BY <1>0, <1>2 DEF ReleaseKey, ClaimIsLock, Holds, TypeOK
<1>3. CASE UNCHANGED vars
  BY <1>3 DEF vars, ClaimIsLock, Holds
<1> QED
  BY <1>1, <1>2, <1>3 DEF Next

\* Whoever is about to work finds no work landed on its key.
LEMMA NoneBefore ==
    ASSUME SlipsAlone, LandedBars, landed \subseteq Requests,
           NEW r \in Requests, pc[r] = "work"
    PROVE  \A s \in landed : Key[s] # Key[r]
<1>1. ASSUME NEW s \in landed \ Slippery PROVE Key[s] # Key[r]
  BY <1>1 DEF LandedBars, Holds
<1>2. ASSUME NEW s \in landed, s \in Slippery PROVE Key[s] # Key[r]
  BY <1>2 DEF LandedBars, SlipsAlone
<1> QED
  BY <1>1, <1>2

\* A request that holds a key on which work landed is recording that very work,
\* and nobody but it changes the row: the row goes on barring the way.
LEMMA LandedKept ==
    ASSUME SlipsAlone, TypeOK, ClaimIsLock, LandedBars, [Next]_vars
    PROVE  LandedBars'
<1>0. \A r \in Requests : Key[r] \in Keys
  BY RequestAssumption DEF RequestAssumption
<1>1. ASSUME NEW r \in Requests, Run(r) \/ Crash(r) PROVE LandedBars'
  <2>1. /\ \A s \in Requests : s # r => pc'[s] = pc[s] /\ (Holds(s)' <=> Holds(s))
        /\ \A k \in Keys : k # Key[r] => row'[k] = row[k]
    BY <1>1, OwnStep DEF Holds
  <2>2. CASE Claim(r)
    <3>1. landed' = landed /\ pc'[r] # "record" /\ r \notin landed
      BY <2>2 DEF Claim, Proceed, LandedBars, TypeOK
    <3>2. \/ row' = row /\ ~Holds(r)'
          \/ \A s \in landed \ Slippery : Key[s] # Key[r]
      BY <2>2 DEF Claim, Proceed, Holds, LandedBars, TypeOK
    <3> QED
      BY <1>0, <2>1, <3>1, <3>2 DEF LandedBars, TypeOK
  <2>3. CASE Look(r) \/ LookAgain(r) \/ Crash(r)
    <3>1. landed' = landed /\ row' = row /\ ~Holds(r)'
      BY <2>3 DEF Look, LookAgain, Resolve, Answer, Proceed, Crash, Holds, TypeOK
    <3>2. pc'[r] \in {"claim", "done"} /\ (pc'[r] = "claim" => r \notin landed)
      BY <2>3 DEF Look, LookAgain, Resolve, Answer, Proceed, Crash, LandedBars, TypeOK
    <3> QED
      BY <2>1, <3>1, <3>2 DEF LandedBars, Holds
  <2>4. CASE Work(r)
    <3>1. /\ row' = row /\ Holds(r)
          /\ \/ landed' = landed /\ pc'[r] = "abandon"
             \/ landed' = landed \cup {r} /\ pc'[r] = "record"
             \/ r \in Slippery /\ landed' = landed \cup {r} /\ pc'[r] = "abandon"
      BY <2>4 DEF Work, Proceed, Holds, TypeOK
    <3>2. \A s \in landed : Key[s] # Key[r]
      BY <2>4, NoneBefore DEF Work, TypeOK
    <3>3. /\ row[Key[r]].state = "pending" /\ row[Key[r]].body = Body[r]
          /\ \A s \in Requests : Holds(s) /\ Key[s] = Key[r] => s = r
      BY <3>1 DEF ClaimIsLock
    <3> QED
      BY <2>1, <3>1, <3>2, <3>3 DEF LandedBars, TypeOK
  <2>5. CASE Abandon(r)
    <3>1. landed' = landed /\ Holds(r) /\ pc[r] = "abandon" /\ pc'[r] = "done"
      BY <2>5 DEF Abandon, Answer, Holds, TypeOK
    <3>2. \A s \in landed \ Slippery : Key[s] # Key[r]
      BY <3>1 DEF LandedBars
    <3> QED
      BY <1>0, <2>1, <3>1, <3>2 DEF LandedBars, TypeOK, Holds
  <2>6. CASE Record(r)
    <3>1. landed' = landed /\ Holds(r) /\ pc'[r] = "done"
      BY <2>6 DEF Record, Answer, Holds, TypeOK
    <3>2. row'[Key[r]].state \in {"pending", "completed"} /\ row'[Key[r]].body = row[Key[r]].body
      <4>1. row[Key[r]].state = "pending" /\ row[Key[r]] \in Rows
        BY <3>1, RowTypes DEF ClaimIsLock
      <4>2. \/ row'[Key[r]] = row[Key[r]]
            \/ row'[Key[r]] = [row[Key[r]] EXCEPT !.state = "completed", !.answer = r]
        BY <1>0, <2>6 DEF Record, TypeOK
      <4> QED
        BY <4>1, <4>2 DEF Rows
    <3> QED
      BY <1>0, <2>1, <3>1, <3>2 DEF LandedBars, TypeOK, Holds
  <2> QED
    BY <1>1, <2>2, <2>3, <2>4, <2>5, <2>6 DEF Run
<1>2. ASSUME NEW k \in Keys, ReleaseKey(k) PROVE LandedBars'
  BY <1>0, <1>2 DEF ReleaseKey, LandedBars, Holds, TypeOK
<1>3. CASE UNCHANGED vars
  BY <1>3 DEF vars, LandedBars, Holds
<1> QED
  BY <1>1, <1>2, <1>3 DEF Next

\* Work lands only under the claim, so never where other work has landed.
LEMMA OnceKept ==
    ASSUME SlipsAlone, TypeOK, LandedBars, AtMostOnce, [Next]_vars
    PROVE  AtMostOnce'
<1>1. ASSUME NEW r \in Requests, Work(r) PROVE AtMostOnce'
  <2>1. \A s \in landed : Key[s] # Key[r]
    BY <1>1, NoneBefore DEF Work, TypeOK
  <2> QED
    BY <1>1, <2>1 DEF Work, AtMostOnce
<1>2. CASE landed' = landed
  BY <1>2 DEF AtMostOnce
<1> QED
  BY <1>1, <1>2 DEF Next, Run, Look, Claim, LookAgain, Abandon, Record, Crash, ReleaseKey, vars

\* Only the request whose work landed completes the row, with its own answer.
LEMMA AnswersKept ==
    ASSUME TypeOK, ClaimIsLock, LandedBars, AnswersLanded, [Next]_vars
    PROVE  AnswersLanded'
<1>0. \A r \in Requests : Key[r] \in Keys
  BY RequestAssumption DEF RequestAssumption
<1>1. landed \subseteq landed'
  BY OwnStep DEF Next, ReleaseKey, vars
<1>2. ASSUME NEW r \in Requests, Record(r) PROVE AnswersLanded'
  <2>1. r \in landed /\ row[Key[r]].state = "pending" /\ row[Key[r]].body = Body[r]
        /\ row[Key[r]] \in Rows
    BY <1>2, RowTypes DEF Record, LandedBars, ClaimIsLock, Holds
  <2>2. \A k \in Keys : k # Key[r] => row'[k] = row[k]
    BY <1>2, OwnStep DEF Run
  <2>3. \/ row'[Key[r]] = row[Key[r]]
        \/ row'[Key[r]] = [row[Key[r]] EXCEPT !.state = "completed", !.answer = r]
    BY <1>0, <1>2 DEF Record, TypeOK
  <2>4. row'[Key[r]].state = "completed" =>
           row'[Key[r]].answer = r /\ row'[Key[r]].body = Body[r]
    BY <2>1, <2>3 DEF Rows
  <2> QED
    BY <1>1, <2>1, <2>2, <2>4 DEF AnswersLanded
<1>3. ASSUME NEW r \in Requests, Claim(r) \/ Abandon(r) PROVE AnswersLanded'
  <2>1. \A k \in Keys : row'[k] = row[k] \/ row'[k].state # "completed"
    BY <1>0, <1>3 DEF Claim, Abandon, NoRow, TypeOK
  <2> QED
    BY <1>1, <2>1 DEF AnswersLanded
<1>4. ASSUME NEW k \in Keys, ReleaseKey(k) PROVE AnswersLanded'
  <2>1. \A x \in Keys : row'[x] = row[x] \/ row'[x].state # "completed"
    BY <1>4 DEF ReleaseKey, NoRow, TypeOK
  <2> QED
    BY <1>1, <2>1 DEF AnswersLanded
<1>5. CASE row' = row
  BY <1>1, <1>5 DEF AnswersLanded
<1> QED
  BY <1>2, <1>3, <1>4, <1>5 DEF Next, Run, Look, LookAgain, Work, Crash, vars

\* An answer is the last step of a request.
LEMMA SilenceKept ==
    ASSUME TypeOK, SilentUntilDone, [Next]_vars PROVE SilentUntilDone'
<1>1. ASSUME NEW r \in Requests, Run(r) \/ Crash(r) PROVE SilentUntilDone'
  <2>1. pc'[r] # "done" => reply'[r] = reply[r] /\ pc[r] # "done"
    BY <1>1 DEF Run, Look, Claim, LookAgain, Work, Abandon, Record, Crash, Resolve,
       Answer, Proceed, TypeOK
  <2> QED
    BY <1>1, <2>1, OwnStep DEF SilentUntilDone
<1> QED
  BY <1>1 DEF Next, ReleaseKey, vars, SilentUntilDone

\* The claim is a lock and the row a faithful record, for any number of requests.
THEOREM GuardsHold == SlipsAlone => (Spec => []ClaimGuards)
<1> SUFFICES ASSUME SlipsAlone PROVE Spec => []ClaimGuards
  OBVIOUS
<1>1. Init => ClaimGuards
  <2> SUFFICES ASSUME Init PROVE ClaimGuards
    OBVIOUS
  <2>1. \A r \in Requests : ~Holds(r) /\ pc[r] = "look" /\ reply[r] = "nothing"
    BY DEF Init, Holds
  <2>2. \A k \in Keys : row[k].state = "free"
    BY DEF Init, NoRow
  <2>3. landed = {}
    BY DEF Init
  <2> QED
    BY <2>1, <2>2, <2>3 DEF ClaimGuards, ClaimIsLock, LandedBars, AnswersLanded,
       SilentUntilDone, AtMostOnce
<1>2. TypeOK /\ ClaimGuards /\ [Next]_vars => ClaimGuards'
  BY LockKept, LandedKept, AnswersKept, SilenceKept, OnceKept DEF ClaimGuards
<1> QED
  BY <1>1, <1>2, TypeCorrect, PTL DEF Spec

\* "Run `work` at most once per Idempotency-Key": however many requests carry the
\* key, whatever dies or fails between two steps, and whichever rows an operator
\* releases by the documented procedure, at most one takes effect.
THEOREM WorkLandsOnce == SlipsAlone => (Spec => []AtMostOnce)
  BY GuardsHold, PTL DEF ClaimGuards

\* Idempotency implements OncePerKey: a request is told the outcome of the one
\* request that took effect, asked for in the same words, or it is refused.
THEOREM Refinement == SlipsAlone => (Spec => KeepsPromise)
<1> SUFFICES ASSUME SlipsAlone PROVE Spec => KeepsPromise
  OBVIOUS
<1>1. Init => Promise!OnceInit
  BY DEF Init, Promise!OnceInit
<1>2. ASSUME TypeOK, ClaimGuards, [Next]_vars
      PROVE  [Promise!OnceNext]_(Promise!promiseVars)
  <2>1. ASSUME NEW r \in Requests, pc[r] # "done",
               landed' = landed, Answer(r, reply'[r]),
               \/ reply'[r] \in Promise!Refusals
               \/ \E s \in landed : Key[s] = Key[r] /\ Body[s] = Body[r] /\ reply'[r] = s
        PROVE  Promise!OnceNext
    <3>1. reply[r] = "nothing"
      BY <1>2, <2>1 DEF ClaimGuards, SilentUntilDone
    <3>2. reply' = [reply EXCEPT ![r] = reply'[r]]
      BY <2>1 DEF Answer
    <3>3. Promise!Tell(r)
      BY <2>1, <3>1, <3>2 DEF Promise!Tell
    <3> QED
      BY <3>3 DEF Promise!OnceNext
  <2>2. ASSUME NEW r \in Requests, row[Key[r]].state # "free", Resolve(r)
        PROVE  /\ Answer(r, reply'[r])
               /\ \/ reply'[r] \in Promise!Refusals
                  \/ \E s \in landed : Key[s] = Key[r] /\ Body[s] = Body[r] /\ reply'[r] = s
    <3>1. Key[r] \in Keys
      BY RowTypes, <1>2
    <3>2. row[Key[r]].state = "completed" /\ row[Key[r]].body = Body[r] =>
            LET s == row[Key[r]].answer IN s \in landed /\ Key[s] = Key[r] /\ Body[s] = Body[r]
      BY <1>2, <3>1 DEF ClaimGuards, AnswersLanded
    <3>3. \A x : Answer(r, x) => reply'[r] = x
      BY <1>2 DEF Answer, TypeOK
    <3>4. CASE row[Key[r]].body # Body[r]
      <4>1. Answer(r, "mismatch")
        BY <2>2, <3>4 DEF Resolve, Answer
      <4> QED
        BY <4>1, <3>3 DEF Promise!Refusals
    <3>5. CASE row[Key[r]].body = Body[r] /\ row[Key[r]].state = "completed"
      <4>1. Answer(r, row[Key[r]].answer)
        BY <2>2, <3>5 DEF Resolve, Answer
      <4> QED
        BY <4>1, <3>2, <3>3, <3>5
    <3>6. CASE row[Key[r]].body = Body[r] /\ row[Key[r]].state # "completed"
      <4>1. Answer(r, "in_progress")
        BY <2>2, <3>6 DEF Resolve, Answer
      <4> QED
        BY <4>1, <3>3 DEF Promise!Refusals
    <3> QED
      BY <3>4, <3>5, <3>6
  <2>3. ASSUME NEW r \in Requests, Answer(r, "error")
        PROVE  Answer(r, reply'[r]) /\ reply'[r] \in Promise!Refusals
    BY <1>2, <2>3 DEF Answer, TypeOK, Promise!Refusals
  <2>4. ASSUME NEW r \in Requests, Look(r) \/ LookAgain(r)
        PROVE  [Promise!OnceNext]_(Promise!promiseVars)
    <3>1. CASE row[Key[r]].state # "free" /\ Resolve(r)
      BY <2>1, <2>2, <2>4, <3>1 DEF Look, LookAgain
    <3>2. CASE Answer(r, "error") /\ LookAgain(r)
      BY <2>1, <2>3, <3>2 DEF LookAgain
    <3>3. CASE Proceed(r, "claim") /\ Look(r)
      BY <3>3 DEF Look, Proceed, Promise!promiseVars
    <3> QED
      BY <2>4, <3>1, <3>2, <3>3 DEF Look, LookAgain
  <2>5. ASSUME NEW r \in Requests, Work(r)
        PROVE  [Promise!OnceNext]_(Promise!promiseVars)
    <3>1. CASE landed' = landed
      BY <2>5, <3>1 DEF Work, Proceed, Promise!promiseVars
    <3>2. CASE landed' = landed \cup {r}
      <4>1. pc[r] = "work" /\ Holds(r) /\ reply' = reply
        BY <2>5 DEF Work, Proceed, Holds
      <4>2. reply[r] = "nothing"
        BY <1>2, <4>1 DEF ClaimGuards, SilentUntilDone
      <4>3. \A s \in landed : Key[s] # Key[r]
        BY <1>2, <4>1, NoneBefore DEF ClaimGuards, TypeOK
      <4>4. Promise!TakeEffect(r)
        BY <3>2, <4>1, <4>2, <4>3 DEF Promise!TakeEffect
      <4> QED
        BY <4>4 DEF Promise!OnceNext
    <3> QED
      BY <2>5, <3>1, <3>2 DEF Work
  <2>6. ASSUME NEW r \in Requests, Abandon(r) PROVE Promise!OnceNext
    BY <2>1, <2>3, <2>6 DEF Abandon
  <2>7. ASSUME NEW r \in Requests, Record(r) PROVE Promise!OnceNext
    <3>1. CASE Answer(r, "error")
      BY <2>1, <2>3, <2>7, <3>1 DEF Record
    <3>2. CASE Answer(r, r)
      <4>1. r \in landed
        BY <1>2, <2>7 DEF Record, ClaimGuards, LandedBars
      <4>2. reply'[r] = r
        BY <1>2, <3>2 DEF Answer, TypeOK
      <4> QED
        BY <2>1, <2>7, <3>2, <4>1, <4>2 DEF Record
    <3> QED
      BY <2>7, <3>1, <3>2 DEF Record
  <2>8. CASE UNCHANGED <<landed, reply>>
    BY <2>8 DEF Promise!promiseVars
  <2>9. ASSUME NEW r \in Requests, Claim(r) \/ Crash(r) PROVE UNCHANGED <<landed, reply>>
    BY <2>9 DEF Claim, Crash, Proceed
  <2> QED
    BY <1>2, <2>4, <2>5, <2>6, <2>7, <2>8, <2>9 DEF Next, Run, ReleaseKey, vars
<1> QED
  BY <1>1, <1>2, TypeCorrect, GuardsHold, PTL DEF Spec, KeepsPromise, Promise!OnceSpec
=============================================================================
