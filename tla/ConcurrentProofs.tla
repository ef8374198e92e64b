-------------------------- MODULE ConcurrentProofs --------------------------
(***************************************************************************)
(* Proofs about Concurrent, for any number of concurrent calls and for     *)
(* both kinds of backend.                                                  *)
(*                                                                         *)
(* The argument counts the calls that have reported.  A call sends one     *)
(* report, on results or on failed; a report is still in its channel or    *)
(* has been taken by the wait loop, and while the caller's context lives   *)
(* every iteration of the loop takes one.                                  *)
(***************************************************************************)
EXTENDS Concurrent, FiniteSetTheorems, TLAPS

(***************************************************************************)
(* The inductive invariant.                                                *)
(***************************************************************************)
\* The calls start in order, and the last one owns the request itself.
SpawnInv ==
    /\ \A c \in Calls : call[c] = "none" <=> c > spawned
    /\ pc # "spawn" => spawned = NumCalls
    /\ \A c \in Calls :
          req[c] = IF c > spawned THEN "none"
                   ELSE IF c < NumCalls THEN "clone" ELSE "original"

\* Whatever the channels and the middleware hold was reported.
ReportedInv ==
    /\ \A j \in 1 .. Len(results) : results[j] \in Answered
    /\ response # None => response \in Answered
    /\ reply.resp # None => reply.resp \in Answered

\* The reports that the wait loop has taken off the channels.
Taken == (Cardinality(Answered) - Len(results))
            + (Cardinality(Failed) - Len(failed))

\* A variable of the loop is set iff a report was taken from its channel.
CountInv ==
    /\ Len(results) <= Cardinality(Answered)
    /\ Len(failed) <= Cardinality(Failed)
    /\ response # None <=> Len(results) < Cardinality(Answered)
    /\ err # None <=> Len(failed) < Cardinality(Failed)
    /\ ~parentDone /\ pc # "returned" => iter = Taken

\* A complete response that was sent is in the channel or won.
ContentInv ==
    \A c \in Answered : \/ \E j \in 1 .. Len(results) : results[j] = c
                        \/ ~complete[c]
                        \/ pc = "returned" /\ Success

\* A reply without a complete response follows NumCalls reports.
ReplyInv ==
    pc = "returned" /\ ~parentDone /\ ~Success =>
        /\ reply = [resp |-> response, err |-> err]
        /\ Taken = NumCalls

IInv == /\ TypeOK /\ SpawnInv /\ ReportedInv
        /\ CountInv /\ ContentInv /\ ReplyInv

-----------------------------------------------------------------------------
(* Counting calls.                                                         *)

\* Two disjoint sets of calls have at most NumCalls members together, and if
\* they have that many no call is in neither.
LEMMA CallSets ==
    ASSUME NEW A \in SUBSET Calls, NEW F \in SUBSET Calls, A \cap F = {}
    PROVE  /\ IsFiniteSet(A) /\ IsFiniteSet(F)
           /\ Cardinality(A) \in Nat /\ Cardinality(F) \in Nat
           /\ Cardinality(A) + Cardinality(F) <= NumCalls
           /\ Cardinality(A) + Cardinality(F) = NumCalls => A \cup F = Calls
<1>1. IsFiniteSet(Calls) /\ Cardinality(Calls) = NumCalls
  BY FS_Interval, NumCallsAssumption DEF Calls
<1>2. IsFiniteSet(A) /\ IsFiniteSet(F)
  BY <1>1, FS_Subset
<1>3. Cardinality(A) \in Nat /\ Cardinality(F) \in Nat
  BY <1>2, FS_CardinalityType
<1>4. Cardinality(A \cup F) = Cardinality(A) + Cardinality(F)
  <2>1. Cardinality(A \cup F)
           = Cardinality(A) + Cardinality(F) - Cardinality(A \cap F)
    BY <1>2, FS_Union
  <2>2. Cardinality(A \cap F) = 0
    BY FS_EmptySet
  <2> QED
    BY <1>3, <2>1, <2>2
<1>5. A \cup F \in SUBSET Calls
  OBVIOUS
<1>6. /\ Cardinality(A \cup F) <= Cardinality(Calls)
      /\ Cardinality(Calls) = Cardinality(A \cup F) => Calls = A \cup F
  BY <1>1, <1>5, FS_Subset
<1> QED
  BY <1>1, <1>2, <1>3, <1>4, <1>6

\* The calls that have reported, in this state and in the next.
LEMMA Counts ==
    /\ IsFiniteSet(Answered) /\ IsFiniteSet(Failed)
    /\ Cardinality(Answered) \in Nat /\ Cardinality(Failed) \in Nat
    /\ Cardinality(Answered)' \in Nat /\ Cardinality(Failed)' \in Nat
    /\ Cardinality(Answered) + Cardinality(Failed) <= NumCalls
    /\ Cardinality(Answered) + Cardinality(Failed) = NumCalls
          => Answered \cup Failed = Calls
<1>1. /\ Answered \in SUBSET Calls /\ Failed \in SUBSET Calls
      /\ Answered \cap Failed = {}
  BY DEF Answered, Failed
<1>2. /\ Answered' \in SUBSET Calls /\ Failed' \in SUBSET Calls
      /\ Answered' \cap Failed' = {}
  BY DEF Answered, Failed
<1>3. Cardinality(Answered') \in Nat /\ Cardinality(Failed') \in Nat
  BY <1>2, CallSets
<1> QED
  BY <1>1, <1>3, CallSets

\* A call that has not reported leaves room in both channels.
LEMMA RoomToReport ==
    ASSUME NEW c \in Calls, c \notin Answered, c \notin Failed
    PROVE  Cardinality(Answered) < NumCalls /\ Cardinality(Failed) < NumCalls
<1>1. c \notin Answered \cup Failed /\ Answered \cup Failed # Calls
  OBVIOUS
<1> QED
  BY <1>1, Counts, NumCallsAssumption

-----------------------------------------------------------------------------
(* The inductive invariant: it holds initially and every action keeps it.  *)

\* The initial states satisfy the inductive invariant.
LEMMA InitInv == Init => IInv
<1> SUFFICES ASSUME Init PROVE IInv
  OBVIOUS
<1>1. TypeOK
  <2>1. /\ spawned \in 0 .. NumCalls /\ iter \in 0 .. NumCalls
        /\ results \in Seq(Calls) /\ failed \in Seq(Calls)
    BY NumCallsAssumption DEF Init
  <2>2. /\ call \in [Calls -> CallState]
        /\ req \in [Calls -> {"none", "clone", "original"}]
        /\ complete \in [Calls -> BOOLEAN]
        /\ body \in [Calls -> {"none", "open", "closed"}]
    BY DEF Init, CallState
  <2>3. reply \in [resp : Calls \cup {None}, err : Calls \cup {None}]
    BY DEF Init
  <2> QED
    BY <2>1, <2>2, <2>3 DEF Init, TypeOK
<1>2. Answered = {} /\ Failed = {}
  BY DEF Init, Answered, Failed
<1>3. Cardinality(Answered) = 0 /\ Cardinality(Failed) = 0
  BY <1>2, FS_EmptySet
<1>4. SpawnInv
  BY NumCallsAssumption DEF Init, SpawnInv, Calls
<1>5. ReportedInv
  BY DEF Init, ReportedInv
<1>6. CountInv
  BY <1>3 DEF Init, CountInv, Taken
<1>7. ContentInv /\ ReplyInv
  BY <1>2 DEF Init, ContentInv, ReplyInv
<1> QED
  BY <1>1, <1>4, <1>5, <1>6, <1>7 DEF IInv

(***************************************************************************)
(* A step that moves no report and leaves the middleware alone keeps the   *)
(* invariant: only a call that has not reported gets a response.           *)
(***************************************************************************)
LEMMA QuietInv ==
    ASSUME IInv, TypeOK',
           Answered' = Answered, Failed' = Failed,
           \A c \in Calls : call'[c] = "none" <=> call[c] = "none",
           \A c \in Answered : complete'[c] = complete[c],
           parentDone => parentDone',
           UNCHANGED <<loopVars, req, results, failed>>
    PROVE  IInv'
<1> USE DEF IInv, loopVars
<1>1. SpawnInv'
  BY DEF SpawnInv
<1>2. ReportedInv'
  BY DEF ReportedInv
<1>3. Taken' = Taken
  BY DEF Taken
<1>4. CountInv'
  BY <1>3 DEF CountInv
<1>5. Success' <=> Success
  BY DEF Success, ReportedInv
<1>6. ContentInv'
  BY <1>5 DEF ContentInv
<1>7. ReplyInv'
  BY <1>3, <1>5 DEF ReplyInv
<1> QED
  BY <1>1, <1>2, <1>4, <1>6, <1>7

\* Starting a call keeps the invariant.
LEMMA SpawnKeepsInv == IInv /\ Spawn => IInv'
<1> SUFFICES ASSUME IInv, Spawn PROVE IInv'
  OBVIOUS
<1> USE DEF IInv
<1> DEFINE n == spawned + 1
<1>1. /\ n \in Calls /\ spawned' = n /\ call[n] = "none"
      /\ call' = [call EXCEPT ![n] = "calling"]
      /\ req' = [req EXCEPT ![n] = IF n < NumCalls THEN "clone"
                                                   ELSE "original"]
      /\ spawned \in 0 .. NumCalls /\ pc = "spawn"
  BY NumCallsAssumption DEF Spawn, TypeOK, SpawnInv, Calls
<1>2. TypeOK'
  BY <1>1, NumCallsAssumption DEF Spawn, TypeOK, CallState, Calls
<1>3. Answered' = Answered /\ Failed' = Failed
  BY <1>1 DEF TypeOK, Answered, Failed
<1>4. SpawnInv'
  BY <1>1, NumCallsAssumption DEF Spawn, SpawnInv, TypeOK, Calls
<1>5. ReportedInv'
  BY <1>3 DEF Spawn, ReportedInv
<1>6. CountInv'
  BY <1>3 DEF Spawn, CountInv, Taken
<1>7. ContentInv' /\ ReplyInv'
  BY <1>3 DEF Spawn, ContentInv, ReplyInv, Success
<1> QED
  BY <1>2, <1>4, <1>5, <1>6, <1>7

\* Entering the wait loop keeps the invariant.
LEMMA StartWaitInv == IInv /\ StartWait => IInv'
<1> SUFFICES ASSUME IInv, StartWait PROVE IInv'
  OBVIOUS
<1> USE DEF IInv, callVars
<1>1. TypeOK' /\ SpawnInv'
  BY DEF StartWait, TypeOK, SpawnInv
<1>2. Answered' = Answered /\ Failed' = Failed
  BY DEF StartWait, Answered, Failed
<1>3. ReportedInv' /\ CountInv'
  BY <1>2 DEF StartWait, ReportedInv, CountInv, Taken
<1>4. ContentInv' /\ ReplyInv'
  BY <1>2 DEF StartWait, ContentInv, ReplyInv, Success
<1> QED
  BY <1>1, <1>3, <1>4

\* case response = <-results: the report leaves the channel, and a complete
\* response wins.
LEMMA TakeResponseInv == IInv /\ (TakeComplete \/ TakeIncomplete) => IInv'
<1> SUFFICES ASSUME IInv, TakeComplete \/ TakeIncomplete PROVE IInv'
  OBVIOUS
<1> USE DEF IInv, callVars
<1> DEFINE h == Head(results)
<1>1. /\ results # <<>> /\ results' = Tail(results) /\ response' = h
      /\ UNCHANGED <<call, req, complete, body, parentDone, err, failed, spawned>>
      /\ pc = "wait" /\ iter < NumCalls
  BY DEF TakeComplete, TakeIncomplete
<1>2. /\ h \in Calls /\ h = results[1]
      /\ Len(results) \in Nat /\ Len(results) > 0
      /\ results' \in Seq(Calls) /\ Len(results') = Len(results) - 1
      /\ \A j \in 1 .. Len(results) - 1 : results'[j] = results[j + 1]
  BY <1>1 DEF TypeOK
<1>3. h \in Answered /\ h # None
  BY <1>2, NumCallsAssumption DEF ReportedInv, Calls, None
<1>4. TypeOK'
  <2>1. reply' \in [resp : Calls \cup {None}, err : Calls \cup {None}]
    BY <1>1, <1>2 DEF TakeComplete, TakeIncomplete, TypeOK
  <2>2. iter' \in 0 .. NumCalls
    BY <1>1, NumCallsAssumption DEF TakeComplete, TakeIncomplete, TypeOK
  <2>3. pc' \in {"spawn", "wait", "returned"} /\ localDone' \in BOOLEAN
    BY DEF TakeComplete, TakeIncomplete, TypeOK
  <2> QED
    BY <1>1, <1>2, <2>1, <2>2, <2>3 DEF TypeOK
<1>5. Answered' = Answered /\ Failed' = Failed
  BY <1>1 DEF Answered, Failed
<1>6. SpawnInv'
  BY <1>1 DEF SpawnInv
<1>7. ReportedInv'
  BY <1>1, <1>2, <1>3, <1>5 DEF TakeComplete, TakeIncomplete, ReportedInv
<1>8. Taken' = Taken + 1
  BY <1>1, <1>2, <1>5, Counts DEF Taken, TypeOK
<1>9. CountInv'
  <2>1. iter \in Nat
    BY DEF TypeOK
  <2>2. Len(results') < Cardinality(Answered)
    BY <1>2, Counts DEF CountInv
  <2>3. ~parentDone' /\ pc' # "returned" => iter' = Taken'
    BY <1>1, <1>8, <2>1 DEF TakeComplete, TakeIncomplete, CountInv
  <2> QED
    BY <1>1, <1>2, <1>3, <1>5, <2>2, <2>3, Counts DEF CountInv
<1>10. TakeComplete => Success'
  BY <1>1, <1>3 DEF TakeComplete, Success
<1>11. ContentInv'
  <2> SUFFICES ASSUME NEW c \in Answered, complete[c], TakeIncomplete
               PROVE  \E j \in 1 .. Len(results') : results'[j] = c
    BY <1>1, <1>5, <1>10 DEF ContentInv, TakeComplete
  <2>1. PICK j \in 1 .. Len(results) : results[j] = c
    BY <1>1 DEF ContentInv
  <2>2. j # 1
    BY <1>2, <2>1 DEF TakeIncomplete
  <2>3. j - 1 \in 1 .. Len(results') /\ results'[j - 1] = c
    BY <1>2, <2>1, <2>2
  <2> QED
    BY <2>3
<1>12. ReplyInv'
  BY <1>1, <1>10 DEF TakeIncomplete, ReplyInv
<1> QED
  BY <1>4, <1>6, <1>7, <1>9, <1>11, <1>12

\* case err = <-failed
LEMMA TakeErrorInv == IInv /\ TakeError => IInv'
<1> SUFFICES ASSUME IInv, TakeError PROVE IInv'
  OBVIOUS
<1> USE DEF IInv, callVars
<1>1. /\ Head(failed) \in Calls /\ Head(failed) # None
      /\ Len(failed) \in Nat /\ Len(failed) > 0
      /\ failed' \in Seq(Calls) /\ Len(failed') = Len(failed) - 1
  <2>1. Head(failed) \in Calls
    BY DEF TakeError, TypeOK
  <2>2. Head(failed) # None
    BY <2>1, NumCallsAssumption DEF Calls, None
  <2> QED
    BY <2>1, <2>2 DEF TakeError, TypeOK
<1>2. TypeOK'
  BY <1>1, NumCallsAssumption DEF TakeError, TypeOK
<1>3. Answered' = Answered /\ Failed' = Failed
  BY DEF TakeError, Answered, Failed
<1>4. SpawnInv' /\ ReportedInv'
  BY <1>3 DEF TakeError, SpawnInv, ReportedInv
<1>5. Taken' = Taken + 1
  BY <1>1, <1>3, Counts DEF TakeError, Taken, TypeOK
<1>6. CountInv'
  <2>1. iter \in Nat
    BY DEF TypeOK
  <2>2. Len(failed') < Cardinality(Failed)
    BY <1>1, Counts DEF CountInv
  <2>3. ~parentDone' => iter' = Taken'
    BY <1>5, <2>1 DEF TakeError, CountInv
  <2> QED
    BY <1>1, <1>3, <2>2, <2>3, Counts DEF TakeError, CountInv
<1>7. ContentInv' /\ ReplyInv'
  BY <1>3 DEF TakeError, ContentInv, ReplyInv
<1> QED
  BY <1>2, <1>4, <1>6, <1>7

\* case <-ctx.Done(): an iteration that takes no report.
LEMMA SeeParentDoneInv == IInv /\ SeeParentDone => IInv'
<1> SUFFICES ASSUME IInv, SeeParentDone PROVE IInv'
  OBVIOUS
<1> USE DEF IInv, callVars
<1>1. TypeOK'
  BY NumCallsAssumption DEF SeeParentDone, TypeOK
<1>2. Answered' = Answered /\ Failed' = Failed
  BY DEF SeeParentDone, Answered, Failed
<1>3. SpawnInv' /\ ReportedInv'
  BY <1>2 DEF SeeParentDone, SpawnInv, ReportedInv
<1>4. CountInv'
  BY <1>2 DEF SeeParentDone, CountInv
<1>5. ContentInv' /\ ReplyInv'
  BY <1>2 DEF SeeParentDone, ContentInv, ReplyInv
<1> QED
  BY <1>1, <1>3, <1>4, <1>5

\* Leaving the loop keeps the invariant: it has seen NumCalls reports, unless
\* the caller has left.
LEMMA ReturnInv == IInv /\ Return => IInv'
<1> SUFFICES ASSUME IInv, Return PROVE IInv'
  OBVIOUS
<1> USE DEF IInv, callVars
<1>1. TypeOK'
  BY DEF Return, TypeOK
<1>2. Answered' = Answered /\ Failed' = Failed
  BY DEF Return, Answered, Failed
<1>3. SpawnInv' /\ ReportedInv'
  BY <1>2 DEF Return, SpawnInv, ReportedInv
<1>4. Taken' = Taken
  BY <1>2 DEF Return, Taken
<1>5. CountInv'
  BY <1>2 DEF Return, CountInv
<1>6. ContentInv'
  BY <1>2 DEF Return, ContentInv
<1>7. ReplyInv'
  BY <1>4 DEF Return, ReplyInv, CountInv
<1> QED
  BY <1>1, <1>3, <1>5, <1>6, <1>7

\* Sending a response keeps the invariant.
LEMMA DeliverInv ==
    ASSUME IInv, NEW c \in Calls, Deliver(c)
    PROVE  IInv'
<1> USE DEF IInv, loopVars
<1>1. /\ call[c] = "deliver" /\ call' = [call EXCEPT ![c] = "delivered"]
      /\ results' = Append(results, c)
      /\ UNCHANGED <<pc, spawned, iter, response, err, reply, req, complete,
                     body, parentDone, localDone, failed>>
  BY DEF Deliver
<1>2. /\ Len(results) \in Nat /\ Len(failed) \in Nat
      /\ results' \in Seq(Calls) /\ Len(results') = Len(results) + 1
      /\ \A j \in 1 .. Len(results) : results'[j] = results[j]
      /\ results'[Len(results) + 1] = c
  BY <1>1 DEF TypeOK
<1>3. TypeOK'
  BY <1>1, <1>2 DEF TypeOK, CallState
<1>4. /\ Answered' = Answered \cup {c} /\ Failed' = Failed
      /\ c \notin Answered
  BY <1>1 DEF TypeOK, Answered, Failed
<1>5. Cardinality(Answered') = Cardinality(Answered) + 1
  BY <1>4, Counts, FS_AddElement
<1>6. SpawnInv'
  BY <1>1 DEF SpawnInv, TypeOK
<1>7. ReportedInv'
  BY <1>1, <1>2, <1>4 DEF ReportedInv
<1>8. Taken' = Taken
  BY <1>1, <1>2, <1>4, <1>5, Counts DEF Taken
<1>9. CountInv'
  <2>1. /\ Len(results') <= Cardinality(Answered')
        /\ response' # None <=> Len(results') < Cardinality(Answered')
    BY <1>1, <1>2, <1>5, Counts DEF CountInv
  <2> QED
    BY <1>1, <1>4, <1>8, <2>1 DEF CountInv
<1>10. Success' <=> Success
  BY <1>1 DEF Success
<1>11. ContentInv'
  BY <1>1, <1>2, <1>4, <1>10 DEF ContentInv
<1>12. ReplyInv'
  BY <1>1, <1>8, <1>10 DEF ReplyInv
<1> QED
  BY <1>3, <1>6, <1>7, <1>9, <1>11, <1>12

\* Sending an error keeps the invariant.
LEMMA SendErrorInv ==
    ASSUME IInv, NEW c \in Calls, SendError(c)
    PROVE  IInv'
<1> USE DEF IInv, loopVars
<1>1. /\ call[c] = "fail" /\ call' = [call EXCEPT ![c] = "errored"]
      /\ failed' = Append(failed, c)
      /\ UNCHANGED <<pc, spawned, iter, response, err, reply, req, complete,
                     body, parentDone, localDone, results>>
  BY DEF SendError
<1>2. /\ Len(results) \in Nat /\ Len(failed) \in Nat
      /\ failed' \in Seq(Calls) /\ Len(failed') = Len(failed) + 1
  BY <1>1 DEF TypeOK
<1>3. TypeOK'
  BY <1>1, <1>2 DEF TypeOK, CallState
<1>4. /\ Failed' = Failed \cup {c} /\ Answered' = Answered
      /\ c \notin Failed
  BY <1>1 DEF TypeOK, Answered, Failed
<1>5. Cardinality(Failed') = Cardinality(Failed) + 1
  BY <1>4, Counts, FS_AddElement
<1>6. SpawnInv'
  BY <1>1 DEF SpawnInv, TypeOK
<1>7. ReportedInv'
  BY <1>1, <1>4 DEF ReportedInv
<1>8. Taken' = Taken
  BY <1>1, <1>2, <1>4, <1>5, Counts DEF Taken
<1>9. CountInv'
  <2>1. /\ Len(failed') <= Cardinality(Failed')
        /\ err' # None <=> Len(failed') < Cardinality(Failed')
    BY <1>1, <1>2, <1>5, Counts DEF CountInv
  <2> QED
    BY <1>1, <1>4, <1>8, <2>1 DEF CountInv
<1>10. ContentInv'
  BY <1>1, <1>4 DEF ContentInv, Success
<1>11. ReplyInv'
  BY <1>1, <1>8 DEF ReplyInv, Success
<1> QED
  BY <1>3, <1>6, <1>7, <1>9, <1>10, <1>11

\* A step of one call that sends nothing: next() returns, the call gives up on
\* its response, its context is cancelled, its stream is closed.
LEMMA CallInv ==
    ASSUME IInv, NEW c \in Calls,
           \/ CallReturns(c) \/ DeliverTooLate(c)
           \/ Cancel(c) \/ CloseOnCancel(c)
    PROVE  IInv'
<1>1. TypeOK
  BY DEF IInv
<1>2. CASE CallAnswers(c)
  <2>1. PICK full \in BOOLEAN :
           /\ complete' = [complete EXCEPT ![c] = full]
           /\ body' = [body EXCEPT ![c] = IF full /\ NoOpEncoding THEN "open"
                                                                  ELSE "none"]
    BY <1>2 DEF CallAnswers
  <2>2. /\ call[c] = "calling" /\ call' = [call EXCEPT ![c] = "deliver"]
        /\ UNCHANGED <<loopVars, req, parentDone, localDone, results, failed>>
    BY <1>2 DEF CallAnswers
  <2>3. TypeOK'
    BY <1>1, <2>1, <2>2 DEF TypeOK, CallState, loopVars
  <2>4. /\ Answered' = Answered /\ Failed' = Failed /\ c \notin Answered
        /\ \A d \in Calls : call'[d] = "none" <=> call[d] = "none"
    BY <1>1, <2>2 DEF TypeOK, Answered, Failed
  <2>5. \A d \in Answered : complete'[d] = complete[d]
    BY <1>1, <2>1, <2>4 DEF TypeOK, Answered
  <2> QED
    BY <2>2, <2>3, <2>4, <2>5, QuietInv
<1>3. CASE CallFails(c) \/ DeliverTooLate(c) \/ Cancel(c)
  <2> DEFINE s == IF call[c] = "delivered" THEN "ended"
                  ELSE IF call[c] = "errored" THEN "endedInError" ELSE "fail"
  <2>1. /\ call[c] \in {"calling", "deliver", "delivered", "errored"}
        /\ call' = [call EXCEPT ![c] = s]
        /\ UNCHANGED <<loopVars, req, complete, body, parentDone, localDone,
                       results, failed>>
    BY <1>3 DEF CallFails, DeliverTooLate, Cancel
  <2>2. TypeOK'
    BY <1>1, <2>1 DEF TypeOK, CallState, loopVars
  <2>3. /\ Answered' = Answered /\ Failed' = Failed
        /\ \A d \in Calls : call'[d] = "none" <=> call[d] = "none"
    BY <1>1, <2>1 DEF TypeOK, Answered, Failed
  <2> QED
    BY <2>1, <2>2, <2>3, QuietInv
<1>4. CASE CloseOnCancel(c)
  <2>1. /\ body' = [body EXCEPT ![c] = "closed"]
        /\ UNCHANGED <<loopVars, call, req, complete, parentDone, localDone,
                       results, failed>>
    BY <1>4 DEF CloseOnCancel
  <2>2. TypeOK'
    BY <1>1, <2>1 DEF TypeOK, loopVars
  <2>3. Answered' = Answered /\ Failed' = Failed
    BY <2>1 DEF Answered, Failed
  <2> QED
    BY <2>1, <2>2, <2>3, QuietInv
<1> QED
  BY <1>2, <1>3, <1>4 DEF CallReturns

\* The end of a context, and a step that changes nothing, keep the invariant.
LEMMA ContextInv ==
    ASSUME IInv, parentDone' \in BOOLEAN, localDone' \in BOOLEAN,
           parentDone => parentDone',
           UNCHANGED <<loopVars, callVars, results, failed>>
    PROVE  IInv'
<1>1. TypeOK'
  BY DEF IInv, TypeOK, loopVars, callVars
<1>2. Answered' = Answered /\ Failed' = Failed
  BY DEF Answered, Failed, callVars
<1> QED
  BY <1>1, <1>2, QuietInv DEF callVars

\* Every step keeps the inductive invariant.
LEMMA StepInv == IInv /\ [Next]_vars => IInv'
<1> SUFFICES ASSUME IInv, [Next]_vars PROVE IInv'
  OBVIOUS
<1>1. parentDone \in BOOLEAN /\ localDone \in BOOLEAN
  BY DEF IInv, TypeOK
<1>2. CASE MiddlewareStep
  BY <1>2, SpawnKeepsInv, StartWaitInv, TakeResponseInv, TakeErrorInv,
     SeeParentDoneInv, ReturnInv DEF MiddlewareStep
<1>3. ASSUME NEW c \in Calls,
             CallReturns(c) \/ CallSends(c) \/ CloseOnCancel(c)
      PROVE  IInv'
  BY <1>3, CallInv, DeliverInv, SendErrorInv DEF CallSends
<1>4. CASE ParentDone
  BY <1>1, <1>4, ContextInv DEF ParentDone
<1>5. CASE LocalDone
  BY <1>1, <1>5, ContextInv DEF LocalDone
<1>6. CASE Finished \/ UNCHANGED vars
  BY <1>1, <1>6, ContextInv DEF Finished, vars
<1> QED
  BY <1>2, <1>3, <1>4, <1>5, <1>6 DEF Next

\* The inductive invariant holds in every reachable state.
THEOREM Invariance == Spec => []IInv
BY InitInv, StepInv, PTL DEF Spec

-----------------------------------------------------------------------------
(* The theorems about the specification.                                   *)

\* The variables of the middleware keep their types; the loop, in particular,
\* never runs past its NumCalls iterations.
THEOREM TypeCorrectness == Spec => []TypeOK
BY Invariance, PTL DEF IInv

\* A call that is about to send has not reported, so the channels are not full.
LEMMA RoomToSend == IInv => SendsNeverBlock
<1> SUFFICES ASSUME IInv, NEW c \in Calls, call[c] \in {"deliver", "fail"}
             PROVE  Len(results) < ChanCap /\ Len(failed) < ChanCap
  BY DEF SendsNeverBlock
<1>1. c \notin Answered /\ c \notin Failed
  BY DEF Answered, Failed
<1>2. Cardinality(Answered) < NumCalls /\ Cardinality(Failed) < NumCalls
  BY <1>1, RoomToReport
<1> QED
  BY <1>2, Counts, NumCallsAssumption DEF IInv, TypeOK, CountInv, ChanCap

\* Only the last call gets the request itself.
LEMMA LastGetsOriginal == IInv => OriginalHandedOutLast
<1> SUFFICES ASSUME IInv PROVE OriginalHandedOutLast
  OBVIOUS
<1>1. spawned < NumCalls => \A c \in Calls : req[c] # "original"
  BY NumCallsAssumption DEF IInv, TypeOK, SpawnInv, Calls
<1>2. spawned = NumCalls => {c \in Calls : req[c] = "original"} = {NumCalls}
  BY NumCallsAssumption DEF IInv, SpawnInv, Calls
<1> QED
  BY <1>1, <1>2, FS_Singleton DEF OriginalHandedOutLast

\* A middleware that returns without a complete response, to a caller that is
\* still there, has emptied both channels after the report of every call.
LEMMA AllTaken ==
    ASSUME IInv, pc = "returned", ~parentDone, ~Success
    PROVE  /\ Len(results) = 0 /\ Len(failed) = 0
           /\ Answered \cup Failed = Calls
<1>1. Len(results) \in Nat /\ Len(failed) \in Nat
  BY DEF IInv, TypeOK
<1>2. Taken = NumCalls
  BY DEF IInv, ReplyInv
<1>3. /\ Len(results) = 0 /\ Len(failed) = 0
      /\ Cardinality(Answered) + Cardinality(Failed) = NumCalls
  BY <1>1, <1>2, Counts, NumCallsAssumption DEF Taken
<1> QED
  BY <1>3, Counts

\* No complete response is missed, and a failure accounts for every call.
LEMMA ReplyIsTheBest == IInv => SuccessNotMissed /\ FailureIsExplained
<1> SUFFICES ASSUME IInv, pc = "returned", ~parentDone, ~Success
             PROVE  /\ \A c \in Answered : ~complete[c]
                    /\ Answered \cup Failed = Calls
                    /\ reply.resp # None <=> Answered # {}
                    /\ reply.err # None <=> Failed # {}
  BY DEF SuccessNotMissed, FailureIsExplained
<1>1. /\ Len(results) = 0 /\ Len(failed) = 0
      /\ Answered \cup Failed = Calls
  BY AllTaken
<1>2. \A c \in Answered : ~complete[c]
  BY <1>1 DEF IInv, ContentInv
<1>3. reply = [resp |-> response, err |-> err]
  BY DEF IInv, ReplyInv
<1>4. /\ response # None <=> Cardinality(Answered) # 0
      /\ err # None <=> Cardinality(Failed) # 0
  BY <1>1, Counts DEF IInv, CountInv
<1>5. /\ Cardinality(Answered) = 0 <=> Answered = {}
      /\ Cardinality(Failed) = 0 <=> Failed = {}
  BY Counts, FS_EmptySet
<1> QED
  BY <1>1, <1>2, <1>3, <1>4, <1>5

\* No goroutine of the middleware ever blocks on a channel that nobody reads.
THEOREM NoBlockedSend == Spec => []SendsNeverBlock
BY Invariance, RoomToSend, PTL

\* While the caller is there, a complete response that any call delivers is not
\* lost, and a reply without one accounts for every call.
THEOREM BestReply == Spec => [](SuccessNotMissed /\ FailureIsExplained)
BY Invariance, ReplyIsTheBest, PTL

\* The safety of the middleware as a whole.
THEOREM Safety == Spec => []ConcurrentSafety
<1>1. IInv => ConcurrentSafety
  BY RoomToSend, LastGetsOriginal, ReplyIsTheBest DEF ConcurrentSafety
<1> QED
  BY <1>1, Invariance, PTL

=============================================================================
