-------------------------- MODULE PermissionsProofs --------------------------
(***************************************************************************)
(* Theorems about Permissions: whatever replies and teardowns overlap, a   *)
(* tool is granted only after an approver has allowed it, and questions    *)
(* are answered to the agent only when all of them are.  They hold for any *)
(* number of replies, teardowns, requests and questions, and also for a    *)
(* platform that hands over several messages at a time.                    *)
(*                                                                         *)
(* The argument: a decision is taken in several steps, on what an earlier  *)
(* step has read.  What was read may be stale (another request is pending  *)
(* by then, another reply has moved the current question), but what it     *)
(* stands for is never taken back: approved, approveAll and the answers    *)
(* only grow.  The three invariants say so for the request a reply holds.  *)
(*                                                                         *)
(* Where messages come one at a time, no reply is stale until a teardown   *)
(* stops the state: OnceInv and OpenInv say so, and it follows that a      *)
(* request is answered once and stays answerable.                          *)
(***************************************************************************)
EXTENDS Permissions, TLAPS

USE PermissionsAssumption

\* The values of what the invariants speak of.
Shape ==
  /\ pending \in Requests \cup {0}
  /\ question \in [Requests -> 0 .. NumQuestions - 1]
  /\ answers \in [Requests -> SUBSET (0 .. NumQuestions - 1)]
  /\ asked \in Requests \cup {0}
  /\ pc \in [Procs -> Labels]
  /\ held \in [Procs -> Requests \cup {0}]
  /\ index \in [Replies -> 0 .. NumQuestions - 1]
  /\ verdict \in [Replies -> Verdicts]
  /\ responses \in [Requests -> [Verdicts -> Nat]]
  /\ approved \subseteq Requests
  /\ turn \in {"received", "grant", "publish", "blocked"} => asked # 0

\* Nobody holds a request that the turn has not received, and a reply that
\* goes on holds one.
HeldInv ==
  /\ pending <= asked
  /\ \A p \in Procs : held[p] <= asked
  /\ \A p \in Replies :
       /\ pc[p] \in {"decide", "answering", "respond"} => held[p] # 0
       /\ pc[p] = "answering" => held[p] \in Questions

\* An approval is on record before it is acted on.
ApprovalInv ==
  /\ approveAll => \E q \in approved : q <= asked
  /\ turn = "grant" => approveAll /\ asked \notin Questions
  /\ \A p \in Replies :
       pc[p] = "respond" /\ verdict[p] = "allow" /\ held[p] \notin Questions =>
         held[p] \in approved
  /\ Authorized

\* The questions before the current one, and before the one a reply is about to
\* answer, have been answered.
QuestionInv ==
  /\ turn = "grant" => asked \notin Questions
  /\ \A r \in Requests : 0 .. question[r] - 1 \subseteq answers[r]
  /\ \A p \in Replies :
       pc[p] = "answering" => 0 .. index[p] - 1 \subseteq answers[held[p]]
  /\ \A p \in Replies :
       pc[p] = "respond" /\ held[p] \in Questions =>
         answers[held[p]] = 0 .. NumQuestions - 1
  /\ QuestionsComplete

PermissionsInv == Shape /\ HeldInv /\ ApprovalInv /\ QuestionInv

LEMMA InitInv == Init => PermissionsInv
<1> SUFFICES ASSUME Init PROVE PermissionsInv
  OBVIOUS
<1> USE DEF Init, Procs, Requests, Verdicts
<1>0. Shape
  BY DEF Shape, Labels
<1>1. HeldInv
  BY DEF HeldInv
<1>2. ApprovalInv
  BY DEF ApprovalInv, Authorized
<1>3. QuestionInv
  BY DEF QuestionInv, QuestionsComplete
<1> QED BY <1>0, <1>1, <1>2, <1>3 DEF PermissionsInv

\* Steps keep the shape.
LEMMA ShapeStep ==
  ASSUME Shape, HeldInv, [Next]_vars
  PROVE  Shape'
<1> USE DEF Procs, Verdicts, Labels
<1>1. CASE Receive
  <2>0. asked \in Nat /\ asked < MaxRequests
    BY <1>1 DEF Receive, Shape, Requests
  <2>1. asked + 1 \in Requests /\ asked + 1 # 0
    BY <2>0 DEF Requests
  <2> QED BY <1>1, <2>1
      DEF Receive, TurnAt, shared, requests, locals, Shape
<1>2. CASE LeaveTurn
  BY <1>2
  DEF Shape, HeldInv, LeaveTurn, TurnAt, shared, requests, locals
<1>3. CASE CheckApproveAll
  BY <1>3
  DEF Shape, HeldInv, CheckApproveAll, TurnAt, shared, requests, locals
<1>4. CASE Grant
  BY <1>4
  DEF Shape, HeldInv, Grant, TurnAt, Told, shared, requests, locals
<1>5. CASE Publish
  BY <1>5
  DEF Shape, HeldInv, Publish, TurnAt, shared, requests, locals
<1>6. CASE Unblock
  BY <1>6
  DEF Shape, HeldInv, Unblock, TurnAt, shared, requests, locals
<1>7. ASSUME NEW p \in Replies, FindState(p) PROVE Shape'
  BY <1>7
  DEF Shape, HeldInv, FindState, At, Goto, shared, requests, locals
<1>8. ASSUME NEW p \in Replies, ReadPending(p) PROVE Shape'
  BY <1>8
  DEF Shape, HeldInv, ReadPending, At, Goto, shared, requests, locals
<1>9. ASSUME NEW p \in Replies, ReadQuestion(p) PROVE Shape'
  BY <1>9
  DEF Shape, HeldInv, ReadQuestion, At, Goto, IsLast, shared, requests, locals
<1>10. ASSUME NEW p \in Replies, StoreAnswer(p) PROVE Shape'
  <2>1. held[p] \in Requests /\ p \in Procs /\ index[p] \in 0 .. NumQuestions - 1
    BY <1>10 DEF StoreAnswer, At, HeldInv, Shape
  <2>2. answers' \in [Requests -> SUBSET (0 .. NumQuestions - 1)]
    BY <1>10, <2>1 DEF StoreAnswer, Shape
  <2>3. question' \in [Requests -> 0 .. NumQuestions - 1]
    BY <1>10, <2>1 DEF StoreAnswer, IsLast, Shape
  <2>4. verdict' \in [Replies -> Verdicts] /\ pc' \in [Procs -> Labels]
    BY <1>10 DEF StoreAnswer, Goto, Shape
  <2> QED BY <1>10, <2>2, <2>3, <2>4 DEF StoreAnswer, shared, Shape
<1>11. ASSUME NEW p \in Replies, Approve(p) PROVE Shape'
  <2>1. held[p] \in Requests
    BY <1>11 DEF Approve, At, HeldInv, Shape
  <2>2. verdict' \in [Replies -> Verdicts] /\ pc' \in [Procs -> Labels]
    BY <1>11 DEF Approve, Goto, Shape
  <2> QED BY <1>11, <2>1, <2>2 DEF Approve, shared, Shape
<1>12. ASSUME NEW p \in Replies, Deny(p) PROVE Shape'
  BY <1>12
  DEF Shape, HeldInv, Deny, At, Goto, shared, requests, locals
<1>13. ASSUME NEW p \in Replies, Hint(p) PROVE Shape'
  BY <1>13
  DEF Shape, HeldInv, Hint, At, Goto, shared, requests, locals
<1>14. ASSUME NEW p \in Replies, Respond(p) PROVE Shape'
  BY <1>14
  DEF Shape, HeldInv, Respond, At, Goto, Told, shared, requests, locals
<1>15. ASSUME NEW p \in Replies, ClearPending(p) PROVE Shape'
  BY <1>15
  DEF Shape, HeldInv, ClearPending, At, Goto, shared, requests, locals
<1>16. ASSUME NEW p \in Replies, Resolve(p) PROVE Shape'
  BY <1>16
  DEF Shape, HeldInv, Resolve, At, Goto, shared, requests, locals
<1>17. ASSUME NEW d \in Teardowns, CleanupTake(d) PROVE Shape'
  BY <1>17
  DEF Shape, HeldInv, CleanupTake, At, Goto, shared, requests, locals
<1>18. ASSUME NEW d \in Teardowns, CleanupMark(d) PROVE Shape'
  BY <1>18
  DEF Shape, HeldInv, CleanupMark, At, Goto, shared, requests, locals
<1>19. ASSUME NEW d \in Teardowns, CleanupPending(d) PROVE Shape'
  BY <1>19
  DEF Shape, HeldInv, CleanupPending, At, Goto, TakePending, shared, requests,
      locals
<1>20. ASSUME NEW d \in Teardowns, StopPending(d) PROVE Shape'
  BY <1>20
  DEF Shape, HeldInv, StopPending, At, Goto, TakePending, shared, requests,
      locals
<1>21. ASSUME NEW d \in Teardowns, StopMark(d) PROVE Shape'
  BY <1>21
  DEF Shape, HeldInv, StopMark, At, Goto, shared, requests, locals
<1>22. ASSUME NEW d \in Teardowns, Release(d) PROVE Shape'
  BY <1>22
  DEF Shape, HeldInv, Release, At, Goto, shared, requests, locals
<1>23. ASSUME NEW d \in Teardowns, Close(d) PROVE Shape'
  BY <1>23
  DEF Shape, HeldInv, Close, At, Goto, shared, requests, locals
<1>24. ASSUME NEW d \in Teardowns, Delete(d) PROVE Shape'
  BY <1>24
  DEF Shape, HeldInv, Delete, At, Goto, shared, requests, locals
<1>25. CASE UNCHANGED vars
  BY <1>25
  DEF Shape, HeldInv, vars, shared, requests, locals
<1> QED
  BY <1>1, <1>2, <1>3, <1>4, <1>5, <1>6, <1>7, <1>8, <1>9, <1>10, <1>11,
     <1>12, <1>13, <1>14, <1>15, <1>16, <1>17, <1>18, <1>19, <1>20, <1>21,
     <1>22, <1>23, <1>24, <1>25
  DEF Next, Turn, Reply, Teardown

\* Requests are held in the order they are received.
LEMMA HeldStep ==
  ASSUME Shape, HeldInv, [Next]_vars
  PROVE  HeldInv'
<1> USE DEF Procs, Requests, Verdicts, Shape
<1>1. CASE Receive
  <2>1. /\ asked \in Nat /\ pending \in Nat
        /\ \A p \in Procs : held[p] \in Nat
    BY DEF Shape, Requests
  <2> QED BY <1>1, <2>1 DEF Receive, requests, locals, HeldInv, Procs
<1>2. CASE LeaveTurn
  BY <1>2
  DEF HeldInv, LeaveTurn, TurnAt, shared, requests, locals
<1>3. CASE CheckApproveAll
  BY <1>3
  DEF HeldInv, CheckApproveAll, TurnAt, shared, requests, locals
<1>4. CASE Grant
  BY <1>4
  DEF HeldInv, Grant, TurnAt, Told, shared, requests, locals
<1>5. CASE Publish
  BY <1>5
  DEF HeldInv, Publish, TurnAt, shared, requests, locals
<1>6. CASE Unblock
  BY <1>6
  DEF HeldInv, Unblock, TurnAt, shared, requests, locals
<1>7. ASSUME NEW p \in Replies, FindState(p) PROVE HeldInv'
  BY <1>7
  DEF HeldInv, FindState, At, Goto, shared, requests, locals
<1>8. ASSUME NEW p \in Replies, ReadPending(p) PROVE HeldInv'
  BY <1>8
  DEF HeldInv, ReadPending, At, Goto, shared, requests, locals
<1>9. ASSUME NEW p \in Replies, ReadQuestion(p) PROVE HeldInv'
  BY <1>9
  DEF HeldInv, ReadQuestion, At, Goto, IsLast, shared, requests, locals
<1>10. ASSUME NEW p \in Replies, StoreAnswer(p) PROVE HeldInv'
  BY <1>10
  DEF HeldInv, StoreAnswer, At, Goto, IsLast, shared, requests, locals
<1>11. ASSUME NEW p \in Replies, Approve(p) PROVE HeldInv'
  BY <1>11
  DEF HeldInv, Approve, At, Goto, shared, requests, locals
<1>12. ASSUME NEW p \in Replies, Deny(p) PROVE HeldInv'
  BY <1>12
  DEF HeldInv, Deny, At, Goto, shared, requests, locals
<1>13. ASSUME NEW p \in Replies, Hint(p) PROVE HeldInv'
  BY <1>13
  DEF HeldInv, Hint, At, Goto, shared, requests, locals
<1>14. ASSUME NEW p \in Replies, Respond(p) PROVE HeldInv'
  BY <1>14
  DEF HeldInv, Respond, At, Goto, Told, shared, requests, locals
<1>15. ASSUME NEW p \in Replies, ClearPending(p) PROVE HeldInv'
  BY <1>15
  DEF HeldInv, ClearPending, At, Goto, shared, requests, locals
<1>16. ASSUME NEW p \in Replies, Resolve(p) PROVE HeldInv'
  BY <1>16
  DEF HeldInv, Resolve, At, Goto, shared, requests, locals
<1>17. ASSUME NEW d \in Teardowns, CleanupTake(d) PROVE HeldInv'
  BY <1>17
  DEF HeldInv, CleanupTake, At, Goto, shared, requests, locals
<1>18. ASSUME NEW d \in Teardowns, CleanupMark(d) PROVE HeldInv'
  BY <1>18
  DEF HeldInv, CleanupMark, At, Goto, shared, requests, locals
<1>19. ASSUME NEW d \in Teardowns, CleanupPending(d) PROVE HeldInv'
  BY <1>19
  DEF HeldInv, CleanupPending, At, Goto, TakePending, shared, requests, locals
<1>20. ASSUME NEW d \in Teardowns, StopPending(d) PROVE HeldInv'
  BY <1>20
  DEF HeldInv, StopPending, At, Goto, TakePending, shared, requests, locals
<1>21. ASSUME NEW d \in Teardowns, StopMark(d) PROVE HeldInv'
  BY <1>21
  DEF HeldInv, StopMark, At, Goto, shared, requests, locals
<1>22. ASSUME NEW d \in Teardowns, Release(d) PROVE HeldInv'
  BY <1>22
  DEF HeldInv, Release, At, Goto, shared, requests, locals
<1>23. ASSUME NEW d \in Teardowns, Close(d) PROVE HeldInv'
  BY <1>23
  DEF HeldInv, Close, At, Goto, shared, requests, locals
<1>24. ASSUME NEW d \in Teardowns, Delete(d) PROVE HeldInv'
  BY <1>24
  DEF HeldInv, Delete, At, Goto, shared, requests, locals
<1>25. CASE UNCHANGED vars
  BY <1>25
  DEF HeldInv, vars, shared, requests, locals
<1> QED
  BY <1>1, <1>2, <1>3, <1>4, <1>5, <1>6, <1>7, <1>8, <1>9, <1>10, <1>11,
     <1>12, <1>13, <1>14, <1>15, <1>16, <1>17, <1>18, <1>19, <1>20, <1>21,
     <1>22, <1>23, <1>24, <1>25
  DEF Next, Turn, Reply, Teardown

\* No step grants what is not approved.
LEMMA ApprovalStep ==
  ASSUME Shape, HeldInv, ApprovalInv, [Next]_vars
  PROVE  ApprovalInv'
<1> USE DEF Procs, Requests, Verdicts, Shape
<1>1. CASE Receive
  BY <1>1
  DEF ApprovalInv, Authorized, HeldInv, Receive, TurnAt, shared, requests,
      locals
<1>2. CASE LeaveTurn
  BY <1>2
  DEF ApprovalInv, Authorized, HeldInv, LeaveTurn, TurnAt, shared, requests,
      locals
<1>3. CASE CheckApproveAll
  BY <1>3
  DEF ApprovalInv, Authorized, HeldInv, CheckApproveAll, TurnAt, shared,
      requests, locals
<1>4. CASE Grant
  BY <1>4, ZenonT(60)
  DEF ApprovalInv, Authorized, HeldInv, Grant, TurnAt, Told, shared, requests,
      locals
<1>5. CASE Publish
  BY <1>5
  DEF ApprovalInv, Authorized, HeldInv, Publish, TurnAt, shared, requests,
      locals
<1>6. CASE Unblock
  BY <1>6
  DEF ApprovalInv, Authorized, HeldInv, Unblock, TurnAt, shared, requests,
      locals
<1>7. ASSUME NEW p \in Replies, FindState(p) PROVE ApprovalInv'
  BY <1>7
  DEF ApprovalInv, Authorized, HeldInv, FindState, At, Goto, shared, requests,
      locals
<1>8. ASSUME NEW p \in Replies, ReadPending(p) PROVE ApprovalInv'
  BY <1>8
  DEF ApprovalInv, Authorized, HeldInv, ReadPending, At, Goto, shared,
      requests, locals
<1>9. ASSUME NEW p \in Replies, ReadQuestion(p) PROVE ApprovalInv'
  BY <1>9
  DEF ApprovalInv, Authorized, HeldInv, ReadQuestion, At, Goto, IsLast, shared,
      requests, locals
<1>10. ASSUME NEW p \in Replies, StoreAnswer(p) PROVE ApprovalInv'
  BY <1>10
  DEF ApprovalInv, Authorized, HeldInv, StoreAnswer, At, Goto, IsLast, shared,
      requests, locals
<1>11. ASSUME NEW p \in Replies, Approve(p) PROVE ApprovalInv'
  <2>1. held[p] \in Requests /\ held[p] <= asked /\ p \in Procs
    BY <1>11 DEF Approve, At, HeldInv, Shape, Procs
  <2>2. approved' = approved \cup {held[p]} /\ asked' = asked
    BY <1>11 DEF Approve
  <2>3. \E q \in approved' : q <= asked'
    BY <2>1, <2>2
  <2>0. (approveAll => approveAll') /\ turn' = turn /\ responses' = responses
    <3>1. (approveAll' = approveAll \/ approveAll' = TRUE)
      BY <1>11, Zenon DEF Approve
    <3>2. approveAll => approveAll'
      BY <3>1, Zenon
    <3>3. turn' = turn /\ responses' = responses
      BY <1>11 DEF Approve
    <3> QED BY <3>2, <3>3
  <2>4. turn' = "grant" => approveAll' /\ asked' \notin Questions
    BY <2>0, <2>2 DEF ApprovalInv
  <2>5. \A q \in Replies :
          pc'[q] = "respond" /\ verdict'[q] = "allow" /\ held'[q] \notin Questions =>
            held'[q] \in approved'
    BY <1>11, <2>2 DEF Approve, Goto, ApprovalInv, Shape
  <2>6. Authorized'
    BY <2>0, <2>2 DEF ApprovalInv, Authorized
  <2> QED BY <2>3, <2>4, <2>5, <2>6 DEF ApprovalInv
<1>12. ASSUME NEW p \in Replies, Deny(p) PROVE ApprovalInv'
  BY <1>12
  DEF ApprovalInv, Authorized, HeldInv, Deny, At, Goto, shared, requests,
      locals
<1>13. ASSUME NEW p \in Replies, Hint(p) PROVE ApprovalInv'
  BY <1>13
  DEF ApprovalInv, Authorized, HeldInv, Hint, At, Goto, shared, requests,
      locals
<1>14. ASSUME NEW p \in Replies, Respond(p) PROVE ApprovalInv'
  <2>1. held[p] \in Requests /\ p \in Procs
    BY <1>14 DEF Respond, At, HeldInv, Shape, Procs
  <2>2. /\ UNCHANGED <<approved, approveAll, turn, asked, held, verdict>>
        /\ \A q \in Replies : pc'[q] = "respond" => pc[q] = "respond"
    BY <1>14 DEF Respond, Goto, requests, locals, Shape
  <2>3. \A r \in Requests \ Questions : responses'[r]["allow"] > 0 =>
          responses[r]["allow"] > 0 \/ (r = held[p] /\ verdict[p] = "allow")
    <3>1. CASE responses' = responses
      BY <3>1
    <3>2. CASE responses' = [responses EXCEPT ![held[p]][verdict[p]] = @ + 1]
      <4>1. \A r \in Requests \ {held[p]} : responses'[r] = responses[r]
        BY <2>1, <3>2 DEF Shape
      <4>2. verdict[p] # "allow" =>
              responses'[held[p]]["allow"] = responses[held[p]]["allow"]
        BY <2>1, <3>2 DEF Shape, Verdicts
      <4> QED BY <4>1, <4>2
    <3> QED BY <1>14, <3>1, <3>2 DEF Respond, Told
  <2>4. verdict[p] = "allow" /\ held[p] \notin Questions => held[p] \in approved
    BY <1>14 DEF Respond, At, ApprovalInv
  <2>5. Authorized'
    BY <2>2, <2>3, <2>4 DEF ApprovalInv, Authorized
  <2> QED BY <2>2, <2>5 DEF ApprovalInv
<1>15. ASSUME NEW p \in Replies, ClearPending(p) PROVE ApprovalInv'
  BY <1>15
  DEF ApprovalInv, Authorized, HeldInv, ClearPending, At, Goto, shared,
      requests, locals
<1>16. ASSUME NEW p \in Replies, Resolve(p) PROVE ApprovalInv'
  BY <1>16
  DEF ApprovalInv, Authorized, HeldInv, Resolve, At, Goto, shared, requests,
      locals
<1>17. ASSUME NEW d \in Teardowns, CleanupTake(d) PROVE ApprovalInv'
  BY <1>17
  DEF ApprovalInv, Authorized, HeldInv, CleanupTake, At, Goto, shared,
      requests, locals
<1>18. ASSUME NEW d \in Teardowns, CleanupMark(d) PROVE ApprovalInv'
  BY <1>18
  DEF ApprovalInv, Authorized, HeldInv, CleanupMark, At, Goto, shared,
      requests, locals
<1>19. ASSUME NEW d \in Teardowns, CleanupPending(d) PROVE ApprovalInv'
  BY <1>19
  DEF ApprovalInv, Authorized, HeldInv, CleanupPending, At, Goto, TakePending,
      shared, requests, locals
<1>20. ASSUME NEW d \in Teardowns, StopPending(d) PROVE ApprovalInv'
  BY <1>20
  DEF ApprovalInv, Authorized, HeldInv, StopPending, At, Goto, TakePending,
      shared, requests, locals
<1>21. ASSUME NEW d \in Teardowns, StopMark(d) PROVE ApprovalInv'
  BY <1>21
  DEF ApprovalInv, Authorized, HeldInv, StopMark, At, Goto, shared, requests,
      locals
<1>22. ASSUME NEW d \in Teardowns, Release(d) PROVE ApprovalInv'
  BY <1>22
  DEF ApprovalInv, Authorized, HeldInv, Release, At, Goto, shared, requests,
      locals
<1>23. ASSUME NEW d \in Teardowns, Close(d) PROVE ApprovalInv'
  BY <1>23
  DEF ApprovalInv, Authorized, HeldInv, Close, At, Goto, shared, requests,
      locals
<1>24. ASSUME NEW d \in Teardowns, Delete(d) PROVE ApprovalInv'
  BY <1>24
  DEF ApprovalInv, Authorized, HeldInv, Delete, At, Goto, shared, requests,
      locals
<1>25. CASE UNCHANGED vars
  BY <1>25
  DEF ApprovalInv, Authorized, HeldInv, vars, shared, requests, locals
<1> QED
  BY <1>1, <1>2, <1>3, <1>4, <1>5, <1>6, <1>7, <1>8, <1>9, <1>10, <1>11,
     <1>12, <1>13, <1>14, <1>15, <1>16, <1>17, <1>18, <1>19, <1>20, <1>21,
     <1>22, <1>23, <1>24, <1>25
  DEF Next, Turn, Reply, Teardown

\* No step sends answers that are not complete.
LEMMA QuestionStep ==
  ASSUME Shape, HeldInv, QuestionInv, [Next]_vars
  PROVE  QuestionInv'
<1> USE DEF Procs, Requests, Verdicts, Shape
<1>1. CASE Receive
  BY <1>1
  DEF QuestionInv, QuestionsComplete, HeldInv, Receive, TurnAt, shared,
      requests, locals
<1>2. CASE LeaveTurn
  BY <1>2
  DEF QuestionInv, QuestionsComplete, HeldInv, LeaveTurn, TurnAt, shared,
      requests, locals
<1>3. CASE CheckApproveAll
  BY <1>3
  DEF QuestionInv, QuestionsComplete, HeldInv, CheckApproveAll, TurnAt, shared,
      requests, locals
<1>4. CASE Grant
  BY <1>4
  DEF QuestionInv, QuestionsComplete, HeldInv, Grant, TurnAt, Told, shared,
      requests, locals
<1>5. CASE Publish
  BY <1>5
  DEF QuestionInv, QuestionsComplete, HeldInv, Publish, TurnAt, shared,
      requests, locals
<1>6. CASE Unblock
  BY <1>6
  DEF QuestionInv, QuestionsComplete, HeldInv, Unblock, TurnAt, shared,
      requests, locals
<1>7. ASSUME NEW p \in Replies, FindState(p) PROVE QuestionInv'
  BY <1>7
  DEF QuestionInv, QuestionsComplete, HeldInv, FindState, At, Goto, shared,
      requests, locals
<1>8. ASSUME NEW p \in Replies, ReadPending(p) PROVE QuestionInv'
  BY <1>8
  DEF QuestionInv, QuestionsComplete, HeldInv, ReadPending, At, Goto, shared,
      requests, locals
<1>9. ASSUME NEW p \in Replies, ReadQuestion(p) PROVE QuestionInv'
  <2>1. held[p] \in Requests /\ p \in Procs
    BY <1>9 DEF ReadQuestion, At, HeldInv, Shape, Procs
  <2>2. /\ UNCHANGED <<requests, turn, asked, held, responses>>
        /\ \A q \in Replies : pc'[q] = "respond" => pc[q] = "respond"
    BY <1>9 DEF ReadQuestion, Goto, Shape
  <2>3. ASSUME NEW q \in Replies, pc'[q] = "answering"
        PROVE  0 .. index'[q] - 1 \subseteq answers[held[q]]
    <3>1. CASE q = p
      <4>1. pc'[p] = "answering" => index'[p] = question[held[p]]
        BY <1>9 DEF ReadQuestion, Goto, Shape
      <4> QED BY <2>1, <2>3, <3>1, <4>1 DEF QuestionInv
    <3>2. CASE q # p
      BY <1>9, <2>3, <3>2 DEF ReadQuestion, Goto, Shape, QuestionInv
    <3> QED BY <3>1, <3>2
  <2> QED BY <2>2, <2>3 DEF QuestionInv, QuestionsComplete, requests
<1>10. ASSUME NEW p \in Replies, StoreAnswer(p) PROVE QuestionInv'
  <2> DEFINE r == held[p]
             i == index[p]
  <2>1. r \in Requests /\ p \in Procs /\ i \in 0 .. NumQuestions - 1
    BY <1>10 DEF StoreAnswer, At, HeldInv, Shape, Procs
  <2>2. 0 .. i - 1 \subseteq answers[r]
    BY <1>10 DEF StoreAnswer, At, QuestionInv
  <2>3. /\ answers' = [answers EXCEPT ![r] = @ \cup {i}]
        /\ UNCHANGED <<turn, asked, held, index, responses>>
    BY <1>10 DEF StoreAnswer
  <2>4. 0 .. i \subseteq answers'[r]
    <3>1. answers'[r] = answers[r] \cup {i}
      BY <2>1, <2>3 DEF Shape
    <3>2. \A x \in 0 .. i : x \in 0 .. i - 1 \/ x = i
      BY <2>1
    <3> QED BY <2>2, <3>1, <3>2
  <2>5. \A q \in Requests : answers[q] \subseteq answers'[q]
    BY <2>1, <2>3 DEF Shape
  <2>6. answers' \in [Requests -> SUBSET (0 .. NumQuestions - 1)]
    BY <2>1, <2>3 DEF Shape
  <2>7. \A q \in Requests : 0 .. question'[q] - 1 \subseteq answers'[q]
    <3>1. CASE question' = question
      BY <2>5, <3>1 DEF QuestionInv
    <3>2. CASE question' = [question EXCEPT ![r] = i + 1]
      <4>1. question'[r] = i + 1 /\ \A q \in Requests \ {r} : question'[q] = question[q]
        BY <2>1, <3>2 DEF Shape
      <4>2. 0 .. question'[r] - 1 \subseteq answers'[r]
        BY <2>1, <2>4, <4>1
      <4>3. \A q \in Requests \ {r} : 0 .. question'[q] - 1 \subseteq answers'[q]
        BY <2>5, <4>1 DEF QuestionInv
      <4> QED BY <4>2, <4>3
    <3> QED BY <1>10, <3>1, <3>2 DEF StoreAnswer
  <2>8. \A q \in Replies \ {p} : pc'[q] = pc[q]
    BY <1>10 DEF StoreAnswer, Goto, Shape, Procs
  <2>9. pc'[p] # "answering" /\ (pc'[p] = "respond" => IsLast(i))
    BY <1>10, <2>1 DEF StoreAnswer, Goto, Shape
  <2>10. \A q \in Replies :
           pc'[q] = "answering" => 0 .. index'[q] - 1 \subseteq answers'[held'[q]]
    BY <2>3, <2>5, <2>8, <2>9 DEF QuestionInv, HeldInv, Shape, Procs
  <2>11. ASSUME NEW q \in Replies, pc'[q] = "respond", held'[q] \in Questions
         PROVE  answers'[held'[q]] = 0 .. NumQuestions - 1
    <3>1. CASE q = p
      <4>1. i = NumQuestions - 1
        BY <2>1, <2>9, <2>11, <3>1, SMTT(30) DEF IsLast
      <4> QED BY <2>1, <2>3, <2>4, <2>6, <3>1, <4>1
    <3>2. CASE q # p
      <4>1. held[q] \in Requests /\ answers[held[q]] = 0 .. NumQuestions - 1
        BY <2>3, <2>8, <2>11, <3>2 DEF QuestionInv, HeldInv, Shape, Procs
      <4> QED BY <2>3, <2>5, <2>6, <4>1
    <3> QED BY <3>1, <3>2
  <2>12. QuestionsComplete'
    <3>1. ASSUME NEW q \in Questions, responses'[q]["allow"] > 0
          PROVE  answers'[q] = 0 .. NumQuestions - 1
      <4>1. q \in Requests
        BY DEF Requests
      <4>2. answers[q] = 0 .. NumQuestions - 1
        BY <2>3, <3>1 DEF QuestionInv, QuestionsComplete
      <4> QED BY <2>5, <2>6, <4>1, <4>2
    <3> QED BY <3>1 DEF QuestionsComplete
  <2> QED BY <2>3, <2>7, <2>10, <2>11, <2>12 DEF QuestionInv
<1>11. ASSUME NEW p \in Replies, Approve(p) PROVE QuestionInv'
  BY <1>11
  DEF QuestionInv, QuestionsComplete, HeldInv, Approve, At, Goto, shared,
      requests, locals
<1>12. ASSUME NEW p \in Replies, Deny(p) PROVE QuestionInv'
  BY <1>12
  DEF QuestionInv, QuestionsComplete, HeldInv, Deny, At, Goto, shared,
      requests, locals
<1>13. ASSUME NEW p \in Replies, Hint(p) PROVE QuestionInv'
  BY <1>13
  DEF QuestionInv, QuestionsComplete, HeldInv, Hint, At, Goto, shared,
      requests, locals
<1>14. ASSUME NEW p \in Replies, Respond(p) PROVE QuestionInv'
  <2>1. held[p] \in Requests /\ p \in Procs
    BY <1>14 DEF Respond, At, HeldInv, Shape, Procs
  <2>2. /\ question' = question /\ answers' = answers /\ turn' = turn
        /\ asked' = asked /\ held' = held /\ index' = index
        /\ \A q \in Replies : pc'[q] = "respond" => pc[q] = "respond"
        /\ \A q \in Replies : pc'[q] = "answering" => pc[q] = "answering"
    BY <1>14 DEF Respond, Goto, requests, locals, Shape
  <2>3. \A r \in Questions : responses'[r]["allow"] > 0 =>
          responses[r]["allow"] > 0 \/ r = held[p]
    BY <1>14, <2>1 DEF Respond, Told, Shape, Verdicts, Requests
  <2>4. held[p] \in Questions => answers[held[p]] = 0 .. NumQuestions - 1
    BY <1>14 DEF Respond, At, QuestionInv
  <2>5. QuestionsComplete'
    BY <2>2, <2>3, <2>4 DEF QuestionInv, QuestionsComplete
  <2>6. \A q \in Replies :
          pc'[q] = "respond" /\ held'[q] \in Questions =>
            answers'[held'[q]] = 0 .. NumQuestions - 1
    <3>1. ASSUME NEW q \in Replies, pc'[q] = "respond", held'[q] \in Questions
          PROVE  answers'[held'[q]] = 0 .. NumQuestions - 1
      <4>1. pc[q] = "respond" /\ held[q] \in Questions
        BY <2>2, <3>1
      <4>2. answers[held[q]] = 0 .. NumQuestions - 1
        BY <4>1 DEF QuestionInv
      <4> QED BY <2>2, <4>2
    <3> QED BY <3>1
  <2>7. \A q \in Replies :
          pc'[q] = "answering" => 0 .. index'[q] - 1 \subseteq answers'[held'[q]]
    BY <2>2 DEF QuestionInv
  <2> QED BY <2>2, <2>5, <2>6, <2>7 DEF QuestionInv
<1>15. ASSUME NEW p \in Replies, ClearPending(p) PROVE QuestionInv'
  BY <1>15
  DEF QuestionInv, QuestionsComplete, HeldInv, ClearPending, At, Goto, shared,
      requests, locals
<1>16. ASSUME NEW p \in Replies, Resolve(p) PROVE QuestionInv'
  BY <1>16
  DEF QuestionInv, QuestionsComplete, HeldInv, Resolve, At, Goto, shared,
      requests, locals
<1>17. ASSUME NEW d \in Teardowns, CleanupTake(d) PROVE QuestionInv'
  BY <1>17
  DEF QuestionInv, QuestionsComplete, HeldInv, CleanupTake, At, Goto, shared,
      requests, locals
<1>18. ASSUME NEW d \in Teardowns, CleanupMark(d) PROVE QuestionInv'
  BY <1>18
  DEF QuestionInv, QuestionsComplete, HeldInv, CleanupMark, At, Goto, shared,
      requests, locals
<1>19. ASSUME NEW d \in Teardowns, CleanupPending(d) PROVE QuestionInv'
  BY <1>19
  DEF QuestionInv, QuestionsComplete, HeldInv, CleanupPending, At, Goto,
      TakePending, shared, requests, locals
<1>20. ASSUME NEW d \in Teardowns, StopPending(d) PROVE QuestionInv'
  BY <1>20
  DEF QuestionInv, QuestionsComplete, HeldInv, StopPending, At, Goto,
      TakePending, shared, requests, locals
<1>21. ASSUME NEW d \in Teardowns, StopMark(d) PROVE QuestionInv'
  BY <1>21
  DEF QuestionInv, QuestionsComplete, HeldInv, StopMark, At, Goto, shared,
      requests, locals
<1>22. ASSUME NEW d \in Teardowns, Release(d) PROVE QuestionInv'
  BY <1>22
  DEF QuestionInv, QuestionsComplete, HeldInv, Release, At, Goto, shared,
      requests, locals
<1>23. ASSUME NEW d \in Teardowns, Close(d) PROVE QuestionInv'
  BY <1>23
  DEF QuestionInv, QuestionsComplete, HeldInv, Close, At, Goto, shared,
      requests, locals
<1>24. ASSUME NEW d \in Teardowns, Delete(d) PROVE QuestionInv'
  BY <1>24
  DEF QuestionInv, QuestionsComplete, HeldInv, Delete, At, Goto, shared,
      requests, locals
<1>25. CASE UNCHANGED vars
  BY <1>25
  DEF QuestionInv, QuestionsComplete, HeldInv, vars, shared, requests, locals
<1> QED
  BY <1>1, <1>2, <1>3, <1>4, <1>5, <1>6, <1>7, <1>8, <1>9, <1>10, <1>11,
     <1>12, <1>13, <1>14, <1>15, <1>16, <1>17, <1>18, <1>19, <1>20, <1>21,
     <1>22, <1>23, <1>24, <1>25
  DEF Next, Turn, Reply, Teardown

-----------------------------------------------------------------------------
(* One message at a time *)

Active(p) == pc[p] \notin {"idle", "done"}
Answered(r) == responses[r]["allow"] + responses[r]["deny"] > 0
Deciding == {"decide", "answering", "respond"}

\* One reply is at work.  The request it decides on has no answer yet, nor has
\* the one the turn is about to publish, which nobody has seen.
OnceInv ==
  /\ \A p, q \in Replies : Active(p) /\ Active(q) => p = q
  /\ AnsweredOnce
  /\ \A r \in Requests : r > asked => ~Answered(r)
  /\ turn \in {"received", "grant", "publish"} =>
       /\ ~Answered(asked) /\ pending # asked
       /\ \A p \in Procs : held[p] # asked
  /\ \A p \in Replies : pc[p] \in Deciding => ~Answered(held[p])
  /\ pending # 0 /\ Answered(pending) => \E p \in Replies : pc[p] = "clear"

\* Until the state is stopped, what is pending and what the reply at work has
\* in hand is the request the turn waits for, and nobody has resolved it.
OpenInv ==
  /\ \A r \in resolved : r \in Requests /\ r <= asked
  /\ \A d \in Teardowns : pc[d] \in {"take", "release", "close", "delete"} => stopped
  /\ \A p \in Replies : pc[p] \in {"clear", "resolve"} => held[p] # 0
  /\ ~stopped =>
       /\ inMap
       /\ turn \in {"received", "grant", "publish"} => asked \notin resolved
       /\ pending # 0 => turn = "blocked" /\ pending = asked /\ asked \notin resolved
       /\ \A p \in Replies : pc[p] \in Deciding \cup {"clear", "resolve"} =>
            turn = "blocked" /\ held[p] = asked /\ asked \notin resolved
       /\ (\E p \in Replies : pc[p] = "resolve") => pending = 0
       /\ turn = "blocked" => pending = asked \/ asked \in resolved \/ Releasing(asked) # {}

LEMMA OnceStep ==
  ASSUME Shape, HeldInv, Serial, OnceInv, [Next]_vars
  PROVE  OnceInv'
<1> USE DEF Procs, Requests, Verdicts, Shape, Deciding
<1>1. CASE Receive
  BY <1>1
  DEF OnceInv, AnsweredOnce, Active, Answered, HeldInv, Receive, TurnAt, shared, requests, locals
<1>2. CASE LeaveTurn
  BY <1>2
  DEF OnceInv, AnsweredOnce, Active, Answered, HeldInv, LeaveTurn, TurnAt, shared, requests, locals
<1>3. CASE CheckApproveAll
  BY <1>3
  DEF OnceInv, AnsweredOnce, Active, Answered, HeldInv, CheckApproveAll, TurnAt, shared, requests, locals
<1>4. CASE Grant
  <2>1. asked \in Requests /\ turn = "grant" /\ ~Answered(asked)
    BY <1>4 DEF Grant, TurnAt, OnceInv
  <2>2. UNCHANGED <<pending, asked, pc, held>> /\ turn' \in {"grant", "wait"}
    BY <1>4 DEF Grant, TurnAt, shared, requests, locals
  <2>3. CASE responses' = responses
    BY <2>2, <2>3, <2>1 DEF OnceInv, AnsweredOnce, Active, Answered
  <2>4. CASE /\ responses' = [responses EXCEPT ![asked]["allow"] = @ + 1]
             /\ turn' = "wait"
    <3>1. AnsweredOnce'
      BY <2>1, <2>4, SMTT(30) DEF OnceInv, AnsweredOnce, Answered
    <3>2. \A r \in Requests \ {asked} : Answered(r)' = Answered(r)
      BY <2>1, <2>4 DEF Answered
    <3>3. \A p \in Replies : held[p] # asked /\ pending # asked /\ held[p] \in Requests \cup {0}
      BY <2>1 DEF OnceInv
    <3>4. \A r \in Requests : r > asked => r # asked
      BY <2>1
    <3>5. \A p \in Replies : pc[p] \in Deciding => held[p] # 0
      BY DEF HeldInv
    <3>6. \A p \in Replies : pc[p] \in Deciding => ~Answered(held[p])'
      BY <2>2, <3>2, <3>3, <3>5 DEF OnceInv, Answered
    <3>7. \A r \in Requests : r > asked => ~Answered(r)'
      BY <3>2, <3>4 DEF OnceInv
    <3>8. pending # 0 /\ Answered(pending)' => Answered(pending)
      BY <2>1, <2>2, <3>2 DEF OnceInv, Answered
    <3> QED BY <2>2, <2>4, <3>1, <3>6, <3>7, <3>8 DEF OnceInv, Active, Answered
  <2> QED BY <1>4, <2>2, <2>3, <2>4 DEF Grant, Told
<1>5. CASE Publish
  BY <1>5
  DEF OnceInv, AnsweredOnce, Active, Answered, HeldInv, Publish, TurnAt, shared, requests, locals
<1>6. CASE Unblock
  BY <1>6
  DEF OnceInv, AnsweredOnce, Active, Answered, HeldInv, Unblock, TurnAt, shared, requests, locals
<1>7. ASSUME NEW p \in Replies, FindState(p) PROVE OnceInv'
  BY <1>7
  DEF OnceInv, AnsweredOnce, Active, Answered, HeldInv, FindState, At, Goto, Quiet, shared, requests, locals
<1>8. ASSUME NEW p \in Replies, ReadPending(p) PROVE OnceInv'
  BY <1>8
  DEF OnceInv, AnsweredOnce, Active, Answered, HeldInv, ReadPending, At, Goto, shared, requests, locals
<1>9. ASSUME NEW p \in Replies, ReadQuestion(p) PROVE OnceInv'
  BY <1>9
  DEF OnceInv, AnsweredOnce, Active, Answered, HeldInv, ReadQuestion, At, Goto, IsLast, shared, requests, locals
<1>10. ASSUME NEW p \in Replies, StoreAnswer(p) PROVE OnceInv'
  BY <1>10
  DEF OnceInv, AnsweredOnce, Active, Answered, HeldInv, StoreAnswer, At, Goto, IsLast, shared, requests, locals
<1>11. ASSUME NEW p \in Replies, Approve(p) PROVE OnceInv'
  BY <1>11
  DEF OnceInv, AnsweredOnce, Active, Answered, HeldInv, Approve, At, Goto, shared, requests, locals
<1>12. ASSUME NEW p \in Replies, Deny(p) PROVE OnceInv'
  BY <1>12
  DEF OnceInv, AnsweredOnce, Active, Answered, HeldInv, Deny, At, Goto, shared, requests, locals
<1>13. ASSUME NEW p \in Replies, Hint(p) PROVE OnceInv'
  BY <1>13
  DEF OnceInv, AnsweredOnce, Active, Answered, HeldInv, Hint, At, Goto, shared, requests, locals
<1>14. ASSUME NEW p \in Replies, Respond(p) PROVE OnceInv'
  <2>1. held[p] \in Requests /\ pc[p] = "respond" /\ ~Answered(held[p])
    BY <1>14 DEF Respond, At, OnceInv, HeldInv
  <2>2. UNCHANGED <<pending, asked, turn, held>>
    BY <1>14 DEF Respond, shared, requests, locals
  <2>3. CASE responses' = responses /\ pc' = pc
    BY <2>2, <2>3 DEF OnceInv, AnsweredOnce, Active, Answered
  <2>4. CASE /\ responses' = responses \/ responses' = [responses EXCEPT ![held[p]][verdict[p]] = @ + 1]
             /\ pc' = [pc EXCEPT ![p] = "clear"]
    <3>0. responses[held[p]]["allow"] = 0 /\ responses[held[p]]["deny"] = 0 /\ verdict[p] \in Verdicts
      BY <2>1 DEF Answered
    <3>1. AnsweredOnce'
      <4>1. ASSUME NEW r \in Requests \ {held[p]}
            PROVE  responses'[r] = responses[r]
        BY <2>1, <2>4
      <4>2. responses'[held[p]]["allow"] + responses'[held[p]]["deny"] <= 1
        <5>1. CASE responses' = responses
          BY <5>1, <3>0
        <5>2. CASE responses' = [responses EXCEPT ![held[p]][verdict[p]] = @ + 1]
          <6>1. CASE verdict[p] = "allow"
            BY <2>1, <3>0, <5>2, <6>1
          <6>2. CASE verdict[p] = "deny"
            BY <2>1, <3>0, <5>2, <6>2
          <6> QED BY <3>0, <6>1, <6>2
        <5> QED BY <2>4, <5>1, <5>2
      <4> QED BY <4>1, <4>2 DEF OnceInv, AnsweredOnce
    <3>2. \A r \in Requests \ {held[p]} : Answered(r)' = Answered(r)
      BY <2>1, <2>4 DEF Answered
    <3>3. turn \in {"received", "grant", "publish"} => held[p] # asked /\ asked \in Requests
      BY DEF OnceInv
    <3>4. \A q \in Replies \ {p} : pc'[q] \in {"idle", "done"}
      BY <2>1, <2>4 DEF OnceInv, Active
    <3>5. pc'[p] = "clear"
      BY <2>4
    <3>6. \A r \in Requests : r > asked => r # held[p]
      BY <2>1 DEF HeldInv
    <3> QED BY <2>2, <3>1, <3>2, <3>3, <3>4, <3>5, <3>6 DEF OnceInv, Active
  <2> QED BY <1>14, <2>2, <2>3, <2>4 DEF Respond, Goto, Told
<1>15. ASSUME NEW p \in Replies, ClearPending(p) PROVE OnceInv'
  BY <1>15
  DEF OnceInv, AnsweredOnce, Active, Answered, HeldInv, ClearPending, At, Goto, shared, requests, locals
<1>16. ASSUME NEW p \in Replies, Resolve(p) PROVE OnceInv'
  BY <1>16
  DEF OnceInv, AnsweredOnce, Active, Answered, HeldInv, Resolve, At, Goto, shared, requests, locals
<1>17. ASSUME NEW d \in Teardowns, CleanupTake(d) PROVE OnceInv'
  BY <1>17
  DEF OnceInv, AnsweredOnce, Active, Answered, HeldInv, CleanupTake, At, Goto, shared, requests, locals
<1>18. ASSUME NEW d \in Teardowns, CleanupMark(d) PROVE OnceInv'
  BY <1>18
  DEF OnceInv, AnsweredOnce, Active, Answered, HeldInv, CleanupMark, At, Goto, shared, requests, locals
<1>19. ASSUME NEW d \in Teardowns, CleanupPending(d) PROVE OnceInv'
  BY <1>19
  DEF OnceInv, AnsweredOnce, Active, Answered, HeldInv, CleanupPending, At, Goto, TakePending, shared, requests, locals
<1>20. ASSUME NEW d \in Teardowns, StopPending(d) PROVE OnceInv'
  BY <1>20
  DEF OnceInv, AnsweredOnce, Active, Answered, HeldInv, StopPending, At, Goto, TakePending, shared, requests, locals
<1>21. ASSUME NEW d \in Teardowns, StopMark(d) PROVE OnceInv'
  BY <1>21
  DEF OnceInv, AnsweredOnce, Active, Answered, HeldInv, StopMark, At, Goto, shared, requests, locals
<1>22. ASSUME NEW d \in Teardowns, Release(d) PROVE OnceInv'
  BY <1>22
  DEF OnceInv, AnsweredOnce, Active, Answered, HeldInv, Release, At, Goto, shared, requests, locals
<1>23. ASSUME NEW d \in Teardowns, Close(d) PROVE OnceInv'
  BY <1>23
  DEF OnceInv, AnsweredOnce, Active, Answered, HeldInv, Close, At, Goto, shared, requests, locals
<1>24. ASSUME NEW d \in Teardowns, Delete(d) PROVE OnceInv'
  BY <1>24
  DEF OnceInv, AnsweredOnce, Active, Answered, HeldInv, Delete, At, Goto, shared, requests, locals
<1>25. CASE UNCHANGED vars
  BY <1>25
  DEF OnceInv, AnsweredOnce, Active, Answered, HeldInv, vars, shared, requests, locals
<1> QED
  BY <1>1, <1>2, <1>3, <1>4, <1>5, <1>6, <1>7, <1>8, <1>9, <1>10, <1>11, <1>12, <1>13, <1>14, <1>15, <1>16, <1>17, <1>18, <1>19, <1>20, <1>21, <1>22, <1>23, <1>24, <1>25
  DEF Next, Turn, Reply, Teardown

LEMMA OpenStep ==
  ASSUME Shape, HeldInv, Serial, OnceInv, OpenInv, [Next]_vars
  PROVE  OpenInv'
<1> USE DEF Procs, Requests, Verdicts, Shape, Deciding
<1>1. CASE Receive
  <2>1. asked \in Nat /\ asked' = asked + 1 /\ turn = "wait" /\ turn' = "received" /\ ~stopped
    BY <1>1 DEF Receive, TurnAt
  <2>2. UNCHANGED <<inMap, stopped, pending, resolved, pc, held>>
    BY <1>1 DEF Receive, shared, requests, locals
  <2>3. \A r \in resolved : r \in Requests /\ r <= asked' /\ r # asked'
    <3>1. TAKE r \in resolved
    <3>2. r \in Requests /\ r <= asked
      BY DEF OpenInv
    <3> QED BY <2>1, <3>2
  <2> QED BY <2>1, <2>2, <2>3 DEF OpenInv
<1>2. CASE LeaveTurn
  BY <1>2
  DEF OpenInv, OnceInv, Active, Releasing, HeldInv, LeaveTurn, TurnAt, shared, requests, locals
<1>3. CASE CheckApproveAll
  BY <1>3
  DEF OpenInv, OnceInv, Active, Releasing, HeldInv, CheckApproveAll, TurnAt, shared, requests, locals
<1>4. CASE Grant
  BY <1>4
  DEF OpenInv, OnceInv, Active, Releasing, HeldInv, Grant, TurnAt, Told, shared, requests, locals
<1>5. CASE Publish
  BY <1>5
  DEF OpenInv, OnceInv, Active, Releasing, HeldInv, Publish, TurnAt, shared, requests, locals
<1>6. CASE Unblock
  BY <1>6
  DEF OpenInv, OnceInv, Active, Releasing, HeldInv, Unblock, TurnAt, shared, requests, locals
<1>7. ASSUME NEW p \in Replies, FindState(p) PROVE OpenInv'
  BY <1>7
  DEF OpenInv, OnceInv, Active, Releasing, HeldInv, FindState, At, Goto, Quiet, shared, requests, locals
<1>8. ASSUME NEW p \in Replies, ReadPending(p) PROVE OpenInv'
  BY <1>8
  DEF OpenInv, OnceInv, Active, Releasing, HeldInv, ReadPending, At, Goto, shared, requests, locals
<1>9. ASSUME NEW p \in Replies, ReadQuestion(p) PROVE OpenInv'
  BY <1>9, ZenonT(60)
  DEF OpenInv, OnceInv, Active, Releasing, HeldInv, ReadQuestion, At, Goto, IsLast, shared, requests, locals
<1>10. ASSUME NEW p \in Replies, StoreAnswer(p) PROVE OpenInv'
  BY <1>10, ZenonT(60)
  DEF OpenInv, OnceInv, Active, Releasing, HeldInv, StoreAnswer, At, Goto, IsLast, shared, requests, locals
<1>11. ASSUME NEW p \in Replies, Approve(p) PROVE OpenInv'
  BY <1>11
  DEF OpenInv, OnceInv, Active, Releasing, HeldInv, Approve, At, Goto, shared, requests, locals
<1>12. ASSUME NEW p \in Replies, Deny(p) PROVE OpenInv'
  BY <1>12
  DEF OpenInv, OnceInv, Active, Releasing, HeldInv, Deny, At, Goto, shared, requests, locals
<1>13. ASSUME NEW p \in Replies, Hint(p) PROVE OpenInv'
  BY <1>13
  DEF OpenInv, OnceInv, Active, Releasing, HeldInv, Hint, At, Goto, shared, requests, locals
<1>14. ASSUME NEW p \in Replies, Respond(p) PROVE OpenInv'
  BY <1>14
  DEF OpenInv, OnceInv, Active, Releasing, HeldInv, Respond, At, Goto, Told, shared, requests, locals
<1>15. ASSUME NEW p \in Replies, ClearPending(p) PROVE OpenInv'
  BY <1>15
  DEF OpenInv, OnceInv, Active, Releasing, HeldInv, ClearPending, At, Goto, shared, requests, locals
<1>16. ASSUME NEW p \in Replies, Resolve(p) PROVE OpenInv'
  <2>1. pc[p] = "resolve" /\ pc' = [pc EXCEPT ![p] = "done"] /\ resolved' = resolved \cup {held[p]}
    BY <1>16 DEF Resolve, At, Goto
  <2>2. UNCHANGED <<inMap, stopped, pending, turn, asked, held>>
    BY <1>16 DEF Resolve, shared, locals
  <2>3. held[p] # 0
    BY <2>1 DEF OpenInv
  <2>4. \A r \in resolved' : r \in Requests /\ r <= asked
    <3>1. held[p] \in Requests /\ held[p] <= asked
      BY <2>1, <2>3 DEF HeldInv
    <3> QED BY <2>1, <3>1 DEF OpenInv
  <2>5. \A q \in Replies \ {p} : pc'[q] \in {"idle", "done"}
    BY <2>1 DEF OnceInv, Active
  <2>6. \A d \in Teardowns : pc'[d] = pc[d]
    BY <2>1, PermissionsAssumption
  <2>7. ~stopped => turn = "blocked" /\ held[p] = asked /\ pending = 0
    BY <2>1 DEF OpenInv
  <2>8. pc'[p] = "done"
    BY <2>1
  <2> QED BY <2>1, <2>2, <2>4, <2>5, <2>6, <2>7, <2>8 DEF OpenInv
<1>17. ASSUME NEW d \in Teardowns, CleanupTake(d) PROVE OpenInv'
  BY <1>17
  DEF OpenInv, OnceInv, Active, Releasing, HeldInv, CleanupTake, At, Goto, shared, requests, locals
<1>18. ASSUME NEW d \in Teardowns, CleanupMark(d) PROVE OpenInv'
  BY <1>18
  DEF OpenInv, OnceInv, Active, Releasing, HeldInv, CleanupMark, At, Goto, shared, requests, locals
<1>19. ASSUME NEW d \in Teardowns, CleanupPending(d) PROVE OpenInv'
  BY <1>19
  DEF OpenInv, OnceInv, Active, Releasing, HeldInv, CleanupPending, At, Goto, TakePending, shared, requests, locals
<1>20. ASSUME NEW d \in Teardowns, StopPending(d) PROVE OpenInv'
  BY <1>20
  DEF OpenInv, OnceInv, Active, Releasing, HeldInv, StopPending, At, Goto, TakePending, shared, requests, locals
<1>21. ASSUME NEW d \in Teardowns, StopMark(d) PROVE OpenInv'
  BY <1>21
  DEF OpenInv, OnceInv, Active, Releasing, HeldInv, StopMark, At, Goto, shared, requests, locals
<1>22. ASSUME NEW d \in Teardowns, Release(d) PROVE OpenInv'
  BY <1>22
  DEF OpenInv, OnceInv, Active, Releasing, HeldInv, Release, At, Goto, shared, requests, locals
<1>23. ASSUME NEW d \in Teardowns, Close(d) PROVE OpenInv'
  BY <1>23
  DEF OpenInv, OnceInv, Active, Releasing, HeldInv, Close, At, Goto, shared, requests, locals
<1>24. ASSUME NEW d \in Teardowns, Delete(d) PROVE OpenInv'
  BY <1>24
  DEF OpenInv, OnceInv, Active, Releasing, HeldInv, Delete, At, Goto, shared, requests, locals
<1>25. CASE UNCHANGED vars
  BY <1>25
  DEF OpenInv, OnceInv, Active, Releasing, HeldInv, vars, shared, requests, locals
<1> QED
  BY <1>1, <1>2, <1>3, <1>4, <1>5, <1>6, <1>7, <1>8, <1>9, <1>10, <1>11, <1>12, <1>13, <1>14, <1>15, <1>16, <1>17, <1>18, <1>19, <1>20, <1>21, <1>22, <1>23, <1>24, <1>25
  DEF Next, Turn, Reply, Teardown

-----------------------------------------------------------------------------
(* Results *)

LEMMA PermissionsInvariant == Spec => []PermissionsInv
<1>1. PermissionsInv /\ [Next]_vars => PermissionsInv'
  BY ShapeStep, HeldStep, ApprovalStep, QuestionStep DEF PermissionsInv
<1> QED BY InitInv, <1>1, PTL DEF Spec

\* A tool is granted only if an approver has allowed that request, or had
\* allowed an earlier one for good, whatever replies overlap.
THEOREM OnlyAuthorized == Spec => []Authorized
<1>1. PermissionsInv => Authorized
  BY DEF PermissionsInv, ApprovalInv
<1> QED BY <1>1, PermissionsInvariant, PTL

\* Questions are answered to the agent only when the user has answered all of
\* them, whatever replies overlap.
THEOREM OnlyComplete == Spec => []QuestionsComplete
<1>1. PermissionsInv => QuestionsComplete
  BY DEF PermissionsInv, QuestionInv
<1> QED BY <1>1, PermissionsInvariant, PTL

LEMMA SerialInvariant ==
  ASSUME Serial PROVE Spec => [](OnceInv /\ OpenInv)
<1>1. Init => OnceInv
  BY DEF Init, OnceInv, AnsweredOnce, Answered, Active, Procs, Deciding, Verdicts, Requests
<1>2. Init => OpenInv
  BY DEF Init, OpenInv, Procs, Deciding
<1>3. PermissionsInv /\ OnceInv /\ OpenInv /\ [Next]_vars => (OnceInv /\ OpenInv)'
  BY OnceStep, OpenStep DEF PermissionsInv
<1> QED BY PermissionsInvariant, <1>1, <1>2, <1>3, PTL DEF Spec

\* On a platform that hands over one message at a time the agent gets at most
\* one answer to a request.
THEOREM OnceAnswered ==
  ASSUME Serial PROVE Spec => []AnsweredOnce
<1>1. OnceInv => AnsweredOnce
  BY DEF OnceInv
<1> QED BY <1>1, SerialInvariant, PTL

\* On such a platform the request a turn waits for can be answered as long as
\* the state is not stopped.
THEOREM StaysAnswerable ==
  ASSUME Serial PROVE Spec => []Answerable
<1>1. OpenInv => Answerable
  BY DEF OpenInv, Answerable, Stuck
<1> QED BY <1>1, SerialInvariant, PTL

=============================================================================
