-------------------------- MODULE HttpClientProofs ---------------------------
(***************************************************************************)
(* For any calls, retry policy and faults: what a call of the client answers *)
(* is what has happened to its path; and a token that expires once costs no  *)
(* call, however many notice it at the same time.                            *)
(***************************************************************************)
EXTENDS HttpClient, TLAPS

-----------------------------------------------------------------------------
(* Type correctness.                                                         *)

\* Starting a loop keeps the types of what it resets.
LEMMA EnterType ==
    ASSUME TypeOK, NEW c \in Calls, NEW s \in Stages, Enter(c, s)
    PROVE  /\ stage' \in [Calls -> Stages] /\ pc' \in [Calls -> PCs]
           /\ attempt' \in [Calls -> 1..Attempts] /\ refreshed' \in [Calls -> BOOLEAN]
           /\ used' \in [Calls -> 0..MaxTokens] /\ reply' \in [Calls -> Replies]
  BY ClientAssumption DEF TypeOK, Enter, PCs, Replies

\* So does returning.
LEMMA ReturnType ==
    ASSUME TypeOK, NEW c \in Calls, NEW r \in Results, Return(c, r)
    PROVE  /\ stage' \in [Calls -> Stages] /\ pc' \in [Calls -> PCs]
           /\ attempt' \in [Calls -> 1..Attempts] /\ links' \in [Calls -> 1..Attempts]
           /\ refreshed' \in [Calls -> BOOLEAN] /\ used' \in [Calls -> 0..MaxTokens]
           /\ polls' \in [Calls -> 0..MaxPolls] /\ reply' \in [Calls -> Replies]
           /\ result' \in [Calls -> Results]
  BY ClientAssumption DEF TypeOK, Return, PCs, Replies, Stages

\* A fault is counted up to its bound.
LEMMA FaultType == ASSUME TypeOK, NEW what, Fault(what) PROVE faults' \in 0..MaxFaults
  BY ClientAssumption DEF TypeOK, Fault

\* What the disk does to a path has the right types.
LEMMA EffectiveType ==
    ASSUME TypeOK, NEW c \in Calls, NEW r, Effective(c, r)
    PROVE  /\ done' \in [Calls -> BOOLEAN]
           /\ op' \in [Calls -> {"none", "pending", "success", "failed"}]
<1> USE DEF TypeOK, disk
<1>1. \/ UNCHANGED disk
      \/ done' = [done EXCEPT ![c] = TRUE] /\ UNCHANGED op
      \/ op' = [op EXCEPT ![c] = "pending"] /\ UNCHANGED done
  BY DEF Effective
<1> QED
  BY <1>1

\* The steps in which a call begins, sends and handles what has come back.
LEMMA HandlerType ==
    ASSUME TypeOK, NEW c \in Calls,
           \/ Send(c) \/ SendTransfer(c) \/ NoToken(c) \/ NoSource(c)
           \/ HandleSuccess(c) \/ HandleRead(c) \/ HandleNext(c) \/ HandlePending(c)
           \/ HandleTransient(c) \/ HandleConflict(c) \/ HandleRejection(c)
           \/ HandleUnauthorized(c) \/ \E k \in Kinds : Begin(c, k)
    PROVE  TypeOK'
<1> USE DEF tokens, disk
<1>1. CASE Send(c)
  BY <1>1 DEF Send, TypeOK, PCs
<1>2. CASE SendTransfer(c)
  BY <1>2 DEF SendTransfer, TypeOK, PCs
<1>3. CASE NoToken(c)
  BY <1>3, ReturnType, FaultType DEF NoToken, TypeOK, Results
<1>4. CASE NoSource(c)
  BY <1>4, ReturnType, FaultType DEF NoSource, TypeOK, Results
<1>5. CASE HandleSuccess(c)
  BY <1>5, ReturnType DEF HandleSuccess, TypeOK, Results
<1>6. CASE HandleRead(c)
  BY <1>6, ReturnType DEF HandleRead, TypeOK, Results
<1>7. CASE HandleNext(c)
  BY <1>7, EnterType DEF HandleNext, TypeOK, Stages
<1>8. CASE HandlePending(c)
  <2>1. CASE PollAgain(c)
    <3>1. polls' \in [Calls -> 0..MaxPolls]
      BY <1>8, <2>1, ClientAssumption DEF HandlePending, TypeOK, PollAgain
    <3> QED
      BY <1>8, <2>1, <3>1, EnterType DEF HandlePending, TypeOK, Stages
  <2>2. CASE ~PollAgain(c)
    BY <1>8, <2>2, ReturnType DEF HandlePending, TypeOK, Results
  <2> QED
    BY <2>1, <2>2
<1>9. CASE HandleTransient(c)
  <2>1. CASE attempt[c] < Attempts /\ ~AfterLoop(c)
    <3>1. attempt' \in [Calls -> 1..Attempts]
      BY <1>9, <2>1, ClientAssumption DEF HandleTransient, TypeOK
    <3> QED
      BY <1>9, <2>1, <3>1 DEF HandleTransient, TypeOK, PCs, Replies
  <2>2. CASE ~(attempt[c] < Attempts /\ ~AfterLoop(c))
    BY <1>9, <2>2, ReturnType DEF HandleTransient, TypeOK, Results
  <2> QED
    BY <2>1, <2>2
<1>10. CASE HandleConflict(c)
  <2>1. CASE links[c] < Attempts
    <3>1. links' \in [Calls -> 1..Attempts]
      BY <1>10, <2>1, ClientAssumption DEF HandleConflict, TypeOK
    <3> QED
      BY <1>10, <2>1, <3>1, EnterType DEF HandleConflict, TypeOK, Stages
  <2>2. CASE ~(links[c] < Attempts)
    BY <1>10, <2>2, ReturnType DEF HandleConflict, TypeOK, Results
  <2> QED
    BY <2>1, <2>2
<1>11. CASE HandleRejection(c)
  <2>1. ErrorKind(reply[c]) \in Results
    BY DEF ErrorKind, Results
  <2> QED
    BY <1>11, <2>1, ReturnType DEF HandleRejection, TypeOK
<1>12. CASE HandleUnauthorized(c)
  BY <1>12 DEF HandleUnauthorized, TypeOK, PCs, Replies
<1>13. CASE \E k \in Kinds : Begin(c, k)
  <2>1. PICK k \in Kinds : Begin(c, k)
    BY <1>13
  <2>2. done' \in [Calls -> BOOLEAN] /\ kind' \in [Calls -> Kinds]
    BY <2>1 DEF Begin, TypeOK
  <2> QED
    BY <2>1, <2>2, EnterType DEF Begin, TypeOK, Stages
<1> QED
  BY <1>1, <1>2, <1>3, <1>4, <1>5, <1>6, <1>7, <1>8, <1>9, <1>10, <1>11, <1>12, <1>13

\* The steps of the OAuth server, the token store and the commands on the account.
LEMMA TokenType ==
    ASSUME TypeOK,
           \/ \E c \in Calls : Refresh(c) \/ RefreshFails(c) \/ Save(c) \/ SaveFails(c)
           \/ \E hasRefresh \in BOOLEAN : Login(hasRefresh)
           \/ \E format \in {"json", "plain"} : ImportYacli(format)
           \/ Logout \/ Expire
    PROVE  TypeOK'
<1> USE DEF tokens, disk, call
<1>1. ASSUME NEW c \in Calls, Refresh(c)
      PROVE  TypeOK'
  <2>1. issued' \in 1..MaxTokens
    BY <1>1, ClientAssumption DEF Refresh, TypeOK
  <2>3. renewable' \subseteq 1..MaxTokens
    BY <1>1, <2>1 DEF Refresh, TypeOK
  <2>2. faults' \in 0..MaxFaults
    <3>1. UNCHANGED faults \/ Fault("bare_token")
      BY <1>1 DEF Refresh
    <3> QED
      BY <3>1, FaultType DEF TypeOK
  <2> QED
    BY <1>1, <2>1, <2>2, <2>3 DEF Refresh, TypeOK, PCs
<1>2. ASSUME NEW c \in Calls, RefreshFails(c)
      PROVE  TypeOK'
  BY <1>2, ReturnType, FaultType DEF RefreshFails, TypeOK, Results
<1>3. ASSUME NEW c \in Calls, Save(c)
      PROVE  TypeOK'
  <2>1. stored' \in 0..MaxTokens
    BY <1>3 DEF Save, SavedToken, TypeOK
  <2>2. CASE attempt[c] < Attempts
    <3>1. attempt' \in [Calls -> 1..Attempts]
      BY <1>3, <2>2, ClientAssumption DEF Save, TypeOK
    <3> QED
      BY <1>3, <2>1, <2>2, <3>1 DEF Save, TypeOK, PCs
  <2>3. CASE ~(attempt[c] < Attempts)
    BY <1>3, <2>1, <2>3, ReturnType DEF Save, TypeOK, Results
  <2> QED
    BY <2>2, <2>3
<1>4. ASSUME NEW c \in Calls, SaveFails(c)
      PROVE  TypeOK'
  BY <1>4, ReturnType, FaultType DEF SaveFails, TypeOK, Results
<1>5. ASSUME NEW b, Fault("account"), issued < MaxTokens, NewToken(b)
      PROVE  TypeOK'
  <2>1. issued' \in 0..MaxTokens /\ renewable' \subseteq 1..MaxTokens /\ stored' \in 0..MaxTokens
    BY <1>5, ClientAssumption DEF NewToken, TypeOK
  <2> QED
    BY <1>5, <2>1, FaultType DEF NewToken, TypeOK
<1>6. CASE Logout
  BY <1>6, FaultType, ClientAssumption DEF Logout, TypeOK
<1>7. CASE Expire
  BY <1>7, ClientAssumption DEF Expire, TypeOK
<1> QED
  BY <1>1, <1>2, <1>3, <1>4, <1>5, <1>6, <1>7 DEF Login, ImportYacli

\* The steps of the disk.
LEMMA DiskType ==
    ASSUME TypeOK, NEW c \in Calls,
           Serve(c) \/ Unauthorized(c) \/ Lost(c) \/ Rejected(c) \/ OperationEnds(c)
    PROVE  TypeOK'
<1> USE DEF tokens, disk, call
<1>1. ASSUME NEW r \in Replies, Answer(c, r), UNCHANGED tokens, faults' \in 0..MaxFaults,
             done' \in [Calls -> BOOLEAN],
             op' \in [Calls -> {"none", "pending", "success", "failed"}]
      PROVE  TypeOK'
  BY <1>1 DEF Answer, TypeOK, PCs
<1>2. CASE Serve(c)
  BY <1>1, <1>2, EffectiveType DEF Serve, TypeOK
<1>3. CASE Unauthorized(c)
  BY <1>1, <1>3 DEF Unauthorized, TypeOK, Replies
<1>4. CASE Lost(c)
  <2>1. /\ done' \in [Calls -> BOOLEAN]
        /\ op' \in [Calls -> {"none", "pending", "success", "failed"}]
    BY <1>4, EffectiveType DEF Lost, TypeOK
  <2> QED
    BY <1>1, <1>4, <2>1, FaultType DEF Lost, Replies
<1>5. CASE Rejected(c)
  BY <1>1, <1>5, FaultType DEF Rejected, TypeOK, Replies
<1>6. CASE OperationEnds(c)
  BY <1>6, FaultType DEF OperationEnds, TypeOK
<1> QED
  BY <1>2, <1>3, <1>4, <1>5, <1>6

\* Every step keeps the types.
LEMMA NextType == TypeOK /\ [Next]_vars => TypeOK'
<1> SUFFICES ASSUME TypeOK, [Next]_vars PROVE TypeOK'
  OBVIOUS
<1>1. CASE UNCHANGED vars
  BY <1>1 DEF TypeOK, vars, call, tokens, disk
<1>2. CASE Next
  BY <1>2, HandlerType, TokenType, DiskType DEF Next, CallSteps, OwnSteps
<1> QED
  BY <1>1, <1>2

\* Init has the types.
LEMMA InitType == Init => TypeOK
  BY ClientAssumption DEF Init, TypeOK, Kinds, Stages, PCs, Replies, Results

\* Every variable of the client, the token store and the disk keeps its type, and
\* every counter its bound.
THEOREM TypeCorrect == Spec => []TypeOK
  BY InitType, NextType, PTL DEF Spec

-----------------------------------------------------------------------------
(* The inductive invariants.                                                 *)

\* What an answer tells about the path, until it is handled.
AnswerIsTrue(c) ==
    /\ reply[c] = "ok" /\ stage[c] # "link" /\ kind[c] \in Mutating => done[c] /\ op[c] # "pending"
    /\ reply[c] = "exists" => done[c] /\ op[c] = "none"
    /\ reply[c] = "not_found" => done[c] \/ stage[c] = "poll"
    /\ reply[c] \in {"accepted", "pending"} => op[c] # "none"

\* Only deletes and moves have operations, a success of one is there, and a call polls
\* only an operation of its own.
OperationIsOwn(c) ==
    /\ op[c] # "none" => kind[c] \in {"delete", "move"}
    /\ op[c] = "success" => done[c]
    /\ stage[c] = "poll" => op[c] # "none"

\* A result is the last thing a call gets.
ResultIsTrue(c) ==
    /\ pc[c] # "done" => result[c] = "none"
    /\ pc[c] = "idle" => op[c] = "none" /\ reply[c] = "none"
    /\ result[c] = "ok" /\ kind[c] \in Mutating => done[c] /\ op[c] # "pending"

CallInv(c) == AnswerIsTrue(c) /\ OperationIsOwn(c) /\ ResultIsTrue(c)

EffectInv == \A c \in Calls : CallInv(c)

\* Without a fault every token can be refreshed, one is stored, and what has expired
\* has expired at once.
TokensInv ==
    /\ expired <= issued /\ renewable = 1..issued
    /\ stored \in 1..issued
    /\ expired > 0 => expiries = 1

\* Without a fault: a call that refreshes does so for the first time and in its first
\* attempt, the new token and the stored one are good from then on, and a request is
\* sent again only if the first one has had no effect.
QuietCall(c) ==
    /\ pc[c] \in {"sent", "reply"} /\ stage[c] # "transfer" => used[c] \in 1..issued
    /\ ~refreshed[c] => attempt[c] = 1
    /\ refreshed[c] => expired > 0 /\ stored > expired
                       /\ (pc[c] \in {"sent", "reply"} /\ stage[c] # "transfer" => used[c] > expired)
    /\ pc[c] \in {"refresh", "save"} => ~refreshed[c] /\ expired > 0
    /\ pc[c] = "save" => used[c] > expired /\ used[c] <= issued
    /\ reply[c] = "unauthorized" => used[c] <= expired /\ stage[c] # "transfer"
    /\ stage[c] = "main" /\ (pc[c] \in {"load", "sent", "refresh", "save"} \/ reply[c] = "unauthorized")
          => op[c] = "none"
    /\ op[c] # "failed"
    /\ pc[c] # "reply" => reply[c] = "none"
    /\ reply[c] \in {"none", "ok", "accepted", "exists", "pending", "unauthorized", "not_found"}
    /\ result[c] \notin {"auth", "permanent", "conflict"}
    /\ result[c] = "transient" => pc[c] = "done" /\ polls[c] = MaxPolls /\ op[c] # "none"

QuietInv == flow /\ Attempts >= 2 /\ faults = 0 => TokensInv /\ \A c \in Calls : QuietCall(c)

-----------------------------------------------------------------------------
(* Answers and results are true.                                             *)

\* What belongs to one call.
View(c) == <<kind[c], stage[c], pc[c], attempt[c], refreshed[c], used[c], polls[c], reply[c],
             result[c], done[c], op[c]>>

\* A step of one call, or of its operation, leaves the others alone.
LEMMA OthersUnchanged ==
    ASSUME TypeOK, NEW c \in Calls, NEW d \in Calls, d # c,
           CallSteps(c) \/ OperationEnds(c) \/ \E k \in Kinds : Begin(c, k)
    PROVE  UNCHANGED View(d)
<1> USE DEF TypeOK, View, disk, call
<1>1. ASSUME NEW s, Enter(c, s)
      PROVE  UNCHANGED <<stage[d], pc[d], attempt[d], refreshed[d], used[d], reply[d]>>
  BY <1>1 DEF Enter
<1>2. ASSUME NEW r, Return(c, r)
      PROVE  UNCHANGED <<stage[d], pc[d], attempt[d], refreshed[d], used[d], polls[d], reply[d],
                         result[d]>>
  BY <1>2 DEF Return
<1>3. ASSUME NEW r, Effective(c, r)
      PROVE  UNCHANGED <<done[d], op[d]>>
  <2>1. \/ UNCHANGED disk
        \/ done' = [done EXCEPT ![c] = TRUE] /\ UNCHANGED op
        \/ op' = [op EXCEPT ![c] = "pending"] /\ UNCHANGED done
    BY <1>3 DEF Effective
  <2> QED
    BY <2>1
<1>4. ASSUME NEW r, Answer(c, r)
      PROVE  UNCHANGED <<kind[d], stage[d], pc[d], attempt[d], refreshed[d], used[d], polls[d],
                         reply[d], result[d]>>
  BY <1>4 DEF Answer
<1>5. CASE Send(c) \/ SendTransfer(c) \/ HandleUnauthorized(c)
  BY <1>5 DEF Send, SendTransfer, HandleUnauthorized
<1>6. CASE NoToken(c) \/ NoSource(c) \/ HandleSuccess(c) \/ HandleRead(c) \/ HandleRejection(c)
           \/ RefreshFails(c) \/ SaveFails(c)
  BY <1>2, <1>6
  DEF NoToken, NoSource, HandleSuccess, HandleRead, HandleRejection, RefreshFails, SaveFails
<1>7. CASE HandleNext(c) \/ HandlePending(c) \/ HandleTransient(c) \/ HandleConflict(c)
  <2>1. CASE HandleNext(c)
    BY <1>1, <2>1 DEF HandleNext
  <2>2. CASE HandlePending(c)
    BY <1>1, <1>2, <2>2 DEF HandlePending
  <2>3. CASE HandleTransient(c)
    BY <1>2, <2>3 DEF HandleTransient
  <2>4. CASE HandleConflict(c)
    BY <1>1, <1>2, <2>4 DEF HandleConflict
  <2> QED
    BY <1>7, <2>1, <2>2, <2>3, <2>4
<1>8. CASE Refresh(c) \/ Save(c)
  BY <1>2, <1>8 DEF Refresh, Save
<1>9. CASE Serve(c) \/ Unauthorized(c) \/ Lost(c) \/ Rejected(c)
  BY <1>3, <1>4, <1>9 DEF Serve, Unauthorized, Lost, Rejected
<1>10. CASE OperationEnds(c)
  BY <1>10 DEF OperationEnds
<1>11. CASE \E k \in Kinds : Begin(c, k)
  BY <1>1, <1>11 DEF Begin
<1> QED
  BY <1>5, <1>6, <1>7, <1>8, <1>9, <1>10, <1>11 DEF CallSteps, OwnSteps

\* A call that returns a result the path bears out keeps its invariant.
LEMMA ReturnIsTrue ==
    ASSUME TypeOK, NEW c \in Calls, CallInv(c), pc[c] # "idle", NEW r \in Results, Return(c, r),
           UNCHANGED <<kind, disk>>,
           r = "ok" /\ kind[c] \in Mutating => done[c] /\ op[c] # "pending"
    PROVE  CallInv(c)'
<1> USE DEF TypeOK, disk
<1>1. /\ stage'[c] = "main" /\ pc'[c] = "done" /\ reply'[c] = "none" /\ result'[c] = r
      /\ UNCHANGED <<kind[c], done[c], op[c]>>
  BY DEF Return
<1> QED
  BY <1>1 DEF CallInv, AnswerIsTrue, OperationIsOwn, ResultIsTrue

\* So does one that goes on to another request: its last answer is gone.
LEMMA ForgetIsTrue ==
    ASSUME NEW c \in Calls, CallInv(c), pc[c] \notin {"idle", "done"},
           pc'[c] \notin {"idle", "done"}, reply'[c] = "none" \/ UNCHANGED <<stage[c], reply[c]>>,
           stage'[c] = "poll" => op[c] # "none",
           UNCHANGED <<kind[c], result[c], done[c], op[c]>>
    PROVE  CallInv(c)'
  BY DEF CallInv, AnswerIsTrue, OperationIsOwn, ResultIsTrue

\* Starting a loop, as seen by the call.
LEMMA EnterView ==
    ASSUME TypeOK, NEW c \in Calls, NEW s, Enter(c, s)
    PROVE  /\ stage'[c] = s /\ pc'[c] = "load" /\ attempt'[c] = 1 /\ refreshed'[c] = FALSE
           /\ used'[c] = 0 /\ reply'[c] = "none"
  BY DEF Enter, TypeOK

\* What the disk does to a path bears the answer out; lost, it still leaves the
\* operation the call's own.
LEMMA EffectiveIsTrue ==
    ASSUME TypeOK, NEW c \in Calls, CallInv(c), pc[c] = "sent", NEW r, Effective(c, r)
    PROVE  /\ OperationIsOwn(c) /\ UNCHANGED <<kind, stage>> => OperationIsOwn(c)'
           /\ r = "ok" /\ stage[c] # "link" /\ kind[c] \in Mutating => done'[c] /\ op'[c] # "pending"
           /\ r = "exists" => done'[c] /\ op'[c] = "none"
           /\ r = "not_found" => done'[c]
           /\ r \in {"accepted", "pending"} => op'[c] # "none"
  BY DEF TypeOK, CallInv, Effective, OperationIsOwn, Mutating, disk

\* The steps in which a call sends and handles keep its invariant.
LEMMA HandlerIsTrue ==
    ASSUME TypeOK, NEW c \in Calls, CallInv(c),
           \/ Send(c) \/ SendTransfer(c) \/ NoToken(c) \/ NoSource(c)
           \/ HandleSuccess(c) \/ HandleRead(c) \/ HandleNext(c) \/ HandlePending(c)
           \/ HandleTransient(c) \/ HandleConflict(c) \/ HandleRejection(c)
           \/ HandleUnauthorized(c) \/ Refresh(c) \/ RefreshFails(c) \/ Save(c) \/ SaveFails(c)
    PROVE  CallInv(c)'
<1> USE DEF disk, call
<1>1. CASE Send(c) \/ SendTransfer(c) \/ HandleUnauthorized(c) \/ Refresh(c)
  <2>1. /\ pc[c] \notin {"idle", "done"} /\ pc'[c] \notin {"idle", "done"}
        /\ reply'[c] = "none" \/ UNCHANGED <<stage[c], reply[c]>>
        /\ UNCHANGED <<kind[c], stage[c], result[c], done[c], op[c]>>
    BY <1>1 DEF Send, SendTransfer, HandleUnauthorized, Refresh, TypeOK
  <2> QED
    BY <2>1, ForgetIsTrue DEF CallInv, OperationIsOwn
<1>2. CASE NoToken(c) \/ NoSource(c) \/ RefreshFails(c) \/ SaveFails(c)
  <2>1. PICK r \in {"auth", "unavailable", "transient", "permanent"} : Return(c, r)
    BY <1>2 DEF NoToken, NoSource, RefreshFails, SaveFails
  <2>2. pc[c] # "idle" /\ UNCHANGED <<kind, disk>>
    BY <1>2 DEF NoToken, NoSource, RefreshFails, SaveFails
  <2> QED
    BY <2>1, <2>2, ReturnIsTrue DEF Results
<1>3. CASE HandleSuccess(c)
  <2>1. kind[c] \in Mutating => done[c] /\ op[c] # "pending"
    BY <1>3 DEF HandleSuccess, Succeeds, DirectoryAlreadyExists, CallInv, AnswerIsTrue
  <2> QED
    BY <1>3, <2>1, ReturnIsTrue DEF HandleSuccess, Results
<1>4. CASE HandleRead(c)
  BY <1>4, ReturnIsTrue DEF HandleRead, Results, Mutating
<1>5. CASE HandleNext(c)
  <2>1. PICK s : Enter(c, s) /\ (s = "poll" => reply[c] = "accepted")
    BY <1>5 DEF HandleNext
  <2>2. pc[c] = "reply" /\ UNCHANGED <<kind, result, disk>>
    BY <1>5 DEF HandleNext
  <2> QED
    BY <2>1, <2>2, EnterView, ForgetIsTrue, ZenonT(30) DEF CallInv, AnswerIsTrue
<1>6. CASE HandlePending(c)
  <2>1. CASE PollAgain(c)
    <3>1. /\ pc[c] = "reply" /\ pc'[c] = "load" /\ reply'[c] = "none" /\ op[c] # "none"
          /\ UNCHANGED <<kind[c], result[c], done[c], op[c]>>
      BY <1>6, <2>1, EnterView DEF HandlePending, CallInv, AnswerIsTrue
    <3> QED
      BY <3>1, ForgetIsTrue
  <2>2. CASE ~PollAgain(c)
    BY <1>6, <2>2, ReturnIsTrue DEF HandlePending, Results
  <2> QED
    BY <2>1, <2>2
<1>7. CASE HandleTransient(c)
  <2>1. CASE attempt[c] < Attempts /\ ~AfterLoop(c)
    <3>1. /\ pc[c] = "reply" /\ pc'[c] = "load" /\ reply'[c] = "none"
          /\ UNCHANGED <<kind[c], stage[c], result[c], done[c], op[c]>>
      BY <1>7, <2>1 DEF HandleTransient, TypeOK
    <3> QED
      BY <3>1, ForgetIsTrue DEF CallInv, OperationIsOwn
  <2>2. CASE ~(attempt[c] < Attempts /\ ~AfterLoop(c))
    BY <1>7, <2>2, ReturnIsTrue DEF HandleTransient, Results
  <2> QED
    BY <2>1, <2>2
<1>8. CASE HandleConflict(c)
  <2>1. CASE links[c] < Attempts
    <3>1. /\ pc[c] = "reply" /\ pc'[c] = "load" /\ reply'[c] = "none" /\ stage'[c] = "link"
          /\ UNCHANGED <<kind[c], result[c], done[c], op[c]>>
      BY <1>8, <2>1, EnterView DEF HandleConflict
    <3> QED
      BY <3>1, ForgetIsTrue
  <2>2. CASE ~(links[c] < Attempts)
    BY <1>8, <2>2, ReturnIsTrue DEF HandleConflict, Results
  <2> QED
    BY <2>1, <2>2
<1>9. CASE HandleRejection(c)
  <2>1. ErrorKind(reply[c]) \in Results \ {"ok"}
    BY DEF ErrorKind, Results
  <2> QED
    BY <1>9, <2>1, ReturnIsTrue DEF HandleRejection
<1>10. CASE Save(c)
  <2>1. CASE attempt[c] < Attempts
    <3>1. /\ pc[c] = "save" /\ pc'[c] = "load"
          /\ UNCHANGED <<kind[c], stage[c], reply[c], result[c], done[c], op[c]>>
      BY <1>10, <2>1 DEF Save, TypeOK
    <3> QED
      BY <3>1, ForgetIsTrue DEF CallInv, OperationIsOwn
  <2>2. CASE ~(attempt[c] < Attempts)
    BY <1>10, <2>2, ReturnIsTrue DEF Save, Results
  <2> QED
    BY <2>1, <2>2
<1> QED
  BY <1>1, <1>2, <1>3, <1>4, <1>5, <1>6, <1>7, <1>8, <1>9, <1>10

\* What the disk answers keeps it: the answer comes with the effect it tells of.
LEMMA DiskIsTrue ==
    ASSUME TypeOK, NEW c \in Calls, CallInv(c),
           Serve(c) \/ Unauthorized(c) \/ Lost(c) \/ Rejected(c) \/ OperationEnds(c)
    PROVE  CallInv(c)'
<1> USE DEF disk, call
<1>1. ASSUME NEW r, Answer(c, r), pc[c] = "sent",
             OperationIsOwn(c)',
             r = "ok" /\ stage[c] # "link" /\ kind[c] \in Mutating => done'[c] /\ op'[c] # "pending",
             r = "exists" => done'[c] /\ op'[c] = "none",
             r = "not_found" => done'[c] \/ stage[c] = "poll",
             r \in {"accepted", "pending"} => op'[c] # "none"
      PROVE  CallInv(c)'
  <2>1. /\ reply'[c] = r /\ pc'[c] = "reply"
        /\ UNCHANGED <<kind[c], stage[c], result[c]>>
    BY <1>1 DEF Answer, TypeOK
  <2> QED
    BY <1>1, <2>1 DEF CallInv, AnswerIsTrue, ResultIsTrue
<1>2. ASSUME NEW r \in {"unauthorized", "transient", "garbled", "rejected", "forbidden", "quota",
                        "conflict", "not_found"},
             r = "not_found" => stage[c] = "poll",
             Answer(c, r), pc[c] = "sent", UNCHANGED disk
      PROVE  CallInv(c)'
  <2>1. OperationIsOwn(c)'
    BY <1>2 DEF Answer, CallInv, OperationIsOwn
  <2> QED
    BY <1>1, <1>2, <2>1
<1>3. CASE Serve(c)
  <2>1. PICK r \in Replies : Effective(c, r) /\ Answer(c, r)
    BY <1>3 DEF Serve
  <2>2. pc[c] = "sent" /\ UNCHANGED <<kind, stage>>
    BY <1>3, <2>1 DEF Serve, Answer
  <2> QED
    BY <1>1, <2>1, <2>2, EffectiveIsTrue DEF CallInv
<1>4. CASE Unauthorized(c)
  BY <1>2, <1>4 DEF Unauthorized
<1>5. CASE Lost(c)
  <2>1. PICK r \in {"transient", "garbled"} : Answer(c, r)
    BY <1>5 DEF Lost
  <2>2. pc[c] = "sent" /\ UNCHANGED <<kind, stage>>
    BY <1>5, <2>1 DEF Lost, Answer
  <2>3. UNCHANGED disk \/ \E e : Effective(c, e)
    BY <1>5 DEF Lost
  <2>4. CASE UNCHANGED disk
    BY <1>2, <2>1, <2>2, <2>4
  <2>5. CASE \E e : Effective(c, e)
    <3>1. OperationIsOwn(c)'
      BY <2>2, <2>5, EffectiveIsTrue DEF CallInv
    <3> QED
      BY <1>1, <2>1, <2>2, <3>1
  <2> QED
    BY <2>3, <2>4, <2>5
<1>6. CASE Rejected(c)
  BY <1>2, <1>6 DEF Rejected
<1>7. CASE OperationEnds(c)
  <2>1. /\ op[c] = "pending" /\ op'[c] \in {"success", "failed"}
        /\ op'[c] = "success" => done'[c]
        /\ done[c] => done'[c]
        /\ UNCHANGED <<kind[c], stage[c], pc[c], reply[c], result[c]>>
    BY <1>7 DEF OperationEnds, TypeOK
  <2> QED
    BY <2>1 DEF CallInv, AnswerIsTrue, OperationIsOwn, ResultIsTrue
<1> QED
  BY <1>3, <1>4, <1>5, <1>6, <1>7

\* A call begins with nothing answered and no operation.
LEMMA BeginIsTrue ==
    ASSUME TypeOK, NEW c \in Calls, CallInv(c), NEW k \in Kinds, Begin(c, k)
    PROVE  CallInv(c)'
<1>1. /\ pc[c] = "idle" /\ pc'[c] = "load" /\ reply'[c] = "none" /\ stage'[c] # "poll"
      /\ UNCHANGED <<result[c], op[c]>>
  <2>1. PICK s \in {"link", "main"} : Enter(c, s)
    BY DEF Begin
  <2> QED
    BY <2>1, EnterView DEF Begin
<1> QED
  BY <1>1 DEF CallInv, AnswerIsTrue, OperationIsOwn, ResultIsTrue

\* Init establishes the invariant.
LEMMA InitEffect == Init => EffectInv
  BY DEF Init, EffectInv, CallInv, AnswerIsTrue, OperationIsOwn, ResultIsTrue

\* Every step preserves it.
LEMMA NextEffect == TypeOK /\ EffectInv /\ [Next]_vars => EffectInv'
<1> SUFFICES ASSUME TypeOK, EffectInv, [Next]_vars, NEW d \in Calls PROVE CallInv(d)'
  BY DEF EffectInv
<1>1. CallInv(d)
  BY DEF EffectInv
<1>2. ASSUME UNCHANGED View(d) PROVE CallInv(d)'
  BY <1>1, <1>2 DEF View, CallInv, AnswerIsTrue, OperationIsOwn, ResultIsTrue
<1>3. ASSUME UNCHANGED <<call, disk>> PROVE CallInv(d)'
  <2>1. UNCHANGED View(d)
    BY <1>3 DEF View, call, disk
  <2> QED
    BY <1>2, <2>1
<1>4. ASSUME NEW c \in Calls, CallSteps(c) \/ OperationEnds(c) \/ \E k \in Kinds : Begin(c, k)
      PROVE  CallInv(d)'
  <2>1. CASE c = d
    BY <1>1, <1>4, <2>1, HandlerIsTrue, DiskIsTrue, BeginIsTrue DEF CallSteps, OwnSteps
  <2>2. CASE c # d
    BY <1>2, <1>4, <2>2, OthersUnchanged
  <2> QED
    BY <2>1, <2>2
<1>5. CASE Next
  BY <1>3, <1>4, <1>5 DEF Next, Login, ImportYacli, NewToken, Logout, Expire
<1>6. CASE UNCHANGED vars
  BY <1>3, <1>6 DEF vars
<1> QED
  BY <1>5, <1>6

\* A call that returned Ok has had its effect and has left no operation running,
\* whatever was retried, refreshed, lost or polled on the way: for any number of calls,
\* attempts, polls and faults.
THEOREM OkIsTrue == Spec => []OkMeansDone
<1>1. EffectInv => OkMeansDone
  BY DEF EffectInv, CallInv, ResultIsTrue, OkMeansDone
<1> QED
  BY <1>1, InitType, NextType, InitEffect, NextEffect, PTL DEF Spec

\* A delete that ends in NotFound, which the engines take for success, or a move that
\* does has had its effect, or it was polling an operation that the disk had accepted: a 404 is
\* never the answer to a request for a path with a running operation.
THEOREM NotFoundIsTrue == Spec => NotFoundMeansGone
<1>1. ASSUME TypeOK, EffectInv, [Next]_vars, NEW d \in Calls,
             kind[d] \in {"delete", "move"}, result[d] # "not_found", result'[d] = "not_found"
      PROVE  done[d] \/ (stage[d] = "poll" /\ op[d] # "none")
  <2>1. CallInv(d)
    BY <1>1 DEF EffectInv
  <2>2. ~UNCHANGED result[d]
    BY <1>1
  <2>3. PICK c \in Calls : CallSteps(c) \/ OperationEnds(c) \/ \E k \in Kinds : Begin(c, k)
    BY <1>1, <2>2 DEF Next, vars, call, Login, ImportYacli, NewToken, Logout, Expire
  <2>4. c = d
    BY <1>1, <2>2, <2>3, OthersUnchanged DEF View
  <2>5. ASSUME NEW r, Return(d, r) PROVE r = "not_found"
    BY <1>1, <2>5 DEF Return, TypeOK
  <2>6. ASSUME NEW s, Enter(d, s), UNCHANGED result PROVE FALSE
    BY <2>2, <2>6
  <2>7. HandleRejection(d) /\ reply[d] = "not_found"
    <3>1. ~(\/ Send(d) \/ SendTransfer(d) \/ HandleUnauthorized(d) \/ HandleNext(d)
            \/ Refresh(d) \/ OperationEnds(d) \/ \E k \in Kinds : Begin(d, k))
      BY <2>2 DEF Send, SendTransfer, HandleUnauthorized, HandleNext, Refresh, OperationEnds,
                  Begin, call
    <3>2. ~(Serve(d) \/ Unauthorized(d) \/ Lost(d) \/ Rejected(d))
      BY <2>2 DEF Serve, Unauthorized, Lost, Rejected, Answer
    <3>3. ~(NoToken(d) \/ NoSource(d) \/ HandleSuccess(d) \/ HandleRead(d) \/ RefreshFails(d)
            \/ SaveFails(d) \/ HandlePending(d) \/ HandleTransient(d) \/ HandleConflict(d)
            \/ Save(d))
      BY <2>2, <2>5
      DEF NoToken, NoSource, HandleSuccess, HandleRead, RefreshFails, SaveFails, HandlePending,
          HandleTransient, HandleConflict, Save
    <3>4. HandleRejection(d)
      BY <2>3, <2>4, <3>1, <3>2, <3>3 DEF CallSteps, OwnSteps
    <3>5. ErrorKind(reply[d]) = "not_found"
      BY <2>5, <3>4 DEF HandleRejection
    <3> QED
      BY <3>4, <3>5 DEF ErrorKind
  <2> QED
    BY <2>1, <2>7 DEF CallInv, AnswerIsTrue, OperationIsOwn
<1>2. TypeOK /\ EffectInv /\ [Next]_vars =>
        [\A c \in Calls :
            /\ kind[c] \in {"delete", "move"}
            /\ result[c] # "not_found" /\ result'[c] = "not_found"
            => done[c] \/ (stage[c] = "poll" /\ op[c] # "none")]_vars
  BY <1>1
<1> QED
  BY <1>2, InitType, NextType, InitEffect, NextEffect, PTL DEF Spec, NotFoundMeansGone

-----------------------------------------------------------------------------
(* One expiry costs no call.                                                 *)

\* A fault shows in their number.
LEMMA FaultCounts == ASSUME TypeOK, NEW what, Fault(what) PROVE faults' # 0
  BY ClientAssumption DEF TypeOK, Fault

\* A call that does not move sees only good news: more tokens, a good one stored.
LEMMA BystanderQuiet ==
    ASSUME TypeOK, TypeOK', TokensInv, NEW d \in Calls, QuietCall(d), UNCHANGED View(d),
           issued' >= issued, UNCHANGED expired, stored' = stored \/ stored' > expired
    PROVE  QuietCall(d)'
  BY SMTT(30) DEF TypeOK, TokensInv, QuietCall, View

\* The steps in which a call sends and handles, with the tokens as they are.
LEMMA HandlerQuiet ==
    ASSUME TypeOK, TypeOK', TokensInv, flow, faults' = 0, NEW c \in Calls, CallInv(c), QuietCall(c),
           \/ Send(c) \/ SendTransfer(c) \/ NoToken(c) \/ NoSource(c)
           \/ HandleSuccess(c) \/ HandleRead(c) \/ HandleNext(c) \/ HandlePending(c)
           \/ HandleTransient(c) \/ HandleConflict(c) \/ HandleRejection(c)
           \/ HandleUnauthorized(c) \/ RefreshFails(c) \/ SaveFails(c)
           \/ \E k \in Kinds : Begin(c, k)
    PROVE  QuietCall(c)' /\ UNCHANGED tokens
<1> USE DEF tokens, disk, call
<1>1. ASSUME NEW s \in Stages, Enter(c, s), UNCHANGED <<tokens, op[c], result[c]>>,
             s = "main" => op[c] = "none", result[c] = "none"
      PROVE  QuietCall(c)'
  <2>1. /\ stage'[c] = s /\ pc'[c] = "load" /\ attempt'[c] = 1 /\ refreshed'[c] = FALSE
        /\ used'[c] = 0 /\ reply'[c] = "none"
    BY <1>1, EnterView
  <2> QED
    BY <1>1, <2>1 DEF QuietCall
<1>2. ASSUME NEW r \in {"ok", "not_found", "transient"}, Return(c, r), UNCHANGED <<tokens, disk>>,
             r = "transient" => polls[c] = MaxPolls /\ op[c] # "none"
      PROVE  QuietCall(c)'
  <2>1. /\ stage'[c] = "main" /\ pc'[c] = "done" /\ attempt'[c] = 1 /\ refreshed'[c] = FALSE
        /\ reply'[c] = "none" /\ result'[c] = r /\ UNCHANGED <<polls[c], op[c]>>
    BY <1>2 DEF Return, TypeOK
  <2> QED
    BY <1>2, <2>1 DEF QuietCall
<1>3. CASE Send(c)
  <2>1. /\ used'[c] = stored /\ pc[c] = "load" /\ pc'[c] = "sent" /\ stored \in 1..issued
        /\ UNCHANGED <<stage[c], attempt[c], refreshed[c], polls[c], reply[c], result[c], op[c],
                       issued, expired, stored>>
    BY <1>3 DEF Send, TypeOK, TokensInv
  <2> QED
    BY <1>3, <2>1 DEF QuietCall, TokensInv, Send
<1>4. CASE SendTransfer(c)
  <2>1. /\ pc[c] = "load" /\ pc'[c] = "sent" /\ stage[c] = "transfer"
        /\ UNCHANGED <<stage[c], attempt[c], refreshed[c], used[c], polls[c], reply[c], result[c],
                       op[c], issued, expired, stored>>
    BY <1>4 DEF SendTransfer, TypeOK
  <2> QED
    BY <1>4, <2>1 DEF QuietCall, SendTransfer
<1>5. ~(NoToken(c) \/ NoSource(c) \/ RefreshFails(c) \/ SaveFails(c))
  <2>1. stored # 0
    BY DEF TokensInv, TypeOK
  <2> QED
    BY <2>1, FaultCounts DEF NoToken, NoSource, RefreshFails, SaveFails
<1>6. CASE HandleSuccess(c) \/ HandleRead(c)
  BY <1>2, <1>6 DEF HandleSuccess, HandleRead
<1>7. CASE HandleNext(c)
  <2>1. PICK s \in {"transfer", "poll"} : Enter(c, s)
    BY <1>7 DEF HandleNext
  <2>2. result[c] = "none"
    BY <1>7 DEF HandleNext, CallInv, ResultIsTrue
  <2> QED
    BY <1>1, <1>7, <2>1, <2>2 DEF HandleNext, Stages
<1>8. CASE HandlePending(c)
  <2>1. CASE PollAgain(c)
    <3>1. result[c] = "none"
      BY <1>8 DEF HandlePending, CallInv, ResultIsTrue
    <3> QED
      BY <1>1, <1>8, <2>1, <3>1 DEF HandlePending, Stages
  <2>2. CASE ~PollAgain(c)
    <3>1. polls[c] = MaxPolls /\ op[c] # "none"
      BY <1>8, <2>2, ClientAssumption, SMTT(30) DEF HandlePending, PollAgain, TypeOK, CallInv, AnswerIsTrue
    <3> QED
      BY <1>2, <1>8, <2>2, <3>1 DEF HandlePending
  <2> QED
    BY <2>1, <2>2
<1>9. ~HandleTransient(c) /\ ~HandleConflict(c)
  BY DEF HandleTransient, HandleConflict, Retryable, RetryableUploadConflict, QuietCall
<1>10. CASE HandleRejection(c)
  <2>1. reply[c] # "unauthorized"
    <3> SUFFICES ASSUME reply[c] = "unauthorized" PROVE FALSE
      OBVIOUS
    <3>1. pc[c] = "reply" /\ ~MayRefresh(c)
      BY <1>10 DEF HandleRejection
    <3>2. used[c] \in 1..issued /\ used[c] <= expired
      BY <3>1 DEF QuietCall
    <3>3. ~refreshed[c]
      BY <3>1, <3>2 DEF QuietCall, TypeOK
    <3> QED
      BY <3>1, <3>2, <3>3 DEF MayRefresh, TokensInv
  <2>2. reply[c] = "not_found"
    BY <1>10, <2>1 DEF HandleRejection, QuietCall
  <2>3. ErrorKind(reply[c]) = "not_found"
    BY <2>2 DEF ErrorKind
  <2> QED
    BY <1>2, <1>10, <2>3 DEF HandleRejection
<1>11. CASE HandleUnauthorized(c)
  <2>1. /\ pc[c] = "reply" /\ pc'[c] = "refresh" /\ reply[c] = "unauthorized" /\ reply'[c] = "none"
        /\ ~refreshed[c]
        /\ UNCHANGED <<stage[c], attempt[c], refreshed[c], used[c], polls[c], result[c],
                       op[c], issued, expired, stored>>
    BY <1>11 DEF HandleUnauthorized, MayRefresh, TypeOK
  <2>2. expired > 0
    BY <2>1 DEF QuietCall, TypeOK
  <2> QED
    BY <1>11, <2>1, <2>2 DEF QuietCall, HandleUnauthorized
<1>12. CASE \E k \in Kinds : Begin(c, k)
  <2>1. PICK s \in {"link", "main"} : Enter(c, s)
    BY <1>12 DEF Begin
  <2>2. result[c] = "none" /\ op[c] = "none"
    BY <1>12 DEF Begin, CallInv, ResultIsTrue
  <2> QED
    BY <1>1, <1>12, <2>1, <2>2 DEF Begin, Stages
<1> QED
  BY <1>3, <1>4, <1>5, <1>6, <1>7, <1>8, <1>9, <1>10, <1>11, <1>12
  DEF Send, SendTransfer, HandleSuccess, HandleRead, HandleNext, HandlePending, HandleRejection,
      HandleUnauthorized, Begin

\* The disk's steps: without a fault a request that is sent again was never served.
LEMMA DiskQuiet ==
    ASSUME TypeOK, TypeOK', faults' = 0, NEW c \in Calls, CallInv(c), QuietCall(c),
           Serve(c) \/ Unauthorized(c) \/ Lost(c) \/ Rejected(c) \/ OperationEnds(c)
    PROVE  QuietCall(c)' /\ UNCHANGED tokens
<1> USE DEF tokens, disk, call
<1>1. ASSUME NEW r \in {"ok", "accepted", "exists", "pending", "unauthorized", "not_found"},
             Answer(c, r), pc[c] = "sent", op'[c] # "failed", UNCHANGED tokens,
             r = "unauthorized" => ~Authorized(c) /\ UNCHANGED op
      PROVE  QuietCall(c)'
  <2>1. /\ pc'[c] = "reply" /\ reply'[c] = r
        /\ UNCHANGED <<stage[c], attempt[c], refreshed[c], used[c], polls[c], result[c],
                       issued, expired, stored>>
    BY <1>1 DEF Answer, TypeOK
  <2>2. result[c] = "none"
    BY <1>1 DEF CallInv, ResultIsTrue
  <2> QED
    BY <1>1, <2>1, <2>2 DEF QuietCall, Authorized, TypeOK
<1>2. CASE Serve(c)
  <2>1. PICK r \in Replies : Effective(c, r) /\ Answer(c, r)
    BY <1>2 DEF Serve
  <2>2. /\ r \in {"ok", "accepted", "exists", "pending", "not_found"}
        /\ op'[c] # "failed"
    BY <1>2, <2>1 DEF Serve, Effective, QuietCall, CallInv, OperationIsOwn, TypeOK
  <2> QED
    BY <1>1, <1>2, <2>1, <2>2 DEF Serve
<1>3. CASE Unauthorized(c)
  <2>1. op'[c] # "failed"
    BY <1>3 DEF Unauthorized, QuietCall
  <2> QED
    BY <1>1, <1>3, <2>1 DEF Unauthorized
<1>4. ~Lost(c) /\ ~Rejected(c)
  BY FaultCounts DEF Lost, Rejected
<1>5. CASE OperationEnds(c)
  <2>1. /\ op[c] = "pending" /\ op'[c] = "success"
        /\ UNCHANGED <<stage[c], pc[c], attempt[c], refreshed[c], used[c], polls[c], reply[c],
                       result[c], tokens>>
    BY <1>5, FaultCounts DEF OperationEnds, TypeOK
  <2> QED
    BY <2>1 DEF QuietCall
<1> QED
  BY <1>2, <1>3, <1>4, <1>5 DEF Serve, Unauthorized

\* A refresh after the one expiry brings a good token, with a refresh token.
LEMMA RefreshQuiet ==
    ASSUME TypeOK, TypeOK', TokensInv, faults' = 0, NEW c \in Calls, QuietCall(c), Refresh(c)
    PROVE  TokensInv' /\ QuietCall(c)' /\ issued' >= issued /\ UNCHANGED <<expired, stored, flow>>
<1>1. /\ issued' = issued + 1 /\ renewable' = renewable \cup {issued'}
      /\ UNCHANGED <<expired, expiries, stored, flow>>
  BY FaultCounts DEF Refresh
<1>2. TokensInv'
  <2>1. 1..(issued + 1) = (1..issued) \cup {issued + 1}
    BY DEF TypeOK
  <2> QED
    BY <1>1, <2>1 DEF TokensInv, TypeOK
<1>3. /\ pc[c] = "refresh" /\ pc'[c] = "save" /\ used'[c] = issued + 1
      /\ UNCHANGED <<stage[c], attempt[c], refreshed[c], polls[c], reply[c], result[c], op[c]>>
  BY <1>1 DEF Refresh, TypeOK, disk
<1>4. QuietCall(c)'
  BY <1>1, <1>3 DEF QuietCall, TokensInv, TypeOK
<1> QED
  BY <1>1, <1>2, <1>4 DEF TypeOK

\* It is stored, and the second attempt is there to use it.
LEMMA SaveQuiet ==
    ASSUME TypeOK, TypeOK', TokensInv, Attempts >= 2, NEW c \in Calls, QuietCall(c), Save(c)
    PROVE  TokensInv' /\ QuietCall(c)' /\ UNCHANGED <<issued, expired, flow>> /\ stored' > expired
<1>1. /\ pc[c] = "save" /\ stored' = used[c] /\ attempt[c] = 1
      /\ UNCHANGED <<issued, renewable, expired, expiries, flow>>
  BY DEF Save, SavedToken, QuietCall
<1>2. TokensInv' /\ stored' > expired
  BY <1>1 DEF TokensInv, QuietCall, TypeOK
<1>3. attempt[c] < Attempts
  BY <1>1, ClientAssumption
<1>4. /\ pc'[c] = "load" /\ refreshed'[c] = TRUE
      /\ UNCHANGED <<stage[c], used[c], polls[c], reply[c], result[c], op[c]>>
  BY <1>3 DEF Save, TypeOK, disk
<1>5. QuietCall(c)'
  BY <1>1, <1>2, <1>4 DEF QuietCall
<1> QED
  BY <1>1, <1>2, <1>5

\* The one expiry finds no call that has refreshed.
LEMMA ExpireQuiet ==
    ASSUME TypeOK, TypeOK', MaxExpiries <= 1, TokensInv, Expire
    PROVE  TokensInv' /\ \A d \in Calls : QuietCall(d) => QuietCall(d)'
<1>1. /\ expired = 0 /\ expired' = issued /\ expiries' = 1 /\ issued > 0
      /\ UNCHANGED <<issued, stored, renewable>>
  BY ClientAssumption DEF Expire, TokensInv, TypeOK
<1>2. TokensInv'
  BY <1>1 DEF TokensInv, TypeOK
<1>3. ASSUME NEW d \in Calls, QuietCall(d)
      PROVE  QuietCall(d)'
  <2>1. UNCHANGED View(d)
    BY DEF Expire, View, call, disk
  <2>2. ~refreshed[d] /\ pc[d] \notin {"refresh", "save"}
    BY <1>1, <1>3 DEF QuietCall, TypeOK
  <2>3. reply[d] # "unauthorized" \/ used[d] <= issued
    BY <1>1, <1>3 DEF QuietCall, TypeOK
  <2> QED
    BY <1>1, <1>3, <2>1, <2>2, <2>3 DEF QuietCall, View
<1> QED
  BY <1>2, <1>3

\* Init establishes the invariant.
LEMMA InitQuiet == Init => QuietInv
  BY ClientAssumption DEF Init, QuietInv, TokensInv, QuietCall

\* Every step preserves it, if the tokens expire once at most.
LEMMA NextQuiet ==
    ASSUME MaxExpiries <= 1
    PROVE  TypeOK /\ TypeOK' /\ EffectInv /\ QuietInv /\ [Next]_vars => QuietInv'
<1> SUFFICES ASSUME TypeOK, TypeOK', EffectInv, QuietInv, [Next]_vars,
                    flow', Attempts >= 2, faults' = 0
             PROVE  TokensInv' /\ \A d \in Calls : QuietCall(d)'
  BY DEF QuietInv
<1>1. flow /\ faults = 0
  <2>1. UNCHANGED faults \/ \E what : Fault(what)
    BY ZenonT(30) DEF Next, CallSteps, OwnSteps, vars, Send, SendTransfer, NoToken, NoSource, HandleSuccess, HandleRead,
           HandleNext, HandlePending, HandleTransient, HandleConflict, HandleRejection,
           HandleUnauthorized, Refresh, RefreshFails, Save, SaveFails, Serve, Unauthorized, Lost,
           Rejected, OperationEnds, Begin, Login, ImportYacli, Logout, Expire
  <2>2. UNCHANGED flow
    BY ZenonT(30) DEF Next, CallSteps, OwnSteps, vars, tokens, Send, SendTransfer, NoToken, NoSource, HandleSuccess,
           HandleRead, HandleNext, HandlePending, HandleTransient, HandleConflict, HandleRejection,
           HandleUnauthorized, Refresh, RefreshFails, Save, SaveFails, Serve, Unauthorized, Lost,
           Rejected, OperationEnds, Begin, Login, ImportYacli, NewToken, Logout, Expire
  <2> QED
    BY <2>1, <2>2, FaultCounts
<1>2. TokensInv /\ \A d \in Calls : CallInv(d) /\ QuietCall(d)
  BY <1>1 DEF QuietInv, EffectInv
<1>3. ASSUME NEW c \in Calls, CallSteps(c) \/ OperationEnds(c) \/ \E k \in Kinds : Begin(c, k),
             TokensInv', QuietCall(c)', issued' >= issued, UNCHANGED expired,
             stored' = stored \/ stored' > expired
      PROVE  TokensInv' /\ \A d \in Calls : QuietCall(d)'
  <2>1. \A d \in Calls : d # c => UNCHANGED View(d)
    BY <1>3, OthersUnchanged
  <2> QED
    BY <1>2, <1>3, <2>1, BystanderQuiet
<1>4. ASSUME NEW c \in Calls, CallSteps(c) \/ OperationEnds(c) \/ \E k \in Kinds : Begin(c, k)
      PROVE  TokensInv' /\ \A d \in Calls : QuietCall(d)'
  <2>1. CASE Refresh(c)
    BY <1>2, <1>3, <1>4, <2>1, RefreshQuiet
  <2>2. CASE Save(c)
    <3>1. issued' >= issued
      <4>1. UNCHANGED issued
        BY <1>2, <2>2, SaveQuiet
      <4> QED
        BY <4>1 DEF TypeOK
    <3> QED
      BY <1>2, <1>3, <1>4, <2>2, <3>1, SaveQuiet
  <2>3. CASE ~Refresh(c) /\ ~Save(c)
    <3>1. QuietCall(c)' /\ UNCHANGED tokens
      BY <1>1, <1>2, <1>4, <2>3, HandlerQuiet, DiskQuiet DEF CallSteps, OwnSteps
    <3>2. TokensInv' /\ issued' >= issued /\ UNCHANGED <<expired, stored>>
      BY <1>2, <3>1 DEF TokensInv, tokens, TypeOK
    <3> QED
      BY <1>3, <1>4, <3>1, <3>2
  <2> QED
    BY <2>1, <2>2, <2>3
<1>5. ~Logout /\ (\A b : ~Login(b)) /\ (\A f : ~ImportYacli(f))
  BY FaultCounts DEF Logout, Login, ImportYacli
<1>6. CASE Expire
  BY <1>2, <1>6, ExpireQuiet
<1>7. CASE UNCHANGED vars
  <2>1. TokensInv'
    BY <1>2, <1>7 DEF TokensInv, vars, tokens
  <2>2. \A d \in Calls : UNCHANGED View(d)
    BY <1>7 DEF View, vars, call, disk
  <2>3. issued' >= issued /\ UNCHANGED <<expired, stored>>
    BY <1>7 DEF vars, tokens, TypeOK
  <2> QED
    BY <1>2, <2>1, <2>2, <2>3, BystanderQuiet
<1> QED
  BY <1>4, <1>5, <1>6, <1>7 DEF Next

\* send_authorized of a client with an OAuth flow and two attempts: when the access
\* tokens expire once and nothing else goes wrong, no call fails for it, whatever number
\* of calls meet the expiry together and in whatever order they refresh and save.
THEOREM OneExpiryIsFree ==
    ASSUME MaxExpiries <= 1
    PROVE  Spec => []ExpiryCostsNoCall
<1>1. QuietInv => ExpiryCostsNoCall
  BY DEF QuietInv, QuietCall, ExpiryCostsNoCall
<1>2. TypeOK /\ TypeOK' /\ EffectInv /\ QuietInv /\ [Next]_vars => QuietInv'
  BY NextQuiet
<1> QED
  BY <1>1, <1>2, InitType, NextType, InitEffect, NextEffect, InitQuiet, PTL DEF Spec

=============================================================================
