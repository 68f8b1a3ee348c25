----------------------------- MODULE HttpClient ------------------------------
(***************************************************************************)
(* HttpYandexDiskClient: calls that run side by side, share one stored      *)
(* token and retry what they send.  Each call is one operation on a path of *)
(* its own: done[c] says whether the disk has the effect.                   *)
(*                                                                         *)
(* A request is answered in a step of its own, after which the token, the   *)
(* disk and the other calls go on before the answer is handled.  Answers    *)
(* with the same handling are one: "transient" stands for timeout, reset,   *)
(* 429 and 5xx, "rejected" for the other 4xx but 403.                       *)
(*                                                                         *)
(* Tokens are numbered as they are issued.  refresh_stored_token sends the   *)
(* refresh token that its call loaded, so several calls use one: the OAuth   *)
(* server of the model accepts it again and keeps older access tokens.      *)
(***************************************************************************)
EXTENDS Naturals

CONSTANTS
    Calls,
    Wanted,       \* the kinds of operations each call may be
    Attempts,     \* RetryPolicy.attempts
    MaxPolls,     \* operation_poll_timeout in poll intervals
    MaxTokens,    \* bound on the tokens issued
    MaxExpiries,  \* bound on how often the access tokens expire
    Faults, MaxFaults

FaultKinds ==
    { "transient",   \* a request fails, with or without effect
      "garbled",     \* the body of a success cannot be read or decoded
      "conflict",    \* the uploader answers 409
      "rejected",    \* another 4xx
      "forgotten",   \* the URL of an operation answers 404
      "quota",
      "source",      \* the upload source cannot be opened
      "operation",   \* an asynchronous operation fails
      "oauth",       \* the OAuth server fails
      "bare_token",  \* a token comes without refresh_token
      "keyring",     \* the token store fails
      "account" }    \* auth logout, auth login, auth import-yacli

Kinds == { "none", "read", "create", "upload", "download", "delete", "move" }

Mutating == { "create", "upload", "delete", "move" }

ASSUME ClientAssumption ==
    /\ Wanted \in [Calls -> SUBSET (Kinds \ {"none"})]
    /\ Attempts \in Nat \ {0} /\ MaxPolls \in Nat /\ MaxTokens \in Nat \ {0}
    /\ MaxExpiries \in Nat /\ MaxFaults \in Nat /\ Faults \subseteq FaultKinds

VARIABLES
    kind,      \* the operation of each call
    stage,     \* which request it is at
    pc,
    attempt,   \* attempt of the innermost loop
    links,     \* attempt of upload_inner
    refreshed, \* refreshed_after_unauthorized
    used,      \* the token the call has loaded or got
    polls,     \* polls that found the operation in progress
    reply,     \* the answer to the call's request
    result,
    \* the token store and the OAuth server
    flow,      \* the client was built with an OAuthFlow
    stored,    \* the stored token, 0 if there is none
    issued,    \* tokens issued
    renewable, \* tokens with a refresh_token
    expired,   \* access tokens up to this one have expired
    expiries,
    \* the disk
    done,      \* the effect of the call is there
    op,        \* its asynchronous operation
    faults

call == <<kind, stage, pc, attempt, links, refreshed, used, polls, reply, result>>
tokens == <<flow, stored, issued, renewable, expired, expiries>>
disk == <<done, op>>
vars == <<call, tokens, disk, faults>>

Stages == { "main", "link", "transfer", "poll" }
PCs == { "idle", "load", "sent", "reply", "refresh", "save", "done" }
Replies == { "none", "ok", "accepted", "exists", "pending", "failed", "unauthorized", "transient",
             "garbled", "conflict", "rejected", "forbidden", "locked", "quota", "not_found" }
Results == { "none", "ok", "transient", "permanent", "auth", "quota", "not_found", "conflict",
             "unavailable" }

TypeOK ==
    /\ kind \in [Calls -> Kinds] /\ stage \in [Calls -> Stages] /\ pc \in [Calls -> PCs]
    /\ attempt \in [Calls -> 1..Attempts] /\ links \in [Calls -> 1..Attempts]
    /\ refreshed \in [Calls -> BOOLEAN] /\ used \in [Calls -> 0..MaxTokens]
    /\ polls \in [Calls -> 0..MaxPolls] /\ reply \in [Calls -> Replies]
    /\ result \in [Calls -> Results]
    /\ flow \in BOOLEAN /\ stored \in 0..MaxTokens /\ issued \in 0..MaxTokens /\ renewable \subseteq 1..MaxTokens
    /\ expired \in 0..MaxTokens /\ expiries \in 0..MaxExpiries
    /\ done \in [Calls -> BOOLEAN]
    /\ op \in [Calls -> {"none", "pending", "success", "failed"}]
    /\ faults \in 0..MaxFaults

Fault(what) == what \in Faults /\ faults < MaxFaults /\ faults' = faults + 1

\* Logged in.  HttpYandexDiskClient::new, which the service and the command line use,
\* has no OAuth flow; with_oauth_flow has one.
Init ==
    /\ kind = [c \in Calls |-> "none"] /\ stage = [c \in Calls |-> "main"]
    /\ pc = [c \in Calls |-> "idle"]
    /\ attempt = [c \in Calls |-> 1] /\ links = [c \in Calls |-> 1]
    /\ refreshed = [c \in Calls |-> FALSE] /\ used = [c \in Calls |-> 0]
    /\ polls = [c \in Calls |-> 0] /\ reply = [c \in Calls |-> "none"]
    /\ result = [c \in Calls |-> "none"]
    /\ flow \in BOOLEAN /\ stored = 1 /\ issued = 1 /\ renewable = {1} /\ expired = 0 /\ expiries = 0
    /\ done = [c \in Calls |-> FALSE] /\ op = [c \in Calls |-> "none"]
    /\ faults = 0

-----------------------------------------------------------------------------
(* What a call does.                                                         *)

\* A loop over the attempts starts.
Enter(c, s) ==
    /\ stage' = [stage EXCEPT ![c] = s] /\ pc' = [pc EXCEPT ![c] = "load"]
    /\ attempt' = [attempt EXCEPT ![c] = 1] /\ refreshed' = [refreshed EXCEPT ![c] = FALSE]
    /\ used' = [used EXCEPT ![c] = 0] /\ reply' = [reply EXCEPT ![c] = "none"]

Return(c, r) ==
    /\ result' = [result EXCEPT ![c] = r] /\ pc' = [pc EXCEPT ![c] = "done"]
    /\ stage' = [stage EXCEPT ![c] = "main"]
    /\ attempt' = [attempt EXCEPT ![c] = 1] /\ links' = [links EXCEPT ![c] = 1]
    /\ refreshed' = [refreshed EXCEPT ![c] = FALSE]
    /\ used' = [used EXCEPT ![c] = 0] /\ reply' = [reply EXCEPT ![c] = "none"]
    /\ UNCHANGED polls

\* Its path may have been as the call wants it all along.
Begin(c, k) ==
    /\ pc[c] = "idle" /\ k \in Wanted[c]
    /\ \E before \in BOOLEAN :
          /\ before => k \in Mutating
          /\ done' = [done EXCEPT ![c] = before]
    /\ kind' = [kind EXCEPT ![c] = k]
    /\ Enter(c, IF k \in {"upload", "download"} THEN "link" ELSE "main")
    /\ UNCHANGED <<links, polls, result, tokens, op, faults>>

\* load_required_token and the request; the transfers carry no token.
Send(c) ==
    /\ pc[c] = "load" /\ stage[c] # "transfer" /\ stored # 0
    /\ used' = [used EXCEPT ![c] = stored]
    /\ pc' = [pc EXCEPT ![c] = "sent"]
    /\ UNCHANGED <<kind, stage, attempt, links, refreshed, polls, reply, result, tokens, disk,
                   faults>>

SendTransfer(c) ==
    /\ pc[c] = "load" /\ stage[c] = "transfer"
    /\ pc' = [pc EXCEPT ![c] = "sent"]
    /\ UNCHANGED <<kind, stage, attempt, links, refreshed, used, polls, reply, result, tokens,
                   disk, faults>>

\* Not authenticated, or an error of the keyring.
NoToken(c) ==
    /\ pc[c] = "load" /\ stage[c] # "transfer"
    /\ (stored = 0 /\ UNCHANGED faults) \/ Fault("keyring")
    /\ Return(c, "auth")
    /\ UNCHANGED <<kind, tokens, disk>>

\* local_upload_source_unavailable.
NoSource(c) ==
    /\ pc[c] = "load" /\ stage[c] = "transfer" /\ kind[c] = "upload" /\ Fault("source")
    /\ Return(c, "unavailable")
    /\ UNCHANGED <<kind, tokens, disk>>

\* classify_http_status; the answers that are not retried are returned as they are.
Retryable(r) == r \in {"transient", "garbled"}

\* Mutant: a locked resource is taken for a missing one.
LockedIsMissing(r) ==
    IF r \in {"not_found", "locked"} THEN "not_found"
    ELSE IF r = "quota" THEN r
    ELSE IF r \in {"unauthorized", "forbidden"} THEN "auth" ELSE "permanent"

ErrorKind(r) ==
    IF r \in {"not_found", "quota"} THEN r
    ELSE IF r \in {"unauthorized", "forbidden"} THEN "auth" ELSE "permanent"

\* create_directory_inner accepts what exists.
DirectoryAlreadyExists(c) == kind[c] = "create" /\ reply[c] = "exists"

\* Mutant: an accepted operation counts as finished.
AcceptedIsDone(c) == reply[c] \in {"ok", "accepted"} /\ stage[c] # "link"

\* The request itself, or the operation, has succeeded.
Succeeds(c) == reply[c] = "ok" /\ stage[c] # "link"

HandleSuccess(c) ==
    /\ pc[c] = "reply" /\ kind[c] # "read"
    /\ Succeeds(c) \/ DirectoryAlreadyExists(c)
    /\ Return(c, "ok")
    /\ UNCHANGED <<kind, tokens, disk, faults>>

\* get_disk_info, get_metadata and get_resource_page have decoded the body.
HandleRead(c) ==
    /\ pc[c] = "reply" /\ kind[c] = "read" /\ Succeeds(c)
    /\ Return(c, "ok")
    /\ UNCHANGED <<kind, tokens, disk, faults>>

\* The link has come, or the operation is under way: the next loop.
HandleNext(c) ==
    /\ pc[c] = "reply" /\ ~Succeeds(c)
    /\ \/ stage[c] = "link" /\ reply[c] = "ok" /\ Enter(c, "transfer")
       \/ stage[c] = "main" /\ reply[c] = "accepted" /\ Enter(c, "poll")
    /\ UNCHANGED <<kind, links, polls, result, tokens, disk, faults>>

\* Mutant: the polling has no end.
PollForever(c) == TRUE

PollAgain(c) == polls[c] < MaxPolls

\* poll_operation_inner finds the operation in progress.
HandlePending(c) ==
    /\ pc[c] = "reply" /\ reply[c] = "pending"
    /\ IF PollAgain(c)
       THEN /\ Enter(c, "poll")
            /\ polls' = [polls EXCEPT ![c] = IF @ < MaxPolls THEN @ + 1 ELSE @]
            /\ UNCHANGED <<links, result>>
       ELSE Return(c, "transient")
    /\ UNCHANGED <<kind, tokens, disk, faults>>

\* RetryPolicy::should_retry.  The body of a 202 is decoded after the loop, and so is
\* the content of a download: an error there is not retried.
AfterLoop(c) == reply[c] = "garbled" /\ stage[c] \in {"main", "transfer"}
             /\ kind[c] \in {"delete", "move", "download"}

HandleTransient(c) ==
    /\ pc[c] = "reply" /\ Retryable(reply[c])
    /\ IF attempt[c] < Attempts /\ ~AfterLoop(c)
       THEN /\ attempt' = [attempt EXCEPT ![c] = @ + 1]
            /\ pc' = [pc EXCEPT ![c] = "load"]
            /\ reply' = [reply EXCEPT ![c] = "none"]
            /\ UNCHANGED <<stage, links, refreshed, used, polls, result>>
       ELSE Return(c, "transient")
    /\ UNCHANGED <<kind, tokens, disk, faults>>

RetryableUploadConflict(c) == stage[c] = "transfer" /\ reply[c] = "conflict"

\* upload_inner asks for a fresh link, as often as RetryPolicy allows.
HandleConflict(c) ==
    /\ pc[c] = "reply" /\ RetryableUploadConflict(c)
    /\ IF links[c] < Attempts
       THEN /\ links' = [links EXCEPT ![c] = @ + 1] /\ Enter(c, "link")
            /\ UNCHANGED <<polls, result>>
       ELSE Return(c, "conflict")
    /\ UNCHANGED <<kind, tokens, disk, faults>>

\* The first 401 of a loop is answered with a refresh, if there is an OAuth flow and a
\* refresh token.
MayRefresh(c) ==
    reply[c] = "unauthorized" /\ ~refreshed[c] /\ flow /\ used[c] \in renewable

HandleRejection(c) ==
    /\ pc[c] = "reply"
    /\ reply[c] \in {"unauthorized", "failed", "rejected", "forbidden", "locked", "quota",
                     "not_found"}
    /\ ~MayRefresh(c)
    /\ Return(c, ErrorKind(reply[c]))
    /\ UNCHANGED <<kind, tokens, disk, faults>>

\* The refresh token goes to the OAuth server.
HandleUnauthorized(c) ==
    /\ pc[c] = "reply" /\ MayRefresh(c)
    /\ pc' = [pc EXCEPT ![c] = "refresh"] /\ reply' = [reply EXCEPT ![c] = "none"]
    /\ UNCHANGED <<kind, stage, attempt, links, refreshed, used, polls, result, tokens, disk,
                   faults>>

-----------------------------------------------------------------------------
(* Tokens.                                                                   *)

\* refresh_access_token: the answer may come without a refresh token, and
\* into_stored_token then drops the old one.
Refresh(c) ==
    /\ pc[c] = "refresh" /\ issued < MaxTokens
    /\ issued' = issued + 1
    /\ \/ renewable' = renewable \cup {issued'} /\ UNCHANGED faults
       \/ Fault("bare_token") /\ UNCHANGED renewable
    /\ used' = [used EXCEPT ![c] = issued']
    /\ pc' = [pc EXCEPT ![c] = "save"]
    /\ UNCHANGED <<kind, stage, attempt, links, refreshed, polls, reply, result, flow, stored,
                   expired, expiries, disk>>

\* post_token_form is not retried; refresh_stored_token passes the error on.
RefreshFails(c) ==
    /\ pc[c] = "refresh" /\ Fault("oauth")
    /\ \E r \in {"transient", "permanent", "auth"} : Return(c, r)
    /\ UNCHANGED <<kind, tokens, disk>>

\* Mutant: the new token is not stored.
KeepOldToken(c) == stored

\* save_token, whatever has been stored meanwhile.
SavedToken(c) == used[c]

\* The refresh uses up an attempt: after the last one the loop is over.
Save(c) ==
    /\ pc[c] = "save"
    /\ stored' = SavedToken(c)
    /\ IF attempt[c] < Attempts
       THEN /\ attempt' = [attempt EXCEPT ![c] = @ + 1]
            /\ refreshed' = [refreshed EXCEPT ![c] = TRUE]
            /\ pc' = [pc EXCEPT ![c] = "load"]
            /\ UNCHANGED <<stage, links, used, polls, reply, result>>
       ELSE Return(c, "transient")
    /\ UNCHANGED <<kind, flow, issued, renewable, expired, expiries, disk, faults>>

SaveFails(c) ==
    /\ pc[c] = "save" /\ Fault("keyring")
    /\ Return(c, "auth")
    /\ UNCHANGED <<kind, tokens, disk>>

NewToken(hasRefresh) ==
    /\ issued' = issued + 1 /\ stored' = issued'
    /\ renewable' = IF hasRefresh THEN renewable \cup {issued'} ELSE renewable
    /\ UNCHANGED <<call, flow, expired, expiries, disk>>

\* auth login: exchange_code gets a token, with or without refresh_token.
Login(hasRefresh) == Fault("account") /\ issued < MaxTokens /\ NewToken(hasRefresh)

\* auth import-yacli: the first candidate that the keyring has; without one nothing
\* changes.  parse_yacli_disk_token finds a refresh_token in JSON, none in a plain token.
ImportYacli(format) ==
    /\ Fault("account") /\ issued < MaxTokens
    /\ NewToken(format = "json")

\* auth logout.
Logout ==
    /\ Fault("account") /\ stored # 0
    /\ stored' = 0
    /\ UNCHANGED <<call, flow, issued, renewable, expired, expiries, disk>>

Expire ==
    /\ expiries < MaxExpiries /\ expired < issued
    /\ expired' = issued /\ expiries' = expiries + 1
    /\ UNCHANGED <<call, flow, stored, issued, renewable, disk, faults>>

-----------------------------------------------------------------------------
(* The disk.                                                                 *)

Answer(c, r) ==
    /\ reply' = [reply EXCEPT ![c] = r] /\ pc' = [pc EXCEPT ![c] = "reply"]
    /\ UNCHANGED <<kind, stage, attempt, links, refreshed, used, polls, result>>

Authorized(c) == stage[c] = "transfer" \/ used[c] > expired

\* The request takes effect, with the answer r.
Effective(c, r) ==
    \/ /\ stage[c] = "link" \/ kind[c] \in {"read", "download"}
       /\ r = "ok" /\ UNCHANGED disk
    \/ /\ <<stage[c], kind[c]>> \in {<<"transfer", "upload">>, <<"main", "create">>}
       /\ r = IF done[c] /\ kind[c] = "create" THEN "exists" ELSE "ok"
       /\ done' = [done EXCEPT ![c] = TRUE] /\ UNCHANGED op
    \/ /\ stage[c] = "main" /\ kind[c] \in {"delete", "move"} /\ op[c] # "pending"
       /\ \/ done[c] /\ r = "not_found" /\ UNCHANGED disk
          \/ ~done[c] /\ r = "ok" /\ done' = [done EXCEPT ![c] = TRUE] /\ UNCHANGED op
          \/ ~done[c] /\ r = "accepted" /\ op' = [op EXCEPT ![c] = "pending"] /\ UNCHANGED done
    \/ /\ stage[c] = "main" /\ op[c] = "pending"
       /\ r = "locked" /\ UNCHANGED disk
    \/ /\ stage[c] = "poll"
       /\ r = IF op[c] = "pending" THEN "pending" ELSE IF op[c] = "failed" THEN "failed" ELSE "ok"
       /\ UNCHANGED disk

Serve(c) ==
    /\ pc[c] = "sent" /\ Authorized(c)
    /\ \E r \in Replies : Effective(c, r) /\ Answer(c, r)
    /\ UNCHANGED <<tokens, faults>>

Unauthorized(c) ==
    /\ pc[c] = "sent" /\ ~Authorized(c)
    /\ Answer(c, "unauthorized")
    /\ UNCHANGED <<tokens, disk, faults>>

\* The bodies of links, resources and operations, and what is downloaded.  Of the
\* other answers only a 202 is read.
ReadsBody(c) ==
    \/ stage[c] \in {"link", "poll"} \/ kind[c] \in {"read", "download"}
    \/ kind[c] \in {"delete", "move"} /\ op'[c] = "pending"

\* The request or its answer gets lost, or the body of a success cannot be read.
Lost(c) ==
    /\ pc[c] = "sent"
    /\ \/ /\ Fault("transient") /\ Answer(c, "transient")
          /\ UNCHANGED disk \/ (Authorized(c) /\ \E r \in Replies : Effective(c, r))
       \/ /\ Fault("garbled") /\ Answer(c, "garbled") /\ Authorized(c)
          /\ \E r \in {"ok", "accepted", "pending"} : Effective(c, r)
          /\ ReadsBody(c)
    /\ UNCHANGED tokens

\* Rejected without effect.  An operation may go on although its URL is not known.
Rejected(c) ==
    /\ pc[c] = "sent" /\ Authorized(c)
    /\ \/ Fault("rejected") /\ \E r \in {"rejected", "forbidden"} : Answer(c, r)
       \/ Fault("forgotten") /\ stage[c] = "poll" /\ Answer(c, "not_found")
       \/ Fault("quota") /\ kind[c] = "upload" /\ Answer(c, "quota")
       \/ Fault("conflict") /\ kind[c] = "upload" /\ stage[c] = "transfer" /\ Answer(c, "conflict")
    /\ UNCHANGED <<tokens, disk>>

\* An asynchronous operation ends, whether or not somebody polls it.
OperationEnds(c) ==
    /\ op[c] = "pending"
    /\ \/ /\ op' = [op EXCEPT ![c] = "success"] /\ done' = [done EXCEPT ![c] = TRUE]
          /\ UNCHANGED faults
       \/ op' = [op EXCEPT ![c] = "failed"] /\ Fault("operation") /\ UNCHANGED done
    /\ UNCHANGED <<call, tokens>>

-----------------------------------------------------------------------------

OwnSteps(c) ==
    \/ Send(c) \/ SendTransfer(c) \/ NoToken(c) \/ NoSource(c)
    \/ HandleSuccess(c) \/ HandleRead(c) \/ HandleNext(c) \/ HandlePending(c) \/ HandleTransient(c)
    \/ HandleConflict(c) \/ HandleRejection(c) \/ HandleUnauthorized(c)
    \/ Save(c) \/ SaveFails(c)
    \/ Serve(c) \/ Unauthorized(c) \/ Lost(c) \/ Rejected(c)

CallSteps(c) == OwnSteps(c) \/ Refresh(c) \/ RefreshFails(c)

Next ==
    \/ \E c \in Calls : CallSteps(c) \/ OperationEnds(c) \/ \E k \in Kinds : Begin(c, k)
    \/ \E hasRefresh \in BOOLEAN : Login(hasRefresh)
    \/ \E format \in {"json", "plain"} : ImportYacli(format)
    \/ Logout \/ Expire

\* A call goes on, and every request to the disk is answered or times out: the clients
\* for the API and for transfers are built with a timeout.  The client of OAuthFlow is
\* not, so a refresh need not come back, and nothing is assumed of asynchronous operations.
Spec == Init /\ [][Next]_vars /\ \A c \in Calls : WF_vars(OwnSteps(c))

-----------------------------------------------------------------------------
(* Properties.                                                               *)

\* What the engines rely on when they write the database: a call that returned Ok has
\* had its effect, through whatever retries, and has left no operation running.
OkMeansDone ==
    \A c \in Calls :
        result[c] = "ok" /\ kind[c] \in Mutating => done[c] /\ op[c] # "pending"

\* apply_deletes takes NotFound for success.  When the request itself was answered with it,
\* also after answers that were lost and beside an operation of an earlier attempt, the
\* resource is gone indeed.  The NotFound of a poll says only that an operation has been
\* accepted, which may be running or may have failed: poll_operation_inner passes on the
\* 404 of its URL.
NotFoundMeansGone ==
    [][\A c \in Calls :
          /\ kind[c] \in {"delete", "move"}
          /\ result[c] # "not_found" /\ result'[c] = "not_found"
          => done[c] \/ (stage[c] = "poll" /\ op[c] # "none")]_vars

\* send_authorized of a client with an OAuth flow refreshes the token on 401: when the
\* token expires once, whatever calls notice it at the same time, no call fails for it,
\* as long as there is a second attempt.  With one attempt the refresh uses it up.
ExpiryCostsNoCall ==
    flow /\ Attempts >= 2 /\ faults = 0 =>
        \A c \in Calls :
            /\ result[c] \notin {"auth", "permanent", "conflict"}
            /\ result[c] = "transient" => polls[c] = MaxPolls /\ op[c] # "none"

\* Every call returns, unless it waits for good for the OAuth server: the retries, the
\* fresh links, the refreshes and the polling of an operation that never ends are all
\* bounded, and no call waits for another one.
CallsReturn ==
    \A c \in Calls : pc[c] # "idle" ~> (pc[c] = "done" \/ [](pc[c] = "refresh"))

=============================================================================
