---------------------- MODULE MTRequestMessageService ----------------------
(***************************************************************************)
(* The RPC request queue of one MTProto instance (MTRequestMessageService)  *)
(* with the context objects it keeps per request (MTRequestContext,         *)
(* MTRequestErrorContext, MTDropResponseContext).                           *)
(*                                                                          *)
(* Every method of the service runs on the manager queue, so every method   *)
(* is one atomic action.  MTProto builds a transaction from the service's   *)
(* messages and hands it to a transport, which answers later and in pieces  *)
(* (one completion per payload) through the `completion' block the service  *)
(* created.  The set `transactions' holds those blocks: between `prepared'  *)
(* and `completion' anything else may happen on the manager queue.          *)
(*                                                                          *)
(* MTProto, the transport and the server are an environment here: they may  *)
(* interleave completions, answers, acknowledgements, failures and session  *)
(* changes in any order, a completion may name a connection that is already *)
(* dead, and an answer may be late, repeated, or for an unwanted message.   *)
(***************************************************************************)
EXTENDS Naturals

CONSTANTS
  Requests,          \* the MTRequest objects clients will ever add
  DependsOn,         \* request |-> the requests its shouldDependOnRequest accepts
  PasswordRequests,  \* requests with dependsOnPasswordEntry
  Connections,       \* internalIds of TCP connections, used as transaction ids
  HasRequiredAuthToken, \* MTProto.requiredAuthToken # nil
  HasApiInitializationHash, \* authInfo was stored with the current hash
  NoTimer,           \* _requestsServiceTimer is nil
  MaxMessageId,      \* bound: client message ids that are ever generated
  MaxTransactions    \* bound: transactions that are ever built

ASSUME ConstantsAssumption ==
  /\ DependsOn \in [Requests -> SUBSET Requests]
  /\ PasswordRequests \subseteq Requests
  /\ Connections \subseteq Nat \ {0}
  /\ HasRequiredAuthToken \in BOOLEAN
  /\ HasApiInitializationHash \in BOOLEAN
  /\ NoTimer \notin Requests
  /\ MaxMessageId \in Nat
  /\ MaxTransactions \in Nat

VARIABLES
  position,           \* request |-> its rank in _requests; 0: not in the array
  arrivals,           \* how many requests were added so far
  requestContext,     \* request |-> MTRequestContext or NoContext (nil)
  executeTime,        \* request |-> errorContext, and its minimalExecuteTime
  waitingForTokenExport, \* request |-> errorContext.waitingForTokenExport
  dropResponseContexts,  \* dropMessageId |-> messageId of its rpc_drop_answer
  requestsServiceTimer,  \* the request whose deadline the timer is set to
  passwordInputRequired, \* MTContext: this datacenter waits for a password
  apiInitialized,     \* authInfo's apiInitializationHash is the current one
  transactionRequested, \* requestTransportTransaction was called and not yet served
  messages,           \* message id |-> what the message carries (history)
  transactions,       \* the transactions with payloads not yet completed
  built,              \* how many transactions were built so far
  completed,          \* request |-> how often `completed' was called (history)
  cancelled           \* requests removed by their clients (history)

serviceVars == <<position, arrivals, requestContext, executeTime,
                 waitingForTokenExport, dropResponseContexts,
                 requestsServiceTimer, passwordInputRequired, apiInitialized,
                 transactionRequested, messages, transactions, built, completed,
                 cancelled>>

-----------------------------------------------------------------------------
(* Data *)

None == 0                       \* nil transaction id, message id 0

MessageIds == 1 .. MaxMessageId

\* MTRequestContext, nil when it has no message id.  The server's id of an answer (responseMessageId) is
\* abstracted to the id of the message it answers.
RequestContext ==
  [messageId : MessageIds \cup {None}, transactionId : Connections \cup {None},
   waitingForMessageId : BOOLEAN, delivered : BOOLEAN,
   responseMessageId : MessageIds \cup {None}, willInitializeApi : BOOLEAN]

NewContext(id, tid, waiting, willInit) ==
  [messageId |-> id, transactionId |-> tid, waitingForMessageId |-> waiting,
   delivered |-> FALSE, responseMessageId |-> None, willInitializeApi |-> willInit]

NoContext == NewContext(None, None, FALSE, FALSE)

\* "nil": no errorContext; "due": minimalExecuteTime <= now; "ahead": > now
ExecuteTimes == {"nil", "due", "ahead"}

\* What a message id was generated for: a request, with the id that its
\* invokeAfterMsg prefix names, or the rpc_drop_answer that refers to a message
\* of the request.  written: a transport accepted a payload with it.
Message == [request : Requests, isDrop : BOOLEAN,
            refersTo : MessageIds \cup {None}, written : BOOLEAN]

\* The state captured by the blocks of one MTMessageTransaction, and the ids
\* whose payload is not completed yet; it lives until its last payload is, which
\* may hold messages of other services only.
Transaction ==
  [no : 1 .. MaxTransactions,
   requestIds : UNION {[S -> MessageIds] : S \in SUBSET Requests},
   dropIds : UNION {[S -> MessageIds] : S \in SUBSET MessageIds},
   willInitializeApi : BOOLEAN, pending : SUBSET MessageIds]

Queued == {r \in Requests : position[r] # 0}
HasContext(r) == requestContext[r].messageId # None
Generated == DOMAIN messages
IdsOf(f) == {f[x] : x \in DOMAIN f}

\* mtProtoMessageTransaction skips a request that waits for a password, a
\* deadline or a token, and one whose message is being sent, was accepted by a
\* connection, or was acknowledged.
Sendable(r) ==
  /\ r \in Queued
  /\ ~(r \in PasswordRequests /\ passwordInputRequired)
  /\ executeTime[r] # "ahead"
  /\ ~waitingForTokenExport[r]
  /\ \/ ~HasContext(r)
     \/ /\ ~requestContext[r].waitingForMessageId
        /\ ~requestContext[r].delivered
        /\ requestContext[r].transactionId = None

ToSend == {r \in Requests : Sendable(r)}

\* decorateRequestData: the last earlier request shouldDependOnRequest accepts
Dependency(r) ==
  LET earlier == {q \in Queued : q \in DependsOn[r] /\ position[q] < position[r]}
  IN  {q \in earlier : \A p \in earlier : position[p] <= position[q]}

\* Mutant of InvokeAfter: only messages of earlier transactions are named.
InvokeAfterSentOnly(r, requestIds) ==
  IF Dependency(r) = {} THEN None
  ELSE requestContext[CHOOSE q \in Dependency(r) : TRUE].messageId

\* The id invokeAfterMsg names: the dependency's current message, known now
\* (decorateRequestData) or prepared earlier in the transaction being built
\* (dynamicDecorator).  A dependency that is held back leaves no prefix.
InvokeAfter(r, requestIds) ==
  LET id(q) == IF HasContext(q) THEN requestContext[q].messageId
               ELSE IF q \in DOMAIN requestIds THEN requestIds[q] ELSE None
  IN  IF Dependency(r) = {} THEN None ELSE id(CHOOSE q \in Dependency(r) : TRUE)

-----------------------------------------------------------------------------
TypeOK ==
  /\ arrivals \in Nat
  /\ position \in [Requests -> Nat]
  /\ requestContext \in [Requests -> RequestContext]
  /\ executeTime \in [Requests -> ExecuteTimes]
  /\ waitingForTokenExport \in [Requests -> BOOLEAN]
  /\ DOMAIN dropResponseContexts \subseteq MessageIds
  /\ dropResponseContexts \in
       [DOMAIN dropResponseContexts -> MessageIds \cup {None}]
  /\ requestsServiceTimer \in Requests \cup {NoTimer}
  /\ passwordInputRequired \in BOOLEAN
  /\ apiInitialized \in BOOLEAN
  /\ transactionRequested \in BOOLEAN
  /\ Generated \subseteq MessageIds
  /\ messages \in [Generated -> Message]
  /\ transactions \subseteq Transaction
  /\ built \in 0 .. MaxTransactions
  /\ completed \in [Requests -> Nat]
  /\ cancelled \subseteq Requests

Init ==
  /\ position = [r \in Requests |-> 0]
  /\ arrivals = 0
  /\ requestContext = [r \in Requests |-> NoContext]
  /\ executeTime = [r \in Requests |-> "nil"]
  /\ waitingForTokenExport = [r \in Requests |-> FALSE]
  /\ dropResponseContexts = [m \in {} |-> None]
  /\ requestsServiceTimer = NoTimer
  /\ passwordInputRequired = FALSE
  /\ apiInitialized = HasApiInitializationHash
  /\ transactionRequested = FALSE
  /\ messages = [m \in {} |-> None]
  /\ transactions = {}
  /\ built = 0
  /\ completed = [r \in Requests |-> 0]
  /\ cancelled = {}

-----------------------------------------------------------------------------
(* Effects shared by several methods, on the new values of the variables *)

\* [mtProto requestTransportTransaction] when cond holds; MTProto coalesces the
\* calls until it asks the service for its messages.
RequestTransactionIf(cond) ==
  transactionRequested' = (transactionRequested \/ cond)

\* updateRequestsTimer, which removal and every matched answer end with: the
\* timer is (re)set to the earliest deadline ahead, or dropped when there is
\* none, and a request whose deadline passed asks for a transaction.  Deadlines
\* are not ordered in the model: any of those ahead may be the earliest.
UpdateRequestsTimer(alsoRequests) ==
  LET held == {r \in Requests : /\ position'[r] # 0
                                /\ executeTime'[r] # "nil"
                                /\ requestContext'[r].messageId = None}
      ahead == {r \in held : executeTime'[r] = "ahead"}
  IN  /\ \/ ahead = {} /\ requestsServiceTimer' = NoTimer
         \/ requestsServiceTimer' \in ahead
      /\ RequestTransactionIf(alsoRequests \/ held # ahead)

-----------------------------------------------------------------------------
(* Calls of the service's clients *)

AddRequest(r) ==
  /\ position[r] = 0
  /\ completed[r] = 0 /\ r \notin cancelled        \* a client adds it once
  /\ arrivals' = arrivals + 1
  /\ position' = [position EXCEPT ![r] = arrivals + 1]
  /\ RequestTransactionIf(TRUE)
  /\ UNCHANGED <<requestContext, executeTime, waitingForTokenExport,
                 dropResponseContexts, requestsServiceTimer,
                 passwordInputRequired, apiInitialized, messages, transactions,
                 built, completed, cancelled>>

\* Mutant of RemoveRequestByInternalId: a drop context for every cancelled
\* request, also for one that has no context.
RemoveRequestAlwaysDrops(r) ==
  /\ r \in Queued
  /\ position' = [position EXCEPT ![r] = 0]
  /\ requestContext' = [requestContext EXCEPT ![r] = NoContext]
  /\ dropResponseContexts' =
       LET new == {requestContext[r].messageId}
       IN  [m \in DOMAIN dropResponseContexts \cup new |->
              IF m \in new THEN None ELSE dropResponseContexts[m]]
  /\ cancelled' = cancelled \cup {r}
  /\ UNCHANGED <<arrivals, executeTime, waitingForTokenExport,
                 passwordInputRequired, apiInitialized, messages, transactions,
                 built, completed>>
  /\ UpdateRequestsTimer(TRUE)

\* A cancelled request that has a context leaves a drop context behind, so that
\* the server is told to forget the answer.
RemoveRequestByInternalId(r) ==
  /\ r \in Queued
  /\ position' = [position EXCEPT ![r] = 0]
  /\ requestContext' = [requestContext EXCEPT ![r] = NoContext]
  /\ dropResponseContexts' =
       LET new == IF HasContext(r) THEN {requestContext[r].messageId} ELSE {}
       IN  [m \in DOMAIN dropResponseContexts \cup new |->
              IF m \in new THEN None ELSE dropResponseContexts[m]]
  /\ cancelled' = cancelled \cup {r}
  /\ UNCHANGED <<arrivals, executeTime, waitingForTokenExport,
                 passwordInputRequired, apiInitialized, messages, transactions,
                 built, completed>>
  /\ UpdateRequestsTimer(HasContext(r))

-----------------------------------------------------------------------------
(* Building and completing transactions *)

\* Mutants of FreshIds: ids that may repeat within a transaction, and ids that
\* may repeat those of an earlier transaction.
FreshIdsRepeated(requestIds, dropIds) ==
  LET freshRequests == {r \in DOMAIN requestIds : ~HasContext(r)}
      new == {requestIds[r] : r \in freshRequests}
  IN  /\ \E n \in MessageIds \cup {0} : Generated \cup new = 1 .. n
      /\ new \cap Generated = {}
      /\ \A r \in DOMAIN requestIds \ freshRequests :
           requestIds[r] = requestContext[r].messageId
FreshIdsReused(requestIds, dropIds) ==
  LET freshRequests == {r \in DOMAIN requestIds : ~HasContext(r)}
      new == {requestIds[r] : r \in freshRequests}
  IN  /\ \E n \in MessageIds \cup {0} : Generated \cup new = 1 .. n
      /\ \A r, q \in freshRequests :
           position[r] < position[q] => requestIds[r] < requestIds[q]
      /\ \A r \in DOMAIN requestIds \ freshRequests :
           requestIds[r] = requestContext[r].messageId

\* Message ids for the messages that have none yet, requests in the order of
\* _requests and then drops, above every id generated before.
FreshIds(requestIds, dropIds) ==
  LET freshRequests == {r \in DOMAIN requestIds : ~HasContext(r)}
      freshDrops == {d \in DOMAIN dropIds : dropResponseContexts[d] = None}
      new == {requestIds[r] : r \in freshRequests} \cup {dropIds[d] : d \in freshDrops}
  IN  /\ \E n \in MessageIds \cup {0} : Generated \cup new = 1 .. n
      /\ new \cap Generated = {}
      /\ \A r, q \in freshRequests :
           position[r] < position[q] => requestIds[r] < requestIds[q]
      /\ \A r \in freshRequests, d \in freshDrops : requestIds[r] < dropIds[d]
      /\ \A d, e \in freshDrops : d # e => dropIds[d] # dropIds[e]
      /\ \A r \in DOMAIN requestIds \ freshRequests :
           requestIds[r] = requestContext[r].messageId
      /\ \A d \in DOMAIN dropIds \ freshDrops : dropIds[d] = dropResponseContexts[d]

\* What message m of the transaction carries: the request decorated for this
\* transaction, or the rpc_drop_answer of a drop context.
Carried(m, requestIds, dropIds) ==
  LET written == m \in Generated /\ messages[m].written
  IN  IF m \in IdsOf(requestIds)
      THEN LET r == CHOOSE q \in DOMAIN requestIds : requestIds[q] = m
           IN  [request |-> r, isDrop |-> FALSE,
                refersTo |-> InvokeAfter(r, requestIds), written |-> written]
      ELSE LET d == CHOOSE e \in DOMAIN dropIds : dropIds[e] = m
           IN  [request |-> messages[d].request, isDrop |-> TRUE,
                refersTo |-> d, written |-> written]

\* The `prepared' block: every request of the transaction gets a context that
\* waits for the transport.
Prepare(requestIds, dropIds) ==
  LET all == IdsOf(requestIds) \cup IdsOf(dropIds)
  IN  /\ FreshIds(requestIds, dropIds)
      /\ messages' = [m \in Generated \cup all |->
                        IF m \in all THEN Carried(m, requestIds, dropIds) ELSE messages[m]]
      /\ requestContext' =
           [r \in Requests |->
              IF r \in DOMAIN requestIds
              THEN NewContext(requestIds[r], None, TRUE, ~apiInitialized)
              ELSE requestContext[r]]
      /\ transactions' = transactions \cup
           {[no |-> built + 1, requestIds |-> requestIds, dropIds |-> dropIds,
             willInitializeApi |-> ~apiInitialized, pending |-> all]}

\* mtProtoMessageTransaction, and `prepared', which MTProto calls in the same
\* pass (transportReadyForTransaction): every sendable request and every drop
\* context is put in the transaction.
MessageTransaction ==
  /\ ToSend \cup DOMAIN dropResponseContexts # {}
  /\ built < MaxTransactions
  /\ \E requestIds \in [ToSend -> MessageIds],
        dropIds \in [DOMAIN dropResponseContexts -> MessageIds] :
       Prepare(requestIds, dropIds)
  /\ built' = built + 1
  /\ transactionRequested' = FALSE
  /\ UNCHANGED <<position, arrivals, executeTime, waitingForTokenExport,
                 dropResponseContexts, requestsServiceTimer,
                 passwordInputRequired, apiInitialized, completed, cancelled>>

\* MTProto asked and the service has nothing to send (it returns nil).
NothingToSend ==
  /\ transactionRequested
  /\ ToSend \cup DOMAIN dropResponseContexts = {}
  /\ transactionRequested' = FALSE
  /\ UNCHANGED <<position, arrivals, requestContext, executeTime,
                 waitingForTokenExport, dropResponseContexts,
                 requestsServiceTimer, passwordInputRequired, apiInitialized,
                 messages, transactions, built, completed, cancelled>>

\* The completion block of transaction t when a transport accepted the payload
\* with the ids `payload' on connection c.  Every request of the transaction
\* stops waiting, also those of other payloads; those of this payload get a new
\* context, whatever happened to their context in the meantime.
TransactionCompleted(t, payload, c) ==
  /\ requestContext' =
       [r \in Requests |->
          IF r \in Queued /\ r \in DOMAIN t.requestIds
          THEN IF t.requestIds[r] \in payload
               THEN NewContext(t.requestIds[r], c, FALSE, t.willInitializeApi)
               ELSE [requestContext[r] EXCEPT !.waitingForMessageId = FALSE]
          ELSE requestContext[r]]
  /\ dropResponseContexts' =
       [d \in DOMAIN dropResponseContexts |->
          IF d \in DOMAIN t.dropIds /\ t.dropIds[d] \in payload
          THEN t.dropIds[d] ELSE dropResponseContexts[d]]
  /\ messages' = [m \in Generated |->
                    IF m \in payload THEN [messages[m] EXCEPT !.written = TRUE]
                    ELSE messages[m]]

\* Mutant of TransactionFailed: waitingForMessageId is left set.
TransactionFailedStillWaiting(t) ==
  UNCHANGED <<requestContext, dropResponseContexts, messages>>

\* completion(nil, nil, nil): the payload was not accepted.
TransactionFailed(t) ==
  /\ requestContext' =
       [r \in Requests |->
          IF r \in Queued /\ r \in DOMAIN t.requestIds
          THEN [requestContext[r] EXCEPT !.waitingForMessageId = FALSE]
          ELSE requestContext[r]]
  /\ UNCHANGED <<dropResponseContexts, messages>>

\* A payload (one container, or one message) of t is completed.  A payload may
\* hold none of the service's messages: the transaction is shared by all message
\* services of the MTProto, and every payload runs every service's completion.
\* last: no payload is left, neither of this service nor of another one.
CompletePayload(t, payload, last, accepted) ==
  /\ payload \subseteq t.pending
  /\ last => payload = t.pending
  /\ IF accepted THEN \E c \in Connections : TransactionCompleted(t, payload, c)
     ELSE TransactionFailed(t)
  /\ transactions' =
       (transactions \ {t}) \cup
         (IF last THEN {} ELSE {[t EXCEPT !.pending = @ \ payload]})
  /\ UNCHANGED <<position, arrivals, executeTime, waitingForTokenExport,
                 requestsServiceTimer, passwordInputRequired, apiInitialized,
                 transactionRequested, built, completed, cancelled>>

-----------------------------------------------------------------------------
(* Callbacks of MTProto for what the server sent *)

\* rpc_result with an rpc_drop_answer: the drop context has done its work.
ReceivedDropResult(m) ==
  /\ m \in Generated /\ messages[m].written /\ messages[m].isDrop
  /\ dropResponseContexts' =
       [d \in {e \in DOMAIN dropResponseContexts : dropResponseContexts[e] # m} |->
          dropResponseContexts[d]]
  /\ UNCHANGED <<position, arrivals, requestContext, executeTime,
                 waitingForTokenExport, requestsServiceTimer,
                 passwordInputRequired, apiInitialized, transactionRequested,
                 messages, transactions, built, completed, cancelled>>

\* The request an rpc_result for message m is routed to.
Answers(m) == {r \in Queued : HasContext(r) /\ requestContext[r].messageId = m}

\* Mutant of FinishRequest: the request is not removed from _requests.
FinishRequestKept(r) ==
  /\ completed' = [completed EXCEPT ![r] = @ + 1]
  /\ UNCHANGED <<position, executeTime, waitingForTokenExport>>

\* completed(result, error) and removal from _requests.
FinishRequest(r) ==
  /\ position' = [position EXCEPT ![r] = 0]
  /\ completed' = [completed EXCEPT ![r] = @ + 1]
  /\ UNCHANGED <<executeTime, waitingForTokenExport>>

\* The request stays in _requests and is sent again, with a new message id, at
\* its minimalExecuteTime (which a FLOOD_WAIT_0 leaves in the past).
RestartRequest(r, when) ==
  /\ executeTime' = [executeTime EXCEPT ![r] = when]
  /\ UNCHANGED <<position, completed, waitingForTokenExport>>

\* An answer clears the context first; what else happens is each action's own.
AnswerFor(r) ==
  /\ HasContext(r) /\ r \in Queued
  /\ messages[requestContext[r].messageId].written
  /\ requestContext' = [requestContext EXCEPT ![r] = NoContext]
  /\ UNCHANGED <<arrivals, dropResponseContexts, messages, transactions, built,
                 cancelled>>

\* A result.  The first one for a message with initConnection stores the hash.
ReceivedResult(r) ==
  /\ AnswerFor(r)
  /\ FinishRequest(r)
  /\ apiInitialized' = (apiInitialized \/ requestContext[r].willInitializeApi)
  /\ UNCHANGED passwordInputRequired
  /\ UpdateRequestsTimer(FALSE)

\* 401 SESSION_PASSWORD_NEEDED: the request fails, and unless it passes the
\* error through, the requests that depend on the password are held back.
ReceivedPasswordNeeded(r, passthrough) ==
  /\ AnswerFor(r)
  /\ FinishRequest(r)
  /\ passwordInputRequired' = (passwordInputRequired \/ ~passthrough)
  /\ UNCHANGED apiInitialized
  /\ UpdateRequestsTimer(FALSE)

\* 401 SESSION_REVOKED or AUTH_KEY_UNREGISTERED.
ReceivedUnauthorized(r) ==
  /\ AnswerFor(r)
  /\ IF HasRequiredAuthToken
     THEN /\ waitingForTokenExport' = [waitingForTokenExport EXCEPT ![r] = TRUE]
          /\ executeTime' = [executeTime EXCEPT ![r] = IF @ = "nil" THEN "due" ELSE @]
          /\ UNCHANGED <<position, completed>>
     ELSE FinishRequest(r)
  /\ UNCHANGED <<apiInitialized, passwordInputRequired>>
  /\ UpdateRequestsTimer(FALSE)

\* 500, -500, an unparsable result, 420 or FLOOD_WAIT_x: whether the request is
\* tried again is up to shouldContinueExecutionWithErrorContext.
ReceivedRetryableError(r, continues, when) ==
  /\ AnswerFor(r)
  /\ IF continues THEN RestartRequest(r, when) ELSE FinishRequest(r)
  /\ UNCHANGED <<apiInitialized, passwordInputRequired>>
  /\ UpdateRequestsTimer(FALSE)

\* Any other error; 400 CONNECTION_NOT_INITED also forgets the hash.
ReceivedFinalError(r, connectionNotInited) ==
  /\ AnswerFor(r)
  /\ FinishRequest(r)
  /\ apiInitialized' = (apiInitialized /\ ~connectionNotInited)
  /\ UNCHANGED passwordInputRequired
  /\ UpdateRequestsTimer(FALSE)

\* An rpc_result no context matches (late, repeated, or for a cancelled
\* request) only re-evaluates the timer.
ReceivedUnmatched(m) ==
  /\ m \in Generated /\ messages[m].written /\ ~messages[m].isDrop
  /\ Answers(m) = {}
  /\ UNCHANGED <<position, arrivals, requestContext, executeTime,
                 waitingForTokenExport, dropResponseContexts,
                 passwordInputRequired, apiInitialized, messages, transactions,
                 built, completed, cancelled>>
  /\ UpdateRequestsTimer(FALSE)

-----------------------------------------------------------------------------
(* Callbacks of MTProto for acknowledgements and failures *)

\* Replace the contexts of the requests in S and ask for a transaction if cond.
SetContexts(S, Ctx(_), cond) ==
  /\ requestContext' = [r \in Requests |-> IF r \in S THEN Ctx(r) ELSE requestContext[r]]
  /\ RequestTransactionIf(cond)
  /\ UNCHANGED <<position, arrivals, executeTime, waitingForTokenExport,
                 requestsServiceTimer, passwordInputRequired, apiInitialized,
                 messages, transactions, built, completed, cancelled>>

ClearContext(r) == NoContext

\* msgs_ack for message m: it will not be sent again on a new connection.
MessageDeliveryConfirmed(m) ==
  /\ Answers(m) # {}
  /\ LET Delivered(r) == [requestContext[r] EXCEPT !.delivered = TRUE]
     IN  SetContexts(Answers(m), Delivered, FALSE)
  /\ UNCHANGED dropResponseContexts

\* bad_msg_notification for message m, or for the container it was sent in.
MessageDeliveryFailed(m) ==
  LET drops == {d \in DOMAIN dropResponseContexts : dropResponseContexts[d] = m}
  IN  /\ m \in Generated /\ messages[m].written
      /\ SetContexts(Answers(m), ClearContext, Answers(m) \cup drops # {})
      /\ dropResponseContexts' = [d \in DOMAIN dropResponseContexts |->
                                    IF d \in drops THEN None ELSE dropResponseContexts[d]]

\* The connections C closed: what was accepted by them has to be sent again.
TransactionsMayHaveFailed(C) ==
  LET failed == {r \in Queued : requestContext[r].transactionId \in C}
      Unsent(r) == [requestContext[r] EXCEPT !.transactionId = None]
  IN  /\ None \notin C
      /\ SetContexts(failed, Unsent, failed # {})
      /\ UNCHANGED dropResponseContexts

\* msg_detailed_info: the answer to m is there and will be asked for.
ShouldRequestMessageWithId(m, c) ==
  LET Noted(r) == IF requestContext[r].transactionId \in {None, c}
                  THEN [requestContext[r] EXCEPT !.responseMessageId = m]
                  ELSE requestContext[r]
  IN  /\ Answers(m) # {}
      /\ SetContexts(Answers(m), Noted, FALSE)
      /\ UNCHANGED dropResponseContexts

\* The server cannot resend the answer to m: the request starts over.
MessageResendRequestFailed(m) ==
  LET lost == {r \in Queued : HasContext(r) /\ requestContext[r].responseMessageId = m}
  IN  /\ SetContexts(lost, ClearContext, lost # {})
      /\ UNCHANGED dropResponseContexts

\* MTProto replaced its session: no message of the old one counts any more.
MtProtoDidChangeSession ==
  /\ SetContexts(Queued, ClearContext, Queued # {})
  /\ dropResponseContexts' = [m \in {} |-> None]

\* Mutant of MtProtoServerDidChangeSession: nobody asks for a transaction.
ServerDidChangeSessionUnasked(first, otherValid) ==
  LET lost == {r \in Queued : /\ HasContext(r)
                              /\ requestContext[r].messageId < first
                              /\ requestContext[r].messageId \notin otherValid}
  IN  /\ SetContexts(lost, ClearContext, FALSE)
      /\ UNCHANGED dropResponseContexts

\* new_session_created: the server forgot the messages before `first', except
\* those in containers that reached it later.
MtProtoServerDidChangeSession(first, otherValid) ==
  LET lost == {r \in Queued : /\ HasContext(r)
                              /\ requestContext[r].messageId < first
                              /\ requestContext[r].messageId \notin otherValid}
  IN  /\ SetContexts(lost, ClearContext, lost # {})
      /\ UNCHANGED dropResponseContexts

MtProtoAuthTokenUpdated ==
  LET resumed == {r \in Queued : waitingForTokenExport[r]}
  IN  /\ waitingForTokenExport' =
           [r \in Requests |-> waitingForTokenExport[r] /\ r \notin resumed]
      /\ RequestTransactionIf(resumed # {})
      /\ UNCHANGED <<position, arrivals, requestContext, executeTime,
                     dropResponseContexts, requestsServiceTimer,
                     passwordInputRequired, apiInitialized, messages,
                     transactions, built, completed, cancelled>>

-----------------------------------------------------------------------------
(* The password entry and the passage of time *)

\* The user entered the password: MTContext clears the flag and the listener
\* _contextIsPasswordRequiredUpdated asks for a transaction.
PasswordEntered ==
  /\ passwordInputRequired
  /\ passwordInputRequired' = FALSE
  /\ RequestTransactionIf(TRUE)
  /\ UNCHANGED <<position, arrivals, requestContext, executeTime,
                 waitingForTokenExport, dropResponseContexts,
                 requestsServiceTimer, apiInitialized, messages, transactions,
                 built, completed, cancelled>>

DeadlinePasses(r) ==
  /\ executeTime[r] = "ahead"
  /\ executeTime' = [executeTime EXCEPT ![r] = "due"]
  /\ UNCHANGED <<position, arrivals, requestContext, waitingForTokenExport,
                 dropResponseContexts, requestsServiceTimer,
                 passwordInputRequired, apiInitialized, transactionRequested,
                 messages, transactions, built, completed, cancelled>>

\* requestTimerEvent: the timer is gone afterwards, whoever else still waits.
RequestTimerEvent ==
  /\ requestsServiceTimer # NoTimer
  /\ executeTime[requestsServiceTimer] = "due"
  /\ requestsServiceTimer' = NoTimer
  /\ RequestTransactionIf(TRUE)
  /\ UNCHANGED <<position, arrivals, requestContext, executeTime,
                 waitingForTokenExport, dropResponseContexts,
                 passwordInputRequired, apiInitialized, messages, transactions,
                 built, completed, cancelled>>

-----------------------------------------------------------------------------
Client(r) == AddRequest(r) \/ RemoveRequestByInternalId(r)

Answered(r) ==
  \/ ReceivedResult(r)
  \/ \E b \in BOOLEAN : ReceivedPasswordNeeded(r, b) \/ ReceivedFinalError(r, b)
  \/ ReceivedUnauthorized(r)
  \/ \E b \in BOOLEAN, when \in {"due", "ahead"} : ReceivedRetryableError(r, b, when)

Transport ==
  \/ MessageTransaction
  \/ NothingToSend
  \/ \E t \in transactions :
       \E payload \in SUBSET t.pending, last, accepted \in BOOLEAN :
         CompletePayload(t, payload, last, accepted)
  \/ \E C \in SUBSET Connections \ {{}} : TransactionsMayHaveFailed(C)

Server ==
  \/ \E m \in Generated :
       \/ ReceivedDropResult(m)
       \/ ReceivedUnmatched(m)
       \/ MessageDeliveryConfirmed(m)
       \/ MessageDeliveryFailed(m)
       \/ MessageResendRequestFailed(m)
       \/ \E c \in Connections : ShouldRequestMessageWithId(m, c)
       \/ \E valid \in SUBSET {i \in Generated : i < m} :
            MtProtoServerDidChangeSession(m, valid)
  \/ MtProtoDidChangeSession
  \/ MtProtoAuthTokenUpdated

Next ==
  \/ \E r \in Requests : Client(r) \/ Answered(r) \/ DeadlinePasses(r)
  \/ Transport
  \/ Server
  \/ PasswordEntered
  \/ RequestTimerEvent

Spec == Init /\ [][Next]_serviceVars

-----------------------------------------------------------------------------
(* Properties *)

\* The context of a request names a message that was generated for that very
\* request.  The rpc_result loop routes an answer by message id alone, so this
\* is what makes an answer reach the request that asked, through resends,
\* restarts, late completions and session changes.
ContextsAreOwn ==
  \A r \in Requests : HasContext(r) =>
    LET m == requestContext[r].messageId
    IN  m \in Generated /\ messages[m].request = r /\ ~messages[m].isDrop

\* A request that waits for a completion (waitingForMessageId) is in a
\* transaction that still owes the completion of the request's own message:
\* nothing else would ever make mtProtoMessageTransaction consider it again.
WaitingIsOwed ==
  \A r \in Requests : requestContext[r].waitingForMessageId =>
    \E t \in transactions : /\ r \in DOMAIN t.requestIds
                            /\ t.requestIds[r] = requestContext[r].messageId
                            /\ t.requestIds[r] \in t.pending

\* An rpc_drop_answer is only ever sent for the message of a request its client
\* cancelled: no live request loses its answer to a drop context.
DropsOnlyCancelled ==
  \A d \in DOMAIN dropResponseContexts :
    /\ d \in Generated /\ ~messages[d].isDrop
    /\ messages[d].request \in cancelled

\* The `completed' block runs at most once, never for a cancelled request, and
\* not while the request can still be sent.
CompletedOnce ==
  \A r \in Requests :
    /\ completed[r] <= 1
    /\ completed[r] = 1 => r \notin cancelled
    /\ r \in Queued => completed[r] = 0 /\ r \notin cancelled

\* No wake-up is lost: a request that could be sent, has no message and never
\* failed with a retryable error has a transaction requested for it, whichever
\* callback took its message away or lifted what held it back.
NoLostWakeUp ==
  \A r \in ToSend : ~HasContext(r) /\ executeTime[r] = "nil" => transactionRequested

\* A message is prefixed with invokeAfterMsg whenever the request it depends on
\* has a message: one sent earlier, or one prepared in the same transaction.
DependenciesNamed ==
  [][\A t \in transactions' \ transactions : t.no > built =>
       \A r \in DOMAIN t.requestIds : \A q \in Dependency(r) :
         messages'[t.requestIds[r]].refersTo = requestContext'[q].messageId]_serviceVars

-----------------------------------------------------------------------------
(* The contract with the clients *)

Status(r) == IF position[r] # 0 THEN "pending"
             ELSE IF completed[r] # 0 THEN "answered"
             ELSE IF r \in cancelled THEN "cancelled" ELSE "new"

SentAs(r) == {m \in Generated : messages[m].request = r /\ ~messages[m].isDrop}

Contract == INSTANCE RpcContract WITH
  Ids <- MessageIds,
  status <- [r \in Requests |-> Status(r)],
  sentAs <- [r \in Requests |-> SentAs(r)]

\* The service implements RpcContract: a request goes from new to pending to
\* answered or cancelled and never back, is answered only after a message was
\* sent for it, and no message id is ever used for two requests.
ImplementsContract == Contract!ContractSpec
=============================================================================
