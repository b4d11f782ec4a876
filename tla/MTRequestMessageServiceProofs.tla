------------------- MODULE MTRequestMessageServiceProofs -------------------
(***************************************************************************)
(* Proofs about the request queue, for any number of requests, connections, *)
(* message ids and transactions.                                            *)
(*                                                                          *)
(* ContextsAreOwn and WaitingIsOwed are not inductive: a completion block   *)
(* reinstalls the context it captured when the transaction was built, so    *)
(* what a transaction holds (TransactionsAreOwn) has to be part of the      *)
(* invariant; and ids are only unique because no two requests share a place *)
(* in the queue (PositionsDiffer).                                          *)
(***************************************************************************)
EXTENDS MTRequestMessageService, TLAPS

\* The ids a completion block captured were generated for the requests (and
\* the drop messages) it will install them for.
TransactionsAreOwn ==
  \A t \in transactions :
    /\ \A r \in DOMAIN t.requestIds :
         /\ t.requestIds[r] \in Generated
         /\ messages[t.requestIds[r]].request = r
         /\ ~messages[t.requestIds[r]].isDrop
    /\ \A d \in DOMAIN t.dropIds :
         t.dropIds[d] \in Generated /\ messages[t.dropIds[d]].isDrop

\* rpc_drop_answer messages are messages of their own.
DropIdsAreDrops ==
  \A d \in DOMAIN dropResponseContexts : dropResponseContexts[d] # None =>
    /\ dropResponseContexts[d] \in Generated
    /\ messages[dropResponseContexts[d]].isDrop

\* _requests is an array: two requests in it have different indices.
PositionsDiffer ==
  /\ \A r \in Requests : position[r] <= arrivals
  /\ \A r, q \in Queued : r # q => position[r] # position[q]

\* Only requests in the queue have contexts.
ContextsAreQueued == \A r \in Requests : HasContext(r) => position[r] # 0

IndInv ==
  /\ TypeOK
  /\ ContextsAreOwn
  /\ WaitingIsOwed
  /\ DropsOnlyCancelled
  /\ CompletedOnce
  /\ TransactionsAreOwn
  /\ DropIdsAreDrops
  /\ PositionsDiffer
  /\ ContextsAreQueued

-----------------------------------------------------------------------------
(* Contexts *)

\* Contexts stay contexts under the updates the service makes to their fields.
LEMMA ContextUpdates ==
  ASSUME NEW c \in RequestContext
  PROVE  /\ [c EXCEPT !.waitingForMessageId = FALSE] \in RequestContext
         /\ [c EXCEPT !.waitingForMessageId = FALSE].messageId = c.messageId
         /\ ~[c EXCEPT !.waitingForMessageId = FALSE].waitingForMessageId
         /\ [c EXCEPT !.transactionId = None] \in RequestContext
         /\ [c EXCEPT !.transactionId = None].messageId = c.messageId
         /\ [c EXCEPT !.transactionId = None].waitingForMessageId = c.waitingForMessageId
         /\ [c EXCEPT !.delivered = TRUE] \in RequestContext
         /\ [c EXCEPT !.delivered = TRUE].messageId = c.messageId
         /\ [c EXCEPT !.delivered = TRUE].waitingForMessageId = c.waitingForMessageId
  BY DEF RequestContext

\* What MTRequestContext's initializer builds is a context.
LEMMA NewContexts ==
  ASSUME NEW id \in MessageIds \cup {None}, NEW tid \in Connections \cup {None},
         NEW w \in BOOLEAN, NEW i \in BOOLEAN
  PROVE  /\ NewContext(id, tid, w, i) \in RequestContext
         /\ NewContext(id, tid, w, i).messageId = id
         /\ NewContext(id, tid, w, i).waitingForMessageId = w
  BY DEF RequestContext, NewContext, None, MessageIds

\* A nil context is the one without a message id.
LEMMA NilContext ==
  /\ NoContext \in RequestContext
  /\ NoContext.messageId = None
  /\ ~NoContext.waitingForMessageId
  /\ None \notin MessageIds
  BY DEF RequestContext, NoContext, NewContext, None, MessageIds

\* An empty service satisfies the invariant.
LEMMA InitIndInv == Init => IndInv
<1> SUFFICES ASSUME Init PROVE IndInv
  OBVIOUS
<1>1. TypeOK
  <2>1. requestContext \in [Requests -> RequestContext]
    BY NilContext DEF Init
  <2>2. built \in 0 .. MaxTransactions
    BY ConstantsAssumption DEF Init
  <2>3. apiInitialized \in BOOLEAN
    BY ConstantsAssumption DEF Init
  <2> QED BY <2>1, <2>2, <2>3 DEF Init, TypeOK, Generated, ExecuteTimes
<1>2. /\ ContextsAreOwn /\ WaitingIsOwed /\ DropsOnlyCancelled /\ CompletedOnce
      /\ TransactionsAreOwn /\ DropIdsAreDrops
  BY NilContext DEF Init, ContextsAreOwn, WaitingIsOwed, DropsOnlyCancelled,
     CompletedOnce, TransactionsAreOwn, DropIdsAreDrops, HasContext, Queued
<1>3. PositionsDiffer /\ ContextsAreQueued
  BY NilContext DEF Init, PositionsDiffer, ContextsAreQueued, Queued, HasContext
<1> QED BY <1>1, <1>2, <1>3 DEF IndInv

-----------------------------------------------------------------------------
(* Clients *)

\* addRequest gives the request a place of its own at the end of the queue.
LEMMA AddRequestIndInv ==
  ASSUME IndInv, NEW r \in Requests, AddRequest(r)
  PROVE  IndInv'
<1> USE DEF IndInv, AddRequest
<1>1. TypeOK'
  BY DEF TypeOK, RequestTransactionIf, Generated
<1>2. ContextsAreOwn' /\ WaitingIsOwed' /\ DropsOnlyCancelled'
  BY DEF ContextsAreOwn, WaitingIsOwed, DropsOnlyCancelled, HasContext, Generated
<1>3. CompletedOnce'
  BY DEF CompletedOnce, Queued, TypeOK
<1>4. TransactionsAreOwn' /\ DropIdsAreDrops'
  BY DEF TransactionsAreOwn, DropIdsAreDrops, Generated
<1>5. PositionsDiffer'
  BY DEF PositionsDiffer, Queued, TypeOK
<1>6. ContextsAreQueued'
  BY DEF ContextsAreQueued, TypeOK, PositionsDiffer, HasContext
<1> QED BY <1>1, <1>2, <1>3, <1>4, <1>5, <1>6

\* removeRequestByInternalId drops only the message of the request it cancels.
LEMMA RemoveRequestIndInv ==
  ASSUME IndInv, NEW r \in Requests, RemoveRequestByInternalId(r)
  PROVE  IndInv'
<1> USE DEF IndInv, RemoveRequestByInternalId
<1>1. TypeOK'
  BY ContextUpdates, NilContext
  DEF TypeOK, UpdateRequestsTimer, RequestTransactionIf, Generated, HasContext,
      RequestContext
<1>2. ContextsAreOwn' /\ WaitingIsOwed'
  BY NilContext DEF ContextsAreOwn, WaitingIsOwed, HasContext, Generated, TypeOK
<1>3. DropsOnlyCancelled' /\ DropIdsAreDrops'
  BY DEF DropsOnlyCancelled, DropIdsAreDrops, ContextsAreOwn, HasContext, Generated
<1>4. CompletedOnce'
  BY DEF CompletedOnce, Queued, TypeOK
<1>5. TransactionsAreOwn'
  BY DEF TransactionsAreOwn, Generated
<1>6. PositionsDiffer' /\ ContextsAreQueued'
  BY NilContext DEF PositionsDiffer, ContextsAreQueued, Queued, TypeOK, HasContext
<1> QED BY <1>1, <1>2, <1>3, <1>4, <1>5, <1>6

-----------------------------------------------------------------------------
(* Acknowledgements and failures *)

\* A callback that only takes contexts away, or changes fields other than the
\* message id, disturbs nothing the contexts are tied to.
LEMMA NarrowedContexts ==
  ASSUME IndInv,
         UNCHANGED <<position, arrivals, messages, transactions>>,
         requestContext' \in [Requests -> RequestContext],
         \A r \in Requests :
           \/ requestContext'[r] = NoContext
           \/ /\ requestContext'[r].messageId = requestContext[r].messageId
              /\ requestContext'[r].waitingForMessageId =>
                   requestContext[r].waitingForMessageId
  PROVE  /\ ContextsAreOwn' /\ WaitingIsOwed' /\ TransactionsAreOwn'
         /\ PositionsDiffer' /\ ContextsAreQueued'
<1> USE DEF IndInv
<1>1. ContextsAreOwn' /\ ContextsAreQueued'
  BY NilContext DEF ContextsAreOwn, ContextsAreQueued, HasContext, Generated
<1>2. WaitingIsOwed'
  BY NilContext DEF WaitingIsOwed
<1>3. TransactionsAreOwn' /\ PositionsDiffer'
  BY DEF TransactionsAreOwn, PositionsDiffer, Generated, Queued
<1> QED BY <1>1, <1>2, <1>3

\* The frame of the callbacks built on SetContexts.
LEMMA NarrowingStep ==
  ASSUME IndInv,
         UNCHANGED <<position, arrivals, executeTime, waitingForTokenExport,
                     requestsServiceTimer, passwordInputRequired, apiInitialized,
                     messages, transactions, built, completed, cancelled>>,
         transactionRequested' \in BOOLEAN,
         requestContext' \in [Requests -> RequestContext],
         \A r \in Requests :
           \/ requestContext'[r] = NoContext
           \/ /\ requestContext'[r].messageId = requestContext[r].messageId
              /\ requestContext'[r].waitingForMessageId =>
                   requestContext[r].waitingForMessageId,
         DOMAIN dropResponseContexts' \subseteq DOMAIN dropResponseContexts,
         dropResponseContexts' \in
           [DOMAIN dropResponseContexts' -> MessageIds \cup {None}],
         \A d \in DOMAIN dropResponseContexts' :
           dropResponseContexts'[d] \in {dropResponseContexts[d], None}
  PROVE  IndInv'
<1>1. TypeOK'
  BY DEF IndInv, TypeOK, Generated
<1>2. CompletedOnce'
  BY DEF IndInv, CompletedOnce, Queued
<1>3. /\ ContextsAreOwn' /\ WaitingIsOwed' /\ TransactionsAreOwn'
      /\ PositionsDiffer' /\ ContextsAreQueued'
  BY NarrowedContexts
<1>4. DropsOnlyCancelled' /\ DropIdsAreDrops'
  BY DEF IndInv, DropsOnlyCancelled, DropIdsAreDrops, Generated
<1> QED BY <1>1, <1>2, <1>3, <1>4 DEF IndInv

\* messageDeliveryConfirmed keeps the invariant: it only sets `delivered'.
LEMMA MessageDeliveryConfirmedIndInv ==
  ASSUME IndInv, NEW m \in Generated, MessageDeliveryConfirmed(m)
  PROVE  IndInv'
<1> USE DEF IndInv, TypeOK, MessageDeliveryConfirmed, SetContexts
<1>1. requestContext' \in [Requests -> RequestContext]
  BY ContextUpdates
<1>2. \A r \in Requests :
        /\ requestContext'[r].messageId = requestContext[r].messageId
        /\ requestContext'[r].waitingForMessageId = requestContext[r].waitingForMessageId
  BY ContextUpdates
<1>3. transactionRequested' \in BOOLEAN
  BY DEF RequestTransactionIf
<1> QED BY <1>1, <1>2, <1>3, NarrowingStep

\* messageDeliveryFailed keeps the invariant: contexts and drop ids are cleared.
LEMMA MessageDeliveryFailedIndInv ==
  ASSUME IndInv, NEW m \in Generated, MessageDeliveryFailed(m)
  PROVE  IndInv'
<1> USE DEF IndInv, TypeOK, MessageDeliveryFailed, SetContexts, ClearContext
<1>1. requestContext' \in [Requests -> RequestContext]
  BY NilContext
<1>2. \A r \in Requests : requestContext'[r] \in {NoContext, requestContext[r]}
  OBVIOUS
<1>3. transactionRequested' \in BOOLEAN
  BY DEF RequestTransactionIf
<1>4. /\ DOMAIN dropResponseContexts' = DOMAIN dropResponseContexts
      /\ dropResponseContexts' \in
           [DOMAIN dropResponseContexts' -> MessageIds \cup {None}]
      /\ \A d \in DOMAIN dropResponseContexts' :
           dropResponseContexts'[d] \in {dropResponseContexts[d], None}
  OBVIOUS
<1> QED BY <1>1, <1>2, <1>3, <1>4, NarrowingStep

\* transactionsMayHaveFailed keeps the invariant: transaction ids are cleared.
LEMMA TransactionsMayHaveFailedIndInv ==
  ASSUME IndInv, NEW C \in SUBSET Connections, TransactionsMayHaveFailed(C)
  PROVE  IndInv'
<1> USE DEF IndInv, TypeOK, TransactionsMayHaveFailed, SetContexts
<1>1. requestContext' \in [Requests -> RequestContext]
  BY ContextUpdates
<1>2. \A r \in Requests :
        /\ requestContext'[r].messageId = requestContext[r].messageId
        /\ requestContext'[r].waitingForMessageId = requestContext[r].waitingForMessageId
  BY ContextUpdates
<1>3. transactionRequested' \in BOOLEAN
  BY DEF RequestTransactionIf
<1> QED BY <1>1, <1>2, <1>3, NarrowingStep

\* shouldRequestMessageWithId keeps the invariant: a response id is noted.
LEMMA ShouldRequestIndInv ==
  ASSUME IndInv, NEW m \in Generated, NEW c \in Connections,
         ShouldRequestMessageWithId(m, c)
  PROVE  IndInv'
<1> USE DEF IndInv, TypeOK, ShouldRequestMessageWithId, SetContexts
<1>1. \A k \in RequestContext :
        /\ [k EXCEPT !.responseMessageId = m] \in RequestContext
        /\ [k EXCEPT !.responseMessageId = m].messageId = k.messageId
        /\ [k EXCEPT !.responseMessageId = m].waitingForMessageId = k.waitingForMessageId
  BY DEF RequestContext
<1>2. requestContext' \in [Requests -> RequestContext]
  BY <1>1
<1>3. \A r \in Requests :
        /\ requestContext'[r].messageId = requestContext[r].messageId
        /\ requestContext'[r].waitingForMessageId = requestContext[r].waitingForMessageId
  BY <1>1
<1>4. transactionRequested' \in BOOLEAN
  BY DEF RequestTransactionIf
<1> QED BY <1>2, <1>3, <1>4, NarrowingStep

\* The three callbacks that take contexts away.
LEMMA LostContextsIndInv ==
  ASSUME IndInv,
         \/ \E m \in Generated : MessageResendRequestFailed(m)
         \/ \E m \in Generated : \E valid : MtProtoServerDidChangeSession(m, valid)
         \/ MtProtoDidChangeSession
  PROVE  IndInv'
<1> USE DEF IndInv, TypeOK, MessageResendRequestFailed, SetContexts, ClearContext,
        MtProtoServerDidChangeSession, MtProtoDidChangeSession
<1>1. requestContext' \in [Requests -> RequestContext]
  BY NilContext
<1>2. \A r \in Requests : requestContext'[r] \in {NoContext, requestContext[r]}
  OBVIOUS
<1>3. transactionRequested' \in BOOLEAN
  BY DEF RequestTransactionIf
<1>4. /\ DOMAIN dropResponseContexts' \subseteq DOMAIN dropResponseContexts
      /\ dropResponseContexts' \in
           [DOMAIN dropResponseContexts' -> MessageIds \cup {None}]
      /\ \A d \in DOMAIN dropResponseContexts' :
           dropResponseContexts'[d] \in {dropResponseContexts[d], None}
  OBVIOUS
<1> QED BY <1>1, <1>2, <1>3, <1>4, NarrowingStep

-----------------------------------------------------------------------------
(* Answers *)

\* The answer to an rpc_drop_answer removes its drop context.
LEMMA ReceivedDropResultIndInv ==
  ASSUME IndInv, NEW m \in Generated, ReceivedDropResult(m)
  PROVE  IndInv'
<1> USE DEF IndInv, TypeOK, ReceivedDropResult
<1>1. /\ DOMAIN dropResponseContexts' \subseteq DOMAIN dropResponseContexts
      /\ dropResponseContexts' \in
           [DOMAIN dropResponseContexts' -> MessageIds \cup {None}]
      /\ \A d \in DOMAIN dropResponseContexts' :
           dropResponseContexts'[d] \in {dropResponseContexts[d], None}
  OBVIOUS
<1> QED BY <1>1, NarrowingStep

\* The timer and the flag that updateRequestsTimer leaves are well typed.
LEMMA TimerType ==
  ASSUME NEW b \in BOOLEAN, UpdateRequestsTimer(b), transactionRequested \in BOOLEAN
  PROVE  /\ requestsServiceTimer' \in Requests \cup {NoTimer}
         /\ transactionRequested' \in BOOLEAN
  BY DEF UpdateRequestsTimer, RequestTransactionIf

\* Every answer clears the context of its request and either finishes the
\* request or keeps it in the queue.
LEMMA AnswerStep ==
  ASSUME IndInv, NEW r \in Requests, AnswerFor(r),
         \/ FinishRequest(r)
         \/ /\ UNCHANGED <<position, completed>>
            /\ executeTime' \in [Requests -> ExecuteTimes]
            /\ waitingForTokenExport' \in [Requests -> BOOLEAN],
         apiInitialized' \in BOOLEAN, passwordInputRequired' \in BOOLEAN,
         UpdateRequestsTimer(FALSE)
  PROVE  IndInv'
<1> USE DEF IndInv, AnswerFor, FinishRequest
<1>1. TypeOK'
  <2>1. /\ requestsServiceTimer' \in Requests \cup {NoTimer}
        /\ transactionRequested' \in BOOLEAN
    BY TimerType DEF TypeOK
  <2>2. requestContext' \in [Requests -> RequestContext]
    BY NilContext DEF TypeOK
  <2>3. /\ position' \in [Requests -> Nat] /\ completed' \in [Requests -> Nat]
        /\ executeTime' \in [Requests -> ExecuteTimes]
        /\ waitingForTokenExport' \in [Requests -> BOOLEAN]
    BY DEF TypeOK
  <2> QED BY <2>1, <2>2, <2>3 DEF TypeOK, Generated
<1>2. ContextsAreOwn' /\ WaitingIsOwed'
  BY NilContext DEF ContextsAreOwn, WaitingIsOwed, HasContext, Generated, TypeOK
<1>3. DropsOnlyCancelled' /\ DropIdsAreDrops' /\ TransactionsAreOwn'
  BY DEF DropsOnlyCancelled, DropIdsAreDrops, TransactionsAreOwn, Generated
<1>4. CompletedOnce'
  BY DEF CompletedOnce, Queued, TypeOK
<1>5. PositionsDiffer' /\ ContextsAreQueued'
  BY NilContext DEF PositionsDiffer, ContextsAreQueued, Queued, HasContext, TypeOK
<1> QED BY <1>1, <1>2, <1>3, <1>4, <1>5

\* Every outcome of an rpc_result that matched a request keeps the invariant.
LEMMA AnsweredIndInv ==
  ASSUME IndInv, NEW r \in Requests, Answered(r)
  PROVE  IndInv'
<1> USE DEF IndInv, TypeOK
<1>1. CASE ReceivedResult(r)
  <2>1. apiInitialized' \in BOOLEAN
    BY <1>1 DEF ReceivedResult
  <2> QED BY <1>1, <2>1, AnswerStep DEF ReceivedResult
<1>2. CASE \E b \in BOOLEAN : ReceivedPasswordNeeded(r, b)
  BY <1>2, AnswerStep DEF ReceivedPasswordNeeded
<1>3. CASE \E b \in BOOLEAN : ReceivedFinalError(r, b)
  BY <1>3, AnswerStep DEF ReceivedFinalError
<1>4. CASE ReceivedUnauthorized(r)
  BY <1>4, AnswerStep DEF ReceivedUnauthorized, ExecuteTimes
<1>5. CASE \E b \in BOOLEAN, when \in {"due", "ahead"} : ReceivedRetryableError(r, b, when)
  BY <1>5, AnswerStep DEF ReceivedRetryableError, RestartRequest, ExecuteTimes
<1> QED BY <1>1, <1>2, <1>3, <1>4, <1>5 DEF Answered

\* Steps that touch neither contexts, nor messages, nor the queue.
LEMMA OtherStepsIndInv ==
  ASSUME IndInv,
         \/ \E m \in Generated : ReceivedUnmatched(m)
         \/ NothingToSend \/ MtProtoAuthTokenUpdated \/ PasswordEntered
         \/ RequestTimerEvent
         \/ \E r \in Requests : DeadlinePasses(r)
  PROVE  IndInv'
<1> USE DEF ReceivedUnmatched, NothingToSend, MtProtoAuthTokenUpdated,
        PasswordEntered, RequestTimerEvent, DeadlinePasses
<1>1. UNCHANGED <<position, arrivals, requestContext, dropResponseContexts,
                  messages, transactions, built, completed, cancelled>>
  OBVIOUS
<1>2. TypeOK'
  <2>1. transactionRequested' \in BOOLEAN /\ requestsServiceTimer' \in Requests \cup {NoTimer}
    BY TimerType DEF IndInv, TypeOK, RequestTransactionIf
  <2>2. /\ executeTime' \in [Requests -> ExecuteTimes]
        /\ waitingForTokenExport' \in [Requests -> BOOLEAN]
        /\ passwordInputRequired' \in BOOLEAN /\ apiInitialized' \in BOOLEAN
    BY DEF IndInv, TypeOK, ExecuteTimes
  <2> QED BY <1>1, <2>1, <2>2 DEF IndInv, TypeOK, Generated
<1>3. /\ ContextsAreOwn' /\ WaitingIsOwed' /\ DropsOnlyCancelled' /\ CompletedOnce'
      /\ TransactionsAreOwn' /\ DropIdsAreDrops' /\ PositionsDiffer' /\ ContextsAreQueued'
  BY <1>1 DEF IndInv, ContextsAreOwn, WaitingIsOwed, DropsOnlyCancelled,
     CompletedOnce, TransactionsAreOwn, DropIdsAreDrops, PositionsDiffer,
     ContextsAreQueued, HasContext, Generated, Queued
<1> QED BY <1>2, <1>3 DEF IndInv

-----------------------------------------------------------------------------
(* Transactions *)

\* What a completion does to the contexts: their message ids come from the
\* transaction or stay as they were, and nobody in the transaction goes on waiting.
LEMMA CompletedContexts ==
  ASSUME IndInv, NEW t \in transactions, NEW payload \in SUBSET t.pending,
         NEW last \in BOOLEAN, NEW accepted \in BOOLEAN,
         CompletePayload(t, payload, last, accepted)
  PROVE  \A r \in Requests :
         /\ requestContext'[r] \in RequestContext
         /\ \/ requestContext'[r].messageId = requestContext[r].messageId
            \/ /\ r \in DOMAIN t.requestIds /\ r \in Queued
               /\ requestContext'[r].messageId = t.requestIds[r]
         /\ requestContext'[r].waitingForMessageId =>
              /\ requestContext'[r] = requestContext[r]
              /\ ~(r \in Queued /\ r \in DOMAIN t.requestIds)
<1> USE DEF IndInv
<1>t. /\ t \in Transaction
      /\ t.requestIds \in [DOMAIN t.requestIds -> MessageIds]
      /\ DOMAIN t.requestIds \subseteq Requests
      /\ t.dropIds \in [DOMAIN t.dropIds -> MessageIds]
      /\ t.willInitializeApi \in BOOLEAN
      /\ t.pending \subseteq MessageIds
  BY DEF TypeOK, Transaction
<1>1. CASE ~accepted
  <2>1. \A r \in Requests :
          requestContext'[r] =
            IF r \in Queued /\ r \in DOMAIN t.requestIds
            THEN [requestContext[r] EXCEPT !.waitingForMessageId = FALSE]
            ELSE requestContext[r]
    BY <1>1 DEF CompletePayload, TransactionFailed
  <2>2. \A r \in Requests : requestContext[r] \in RequestContext
    BY DEF TypeOK
  <2>3. SUFFICES ASSUME NEW r \in Requests
                 PROVE  /\ requestContext'[r] \in RequestContext
                        /\ requestContext'[r].messageId = requestContext[r].messageId
                        /\ requestContext'[r].waitingForMessageId =>
                             /\ requestContext'[r] = requestContext[r]
                             /\ ~(r \in Queued /\ r \in DOMAIN t.requestIds)
    OBVIOUS
  <2>4. CASE r \in Queued /\ r \in DOMAIN t.requestIds
    <3> DEFINE k == [requestContext[r] EXCEPT !.waitingForMessageId = FALSE]
    <3>1. k \in RequestContext /\ k.messageId = requestContext[r].messageId
      BY <2>2, ContextUpdates
    <3>2. k.waitingForMessageId = FALSE
      BY <2>2 DEF RequestContext
    <3>3. requestContext'[r] = k
      BY <2>1, <2>4
    <3> HIDE DEF k
    <3> QED BY <3>1, <3>2, <3>3
  <2>5. CASE ~(r \in Queued /\ r \in DOMAIN t.requestIds)
    BY <2>1, <2>2, <2>5
  <2> QED BY <2>4, <2>5
<1>2. CASE accepted
  <2>1. PICK c \in Connections : TransactionCompleted(t, payload, c)
    BY <1>2 DEF CompletePayload
  <2>2. \A r \in DOMAIN t.requestIds :
          /\ NewContext(t.requestIds[r], c, FALSE, t.willInitializeApi) \in RequestContext
          /\ NewContext(t.requestIds[r], c, FALSE, t.willInitializeApi).messageId
               = t.requestIds[r]
          /\ ~NewContext(t.requestIds[r], c, FALSE, t.willInitializeApi).waitingForMessageId
    BY <1>t, NewContexts
  <2> QED BY <2>1, <2>2, ContextUpdates DEF TransactionCompleted, TypeOK
<1> QED BY <1>1, <1>2

\* The completion of one payload, accepted or not, keeps the invariant.
LEMMA CompletePayloadIndInv ==
  ASSUME IndInv, NEW t \in transactions, NEW payload \in SUBSET t.pending,
         NEW last \in BOOLEAN, NEW accepted \in BOOLEAN,
         CompletePayload(t, payload, last, accepted)
  PROVE  IndInv'
<1> USE DEF IndInv
<1>t. /\ t \in Transaction
      /\ t.requestIds \in [DOMAIN t.requestIds -> MessageIds]
      /\ DOMAIN t.requestIds \subseteq Requests
      /\ t.dropIds \in [DOMAIN t.dropIds -> MessageIds]
      /\ t.willInitializeApi \in BOOLEAN
      /\ t.pending \subseteq MessageIds
  BY DEF TypeOK, Transaction
<1>u. UNCHANGED <<position, arrivals, executeTime, waitingForTokenExport,
                  requestsServiceTimer, passwordInputRequired, apiInitialized,
                  transactionRequested, built, completed, cancelled>>
  BY DEF CompletePayload
<1>1. \A r \in Requests :
        /\ requestContext'[r] \in RequestContext
        /\ \/ requestContext'[r].messageId = requestContext[r].messageId
           \/ /\ r \in DOMAIN t.requestIds /\ r \in Queued
              /\ requestContext'[r].messageId = t.requestIds[r]
        /\ requestContext'[r].waitingForMessageId =>
             /\ requestContext'[r] = requestContext[r]
             /\ ~(r \in Queued /\ r \in DOMAIN t.requestIds)
  BY CompletedContexts
<1>2. requestContext' \in [Requests -> RequestContext]
  BY <1>1 DEF CompletePayload, TransactionFailed, TransactionCompleted
\* messages: only `written' changes
<1>3. /\ DOMAIN messages' = DOMAIN messages
      /\ messages' \in [DOMAIN messages' -> Message]
      /\ \A m \in DOMAIN messages : /\ messages'[m].request = messages[m].request
                                    /\ messages'[m].isDrop = messages[m].isDrop
  <2>1. \A k \in Message : /\ [k EXCEPT !.written = TRUE] \in Message
                           /\ [k EXCEPT !.written = TRUE].request = k.request
                           /\ [k EXCEPT !.written = TRUE].isDrop = k.isDrop
    BY DEF Message
  <2>2. \A m \in DOMAIN messages : messages[m] \in Message
    BY DEF TypeOK, Generated
  <2>3. CASE ~accepted
    BY <2>3 DEF CompletePayload, TransactionFailed, TypeOK, Generated
  <2>4. CASE accepted
    <3>1. messages' = [m \in DOMAIN messages |->
                         IF m \in payload THEN [messages[m] EXCEPT !.written = TRUE]
                         ELSE messages[m]]
      BY <2>4 DEF CompletePayload, TransactionCompleted, Generated
    <3> QED BY <2>1, <2>2, <3>1
  <2> QED BY <2>3, <2>4
\* drop contexts: message ids come from the transaction or stay as they were
<1>4. /\ DOMAIN dropResponseContexts' = DOMAIN dropResponseContexts
      /\ dropResponseContexts' \in
           [DOMAIN dropResponseContexts' -> MessageIds \cup {None}]
      /\ \A d \in DOMAIN dropResponseContexts :
           \/ dropResponseContexts'[d] = dropResponseContexts[d]
           \/ d \in DOMAIN t.dropIds /\ dropResponseContexts'[d] = t.dropIds[d]
  BY <1>t DEF CompletePayload, TransactionFailed, TransactionCompleted, TypeOK
<1>5. \A s \in transactions' :
        \/ s \in transactions
        \/ /\ s \in Transaction
           /\ s.requestIds = t.requestIds /\ s.dropIds = t.dropIds
  BY <1>t DEF CompletePayload, Transaction
<1>6. \A s \in transactions : s # t => s \in transactions'
  BY DEF CompletePayload
<1>7. TypeOK'
  BY <1>u, <1>2, <1>3, <1>4, <1>5 DEF TypeOK, Generated
<1>8. TransactionsAreOwn'
  BY <1>3, <1>5 DEF TransactionsAreOwn, Generated
<1>9. ContextsAreOwn' /\ ContextsAreQueued'
  BY <1>1, <1>3, <1>u DEF ContextsAreOwn, ContextsAreQueued, TransactionsAreOwn,
     HasContext, Generated, Queued
<1>10. WaitingIsOwed'
  <2> SUFFICES ASSUME NEW r \in Requests, requestContext'[r].waitingForMessageId
               PROVE  \E s \in transactions' :
                         /\ r \in DOMAIN s.requestIds
                         /\ s.requestIds[r] = requestContext'[r].messageId
                         /\ s.requestIds[r] \in s.pending
    BY DEF WaitingIsOwed
  <2>1. requestContext'[r] = requestContext[r]
    BY <1>1
  <2>2. PICK s \in transactions : /\ r \in DOMAIN s.requestIds
                                  /\ s.requestIds[r] = requestContext[r].messageId
                                  /\ s.requestIds[r] \in s.pending
    BY <2>1 DEF WaitingIsOwed
  <2>3. r \in Queued
    BY <2>2, NilContext DEF ContextsAreQueued, HasContext, Queued, TypeOK, Transaction
  <2>4. s # t
    BY <1>1, <2>2, <2>3
  <2> QED BY <1>6, <2>1, <2>2, <2>4
<1>11. DropsOnlyCancelled' /\ DropIdsAreDrops'
  BY <1>3, <1>4, <1>u DEF DropsOnlyCancelled, DropIdsAreDrops, TransactionsAreOwn, Generated
<1>12. CompletedOnce' /\ PositionsDiffer'
  BY <1>u DEF CompletedOnce, PositionsDiffer, Queued
<1> QED BY <1>7, <1>8, <1>9, <1>10, <1>11, <1>12

\* Ids are assigned without collisions: two requests of a transaction never
\* share one, nor do a request and a drop message.
LEMMA IdsDiffer ==
  ASSUME IndInv, NEW requestIds \in [ToSend -> MessageIds],
         NEW dropIds \in [DOMAIN dropResponseContexts -> MessageIds],
         FreshIds(requestIds, dropIds)
  PROVE  /\ \A r, q \in ToSend : requestIds[r] = requestIds[q] => r = q
         /\ \A r \in ToSend, d \in DOMAIN dropIds : requestIds[r] # dropIds[d]
         /\ \A r \in ToSend : requestIds[r] \in Generated =>
              messages[requestIds[r]].request = r /\ ~messages[requestIds[r]].isDrop
         /\ \A d \in DOMAIN dropIds : dropIds[d] \in Generated => messages[dropIds[d]].isDrop
<1> DEFINE freshRequests == {r \in DOMAIN requestIds : ~HasContext(r)}
           freshDrops == {d \in DOMAIN dropIds : dropResponseContexts[d] = None}
<1> USE DEF IndInv
<1>1. /\ \A r \in freshRequests : requestIds[r] \notin Generated
      /\ \A d \in freshDrops : dropIds[d] \notin Generated
      /\ \A r, q \in freshRequests :
           position[r] < position[q] => requestIds[r] < requestIds[q]
      /\ \A r \in freshRequests, d \in freshDrops : requestIds[r] < dropIds[d]
      /\ \A r \in ToSend \ freshRequests : requestIds[r] = requestContext[r].messageId
      /\ \A d \in DOMAIN dropIds \ freshDrops : dropIds[d] = dropResponseContexts[d]
  BY DEF FreshIds
<1>2. \A r \in ToSend \ freshRequests :
        /\ requestIds[r] \in Generated
        /\ messages[requestIds[r]].request = r /\ ~messages[requestIds[r]].isDrop
  BY <1>1 DEF ContextsAreOwn, ToSend
<1>3. \A d \in DOMAIN dropIds \ freshDrops :
        dropIds[d] \in Generated /\ messages[dropIds[d]].isDrop
  BY <1>1 DEF DropIdsAreDrops
<1>4. \A r, q \in freshRequests : r # q => requestIds[r] # requestIds[q]
  <2> SUFFICES ASSUME NEW r \in freshRequests, NEW q \in freshRequests, r # q
               PROVE  requestIds[r] # requestIds[q]
    OBVIOUS
  <2>1. r \in Queued /\ q \in Queued
    BY DEF ToSend, Sendable
  <2>2. position[r] \in Nat /\ position[q] \in Nat /\ position[r] # position[q]
    BY <2>1 DEF PositionsDiffer, TypeOK, Queued
  <2>3. requestIds[r] \in Nat /\ requestIds[q] \in Nat
    BY DEF MessageIds
  <2>4. position[r] < position[q] \/ position[q] < position[r]
    BY <2>2
  <2> QED BY <1>1, <2>3, <2>4
<1>5. \A r, q \in ToSend : requestIds[r] = requestIds[q] => r = q
  BY <1>1, <1>2, <1>4
<1>6. \A r \in ToSend, d \in DOMAIN dropIds : requestIds[r] # dropIds[d]
  <2>1. \A r \in freshRequests, d \in freshDrops : requestIds[r] # dropIds[d]
    BY <1>1 DEF MessageIds
  <2> QED BY <1>1, <1>2, <1>3, <2>1
<1> QED BY <1>1, <1>2, <1>3, <1>5, <1>6

\* Building a transaction does not turn an existing message into another one.
LEMMA PreparedMessages ==
  ASSUME IndInv, NEW requestIds \in [ToSend -> MessageIds],
         NEW dropIds \in [DOMAIN dropResponseContexts -> MessageIds],
         Prepare(requestIds, dropIds)
  PROVE  /\ Generated \subseteq DOMAIN messages'
         /\ DOMAIN messages' \subseteq MessageIds
         /\ messages' \in [DOMAIN messages' -> Message]
         /\ \A r \in ToSend : /\ requestIds[r] \in DOMAIN messages'
                              /\ messages'[requestIds[r]].request = r
                              /\ ~messages'[requestIds[r]].isDrop
         /\ \A d \in DOMAIN dropIds : /\ dropIds[d] \in DOMAIN messages'
                                      /\ messages'[dropIds[d]].isDrop
         /\ \A m \in Generated :
              /\ messages'[m].isDrop = messages[m].isDrop
              /\ ~messages[m].isDrop => messages'[m].request = messages[m].request
<1> DEFINE all == IdsOf(requestIds) \cup IdsOf(dropIds)
<1> USE DEF IndInv
<1>0. /\ FreshIds(requestIds, dropIds)
      /\ messages' = [m \in Generated \cup all |->
                        IF m \in all THEN Carried(m, requestIds, dropIds) ELSE messages[m]]
  BY DEF Prepare
<1>1. /\ \A r, q \in ToSend : requestIds[r] = requestIds[q] => r = q
      /\ \A r \in ToSend, d \in DOMAIN dropIds : requestIds[r] # dropIds[d]
      /\ \A r \in ToSend : requestIds[r] \in Generated =>
           messages[requestIds[r]].request = r /\ ~messages[requestIds[r]].isDrop
      /\ \A d \in DOMAIN dropIds : dropIds[d] \in Generated => messages[dropIds[d]].isDrop
  BY <1>0, IdsDiffer
<1>2. \A r \in ToSend :
        /\ requestIds[r] \in all
        /\ Carried(requestIds[r], requestIds, dropIds) \in Message
        /\ Carried(requestIds[r], requestIds, dropIds).request = r
        /\ Carried(requestIds[r], requestIds, dropIds).isDrop = FALSE
  <2> SUFFICES ASSUME NEW r \in ToSend
               PROVE  /\ requestIds[r] \in all
                      /\ Carried(requestIds[r], requestIds, dropIds) \in Message
                      /\ Carried(requestIds[r], requestIds, dropIds).request = r
                      /\ Carried(requestIds[r], requestIds, dropIds).isDrop = FALSE
    OBVIOUS
  <2>1. requestIds[r] \in IdsOf(requestIds)
    BY DEF IdsOf
  <2>2. (CHOOSE q \in DOMAIN requestIds : requestIds[q] = requestIds[r]) = r
    BY <1>1
  <2>3. InvokeAfter(r, requestIds) \in MessageIds \cup {None}
    <3>1. \A q \in Requests : requestContext[q].messageId \in MessageIds \cup {None}
      BY DEF TypeOK, RequestContext
    <3> QED BY <3>1 DEF InvokeAfter, Dependency, Queued
  <2>4. (requestIds[r] \in Generated /\ messages[requestIds[r]].written) \in BOOLEAN
    OBVIOUS
  <2>5. Carried(requestIds[r], requestIds, dropIds) =
          [request |-> r, isDrop |-> FALSE, refersTo |-> InvokeAfter(r, requestIds),
           written |-> (requestIds[r] \in Generated /\ messages[requestIds[r]].written)]
    BY <2>1, <2>2 DEF Carried
  <2>6. r \in Requests
    BY DEF ToSend
  <2> QED BY <2>1, <2>3, <2>4, <2>5, <2>6 DEF Message
<1>3. \A d \in DOMAIN dropIds :
        /\ dropIds[d] \in all
        /\ Carried(dropIds[d], requestIds, dropIds) \in Message
        /\ Carried(dropIds[d], requestIds, dropIds).isDrop = TRUE
  <2> SUFFICES ASSUME NEW d \in DOMAIN dropIds
               PROVE  /\ dropIds[d] \in all
                      /\ Carried(dropIds[d], requestIds, dropIds) \in Message
                      /\ Carried(dropIds[d], requestIds, dropIds).isDrop = TRUE
    OBVIOUS
  <2>1. dropIds[d] \in IdsOf(dropIds) /\ dropIds[d] \notin IdsOf(requestIds)
    BY <1>1 DEF IdsOf
  <2> DEFINE e == CHOOSE x \in DOMAIN dropIds : dropIds[x] = dropIds[d]
             w == dropIds[d] \in Generated /\ messages[dropIds[d]].written
  <2>2. e \in DOMAIN dropIds
    OBVIOUS
  <2>3. e \in MessageIds /\ messages[e].request \in Requests
    BY <2>2 DEF DropsOnlyCancelled, TypeOK, Message, Generated
  <2>4. Carried(dropIds[d], requestIds, dropIds) =
          [request |-> messages[e].request, isDrop |-> TRUE, refersTo |-> e, written |-> w]
    BY <2>1 DEF Carried
  <2>5. w \in BOOLEAN
    OBVIOUS
  <2> HIDE DEF e, w
  <2> QED BY <2>1, <2>3, <2>4, <2>5 DEF Message
<1>4. \A m \in all : (\E r \in ToSend : m = requestIds[r]) \/ (\E d \in DOMAIN dropIds : m = dropIds[d])
  BY DEF IdsOf
<1>5. Generated \cup all \subseteq MessageIds
  BY <1>4 DEF TypeOK
<1> HIDE DEF all
<1>6. messages' \in [DOMAIN messages' -> Message]
  BY <1>0, <1>2, <1>3, <1>4 DEF TypeOK
<1>7. \A m \in Generated :
        /\ messages'[m].isDrop = messages[m].isDrop
        /\ ~messages[m].isDrop => messages'[m].request = messages[m].request
  <2> SUFFICES ASSUME NEW m \in Generated
               PROVE  /\ messages'[m].isDrop = messages[m].isDrop
                      /\ ~messages[m].isDrop => messages'[m].request = messages[m].request
    OBVIOUS
  <2>1. messages[m].isDrop \in BOOLEAN
    BY DEF TypeOK, Message
  <2>2. CASE m \notin all
    BY <1>0, <2>2
  <2>3. ASSUME NEW r \in ToSend, m = requestIds[r]
        PROVE  messages'[m].isDrop = messages[m].isDrop /\ messages'[m].request = messages[m].request
    <3>1. messages'[m].isDrop = FALSE /\ messages'[m].request = r
      BY <1>0, <1>2, <2>3
    <3>2. messages[m].isDrop = FALSE /\ messages[m].request = r
      BY <1>1, <2>1, <2>3
    <3> QED BY <3>1, <3>2
  <2>4. ASSUME NEW d \in DOMAIN dropIds, m = dropIds[d]
        PROVE  messages'[m].isDrop = TRUE /\ messages[m].isDrop = TRUE
    BY <1>0, <1>1, <1>3, <2>1, <2>4
  <2> QED BY <1>4, <2>2, <2>3, <2>4
<1> QED BY <1>0, <1>2, <1>3, <1>5, <1>6, <1>7

\* mtProtoMessageTransaction and its prepared block keep the invariant.
LEMMA MessageTransactionIndInv ==
  ASSUME IndInv, MessageTransaction
  PROVE  IndInv'
<1> USE DEF IndInv
<1>0. PICK requestIds \in [ToSend -> MessageIds],
           dropIds \in [DOMAIN dropResponseContexts -> MessageIds] :
        Prepare(requestIds, dropIds)
  BY DEF MessageTransaction
<1> DEFINE t == [no |-> built + 1, requestIds |-> requestIds, dropIds |-> dropIds,
                 willInitializeApi |-> ~apiInitialized,
                 pending |-> IdsOf(requestIds) \cup IdsOf(dropIds)]
<1>1. /\ Generated \subseteq DOMAIN messages'
      /\ DOMAIN messages' \subseteq MessageIds
      /\ messages' \in [DOMAIN messages' -> Message]
      /\ \A r \in ToSend : /\ requestIds[r] \in DOMAIN messages'
                           /\ messages'[requestIds[r]].request = r
                           /\ ~messages'[requestIds[r]].isDrop
      /\ \A d \in DOMAIN dropIds : /\ dropIds[d] \in DOMAIN messages'
                                   /\ messages'[dropIds[d]].isDrop
      /\ \A m \in Generated :
           /\ messages'[m].isDrop = messages[m].isDrop
           /\ ~messages[m].isDrop => messages'[m].request = messages[m].request
  BY <1>0, PreparedMessages
<1>2. transactions' = transactions \cup {t}
  BY <1>0 DEF Prepare
<1>3. /\ t.requestIds = requestIds /\ t.dropIds = dropIds
      /\ \A r \in ToSend : requestIds[r] \in t.pending
  BY DEF IdsOf
<1>4. t \in Transaction
  <2>1. built + 1 \in 1 .. MaxTransactions
    BY ConstantsAssumption DEF MessageTransaction, TypeOK
  <2>2. requestIds \in UNION {[S -> MessageIds] : S \in SUBSET Requests}
    BY DEF ToSend
  <2>3. dropIds \in UNION {[S -> MessageIds] : S \in SUBSET MessageIds}
    BY DEF TypeOK
  <2>4. IdsOf(requestIds) \cup IdsOf(dropIds) \subseteq MessageIds
    BY DEF IdsOf
  <2>5. (~apiInitialized) \in BOOLEAN
    OBVIOUS
  <2> QED BY <2>1, <2>2, <2>3, <2>4, <2>5 DEF Transaction
<1> HIDE DEF t
<1>5. /\ requestContext' \in [Requests -> RequestContext]
      /\ \A r \in ToSend : requestContext'[r].messageId = requestIds[r]
      /\ \A r \in Requests \ ToSend : requestContext'[r] = requestContext[r]
  <2>1. \A r \in ToSend :
          /\ NewContext(requestIds[r], None, TRUE, ~apiInitialized) \in RequestContext
          /\ NewContext(requestIds[r], None, TRUE, ~apiInitialized).messageId = requestIds[r]
    BY NewContexts
  <2>2. requestContext' = [r \in Requests |->
                             IF r \in ToSend
                             THEN NewContext(requestIds[r], None, TRUE, ~apiInitialized)
                             ELSE requestContext[r]]
    BY <1>0 DEF Prepare
  <2>3. ToSend \subseteq Requests
    BY DEF ToSend
  <2> QED BY <2>1, <2>2, <2>3 DEF TypeOK
<1>6. UNCHANGED <<position, arrivals, executeTime, waitingForTokenExport,
                  dropResponseContexts, requestsServiceTimer,
                  passwordInputRequired, apiInitialized, completed, cancelled>>
  BY DEF MessageTransaction
<1>7. TypeOK'
  <2>1. built' \in 0 .. MaxTransactions
    <3>1. built \in 0 .. MaxTransactions
      BY DEF TypeOK
    <3>2. built < MaxTransactions /\ built' = built + 1
      BY DEF MessageTransaction
    <3> QED BY <3>1, <3>2, ConstantsAssumption
  <2>2. transactionRequested' \in BOOLEAN
    BY DEF MessageTransaction
  <2> QED BY <1>1, <1>2, <1>4, <1>5, <1>6, <2>1, <2>2 DEF TypeOK, Generated
<1>8. TransactionsAreOwn'
  <2>1. \A s \in transactions : 
          /\ \A r \in DOMAIN s.requestIds :
               /\ s.requestIds[r] \in DOMAIN messages'
               /\ messages'[s.requestIds[r]].request = r
               /\ ~messages'[s.requestIds[r]].isDrop
          /\ \A d \in DOMAIN s.dropIds :
               s.dropIds[d] \in DOMAIN messages' /\ messages'[s.dropIds[d]].isDrop
    BY <1>1 DEF TransactionsAreOwn
  <2>2. DOMAIN requestIds = ToSend
    OBVIOUS
  <2> QED BY <1>1, <1>2, <1>3, <2>1, <2>2 DEF TransactionsAreOwn, Generated
<1>9. ContextsAreOwn'
  <2>1. \A r \in Requests \ ToSend : HasContext(r) =>
          /\ requestContext[r].messageId \in DOMAIN messages'
          /\ messages'[requestContext[r].messageId].request = r
          /\ ~messages'[requestContext[r].messageId].isDrop
    <3> SUFFICES ASSUME NEW r \in Requests \ ToSend, HasContext(r)
                 PROVE  /\ requestContext[r].messageId \in DOMAIN messages'
                        /\ messages'[requestContext[r].messageId].request = r
                        /\ ~messages'[requestContext[r].messageId].isDrop
      OBVIOUS
    <3>1. /\ requestContext[r].messageId \in Generated
          /\ messages[requestContext[r].messageId].request = r
          /\ ~messages[requestContext[r].messageId].isDrop
      BY DEF ContextsAreOwn
    <3> QED BY <1>1, <3>1
  <2> QED BY <1>1, <1>5, <2>1 DEF ContextsAreOwn, HasContext, Generated
<1>10. WaitingIsOwed'
  BY <1>2, <1>3, <1>5 DEF WaitingIsOwed
<1>11. DropsOnlyCancelled' /\ DropIdsAreDrops'
  BY <1>1, <1>6 DEF DropsOnlyCancelled, DropIdsAreDrops, Generated
<1>12. CompletedOnce' /\ PositionsDiffer'
  BY <1>6 DEF CompletedOnce, PositionsDiffer, Queued
<1>13. ContextsAreQueued'
  BY <1>5, <1>6 DEF ContextsAreQueued, HasContext, ToSend, Sendable, Queued
<1> QED BY <1>7, <1>8, <1>9, <1>10, <1>11, <1>12, <1>13

-----------------------------------------------------------------------------
(* The safety theorem *)

\* IndInv is preserved by every step of the service and its environment.
LEMMA StepIndInv == IndInv /\ [Next]_serviceVars => IndInv'
<1> SUFFICES ASSUME IndInv, [Next]_serviceVars PROVE IndInv'
  OBVIOUS
<1>1. CASE UNCHANGED serviceVars
  BY <1>1 DEF serviceVars, IndInv, TypeOK, ContextsAreOwn, WaitingIsOwed,
     DropsOnlyCancelled, CompletedOnce, TransactionsAreOwn, DropIdsAreDrops,
     PositionsDiffer, ContextsAreQueued, HasContext, Generated, Queued
<1>2. ASSUME NEW r \in Requests, Client(r) \/ Answered(r) \/ DeadlinePasses(r)
      PROVE  IndInv'
  BY <1>2, AddRequestIndInv, RemoveRequestIndInv, AnsweredIndInv, OtherStepsIndInv
     DEF Client
<1>3. CASE Transport
  BY <1>3, MessageTransactionIndInv, OtherStepsIndInv, CompletePayloadIndInv,
     TransactionsMayHaveFailedIndInv DEF Transport
<1>4. CASE Server
  BY <1>4, ReceivedDropResultIndInv, OtherStepsIndInv, MessageDeliveryConfirmedIndInv,
     MessageDeliveryFailedIndInv, LostContextsIndInv, ShouldRequestIndInv DEF Server
<1>5. CASE PasswordEntered \/ RequestTimerEvent
  BY <1>5, OtherStepsIndInv
<1> QED BY <1>1, <1>2, <1>3, <1>4, <1>5 DEF Next

\* The invariant the other theorems rest on.
THEOREM IndInvHolds == Spec => []IndInv
  BY InitIndInv, StepIndInv, PTL DEF Spec

\* The state of the queue is well typed: contexts, transactions and messages
\* only ever hold ids that were generated and connections that exist.
THEOREM TypeCorrect == Spec => []TypeOK
<1>1. IndInv => TypeOK
  BY DEF IndInv
<1> QED BY <1>1, IndInvHolds, PTL

\* An rpc_result can only reach the request it answers (MTRequestMessageService
\* routes it by the message id of the context).
THEOREM AnswersReachTheirRequest == Spec => []ContextsAreOwn
<1>1. IndInv => ContextsAreOwn
  BY DEF IndInv
<1> QED BY <1>1, IndInvHolds, PTL

\* waitingForMessageId is never left behind: the completion block that clears
\* it is still held by a transport.
THEOREM NobodyWaitsInVain == Spec => []WaitingIsOwed
<1>1. IndInv => WaitingIsOwed
  BY DEF IndInv
<1> QED BY <1>1, IndInvHolds, PTL

\* rpc_drop_answer never names the message of a live request.
THEOREM DropsAreSafe == Spec => []DropsOnlyCancelled
<1>1. IndInv => DropsOnlyCancelled
  BY DEF IndInv
<1> QED BY <1>1, IndInvHolds, PTL

\* The completed block of a request runs at most once.
THEOREM CompletionIsUnique == Spec => []CompletedOnce
<1>1. IndInv => CompletedOnce
  BY DEF IndInv
<1> QED BY <1>1, IndInvHolds, PTL

-----------------------------------------------------------------------------
(* Wake-ups *)

\* A request is in need of a wake-up when it could be sent, has no message and
\* no errorContext.
Needy(r) == Sendable(r) /\ ~HasContext(r) /\ executeTime[r] = "nil"

\* A step that makes no request needy and keeps the flag keeps NoLostWakeUp.
LEMMA QuietStep ==
  ASSUME NoLostWakeUp, transactionRequested => transactionRequested',
         \A r \in Requests : Needy(r)' => Needy(r) \/ transactionRequested'
  PROVE  NoLostWakeUp'
  BY DEF NoLostWakeUp, Needy, ToSend

\* No step makes a request sendable without asking for a transaction.
LEMMA StepNoLostWakeUp == IndInv /\ NoLostWakeUp /\ [Next]_serviceVars => NoLostWakeUp'
<1> SUFFICES ASSUME IndInv, NoLostWakeUp, [Next]_serviceVars PROVE NoLostWakeUp'
  OBVIOUS
<1> USE DEF Needy, Sendable, Queued, HasContext, RequestTransactionIf
<1>1. CASE UNCHANGED serviceVars
  BY <1>1, QuietStep DEF serviceVars
<1>2. ASSUME NEW r \in Requests, Client(r)
      PROVE  NoLostWakeUp'
  <2>1. CASE AddRequest(r)
    BY <2>1, QuietStep DEF AddRequest
  <2>2. CASE RemoveRequestByInternalId(r)
    BY <2>2, QuietStep DEF RemoveRequestByInternalId, UpdateRequestsTimer, IndInv, TypeOK
  <2> QED BY <1>2, <2>1, <2>2 DEF Client
<1>3. ASSUME NEW r \in Requests, Answered(r)
      PROVE  NoLostWakeUp'
  <2>1. AnswerFor(r) /\ UpdateRequestsTimer(FALSE)
    BY <1>3 DEF Answered, ReceivedResult, ReceivedPasswordNeeded, ReceivedFinalError,
       ReceivedUnauthorized, ReceivedRetryableError
  <2>2. transactionRequested => transactionRequested'
    BY <2>1 DEF UpdateRequestsTimer
  <2>3. \/ position'[r] = 0
        \/ executeTime'[r] # "nil"
    BY <1>3 DEF Answered, ReceivedResult, ReceivedPasswordNeeded, ReceivedFinalError,
       ReceivedUnauthorized, ReceivedRetryableError, FinishRequest, RestartRequest,
       IndInv, TypeOK
  <2>4. \A q \in Requests \ {r} :
          /\ position'[q] = position[q] /\ executeTime'[q] = executeTime[q]
          /\ waitingForTokenExport'[q] = waitingForTokenExport[q]
          /\ requestContext'[q] = requestContext[q]
    BY <1>3, <2>1 DEF Answered, ReceivedResult, ReceivedPasswordNeeded, ReceivedFinalError,
       ReceivedUnauthorized, ReceivedRetryableError, FinishRequest, RestartRequest,
       AnswerFor, IndInv, TypeOK
  <2>5. passwordInputRequired => passwordInputRequired'
    BY <1>3 DEF Answered, ReceivedResult, ReceivedPasswordNeeded, ReceivedFinalError,
       ReceivedUnauthorized, ReceivedRetryableError
  <2> QED BY <2>2, <2>3, <2>4, <2>5, QuietStep
<1>4. ASSUME NEW r \in Requests, DeadlinePasses(r)
      PROVE  NoLostWakeUp'
  BY <1>4, QuietStep DEF DeadlinePasses, IndInv, TypeOK
<1>5. CASE Transport
  <2>1. CASE MessageTransaction
    <3>1. PICK requestIds \in [ToSend -> MessageIds],
               dropIds \in [DOMAIN dropResponseContexts -> MessageIds] :
            Prepare(requestIds, dropIds)
      BY <2>1 DEF MessageTransaction
    <3>2. \A r \in ToSend : requestContext'[r].messageId # None
      <4>1. \A r \in ToSend : NewContext(requestIds[r], None, TRUE, ~apiInitialized).messageId # None
        <5> SUFFICES ASSUME NEW r \in ToSend
                     PROVE  NewContext(requestIds[r], None, TRUE, ~apiInitialized).messageId # None
          OBVIOUS
        <5>1. requestIds[r] \in MessageIds /\ None \notin MessageIds
          BY DEF None, MessageIds
        <5> QED BY <5>1 DEF NewContext
      <4> QED BY <3>1, <4>1 DEF Prepare, ToSend
    <3>3. \A r \in Requests \ ToSend : requestContext'[r] = requestContext[r]
      BY <3>1 DEF Prepare
    <3> QED BY <2>1, <3>2, <3>3 DEF MessageTransaction, NoLostWakeUp, ToSend
  <2>2. CASE NothingToSend
    BY <2>2 DEF NothingToSend, NoLostWakeUp, ToSend
  <2>3. ASSUME NEW t \in transactions, NEW payload \in SUBSET t.pending,
               NEW last \in BOOLEAN, NEW accepted \in BOOLEAN,
               CompletePayload(t, payload, last, accepted)
        PROVE  NoLostWakeUp'
    <3>1. /\ t.requestIds \in [DOMAIN t.requestIds -> MessageIds]
          /\ None \notin MessageIds
      BY DEF IndInv, TypeOK, Transaction, None, MessageIds
    <3>2. \A r \in Requests : requestContext'[r].messageId = None =>
                                requestContext[r].messageId = None
      BY <2>3, <3>1, CompletedContexts
    <3> QED BY <2>3, <3>2, QuietStep DEF CompletePayload
  <2>4. ASSUME NEW C \in SUBSET Connections, TransactionsMayHaveFailed(C)
        PROVE  NoLostWakeUp'
    <3>1. \A r \in Requests : requestContext'[r].messageId = requestContext[r].messageId
      BY <2>4, ContextUpdates DEF TransactionsMayHaveFailed, SetContexts, IndInv, TypeOK
    <3> QED BY <2>4, <3>1, QuietStep DEF TransactionsMayHaveFailed, SetContexts
  <2> QED BY <1>5, <2>1, <2>2, <2>3, <2>4 DEF Transport
<1>6. CASE Server
  <2>8. ASSUME NEW m \in Generated, ReceivedDropResult(m)
        PROVE  NoLostWakeUp'
    BY <2>8, QuietStep DEF ReceivedDropResult
  <2>9. ASSUME NEW m \in Generated, ReceivedUnmatched(m)
        PROVE  NoLostWakeUp'
    BY <2>9, QuietStep DEF ReceivedUnmatched, UpdateRequestsTimer
  <2>1. ASSUME NEW m \in Generated, MessageDeliveryConfirmed(m)
        PROVE  NoLostWakeUp'
    <3>1. \A r \in Requests : requestContext'[r].messageId = requestContext[r].messageId
      BY <2>1, ContextUpdates DEF MessageDeliveryConfirmed, SetContexts, IndInv, TypeOK
    <3> QED BY <2>1, <3>1, QuietStep DEF MessageDeliveryConfirmed, SetContexts
  <2>2. ASSUME NEW m \in Generated, NEW c \in Connections, ShouldRequestMessageWithId(m, c)
        PROVE  NoLostWakeUp'
    <3>1. \A r \in Requests : requestContext'[r].messageId = requestContext[r].messageId
      BY <2>2 DEF ShouldRequestMessageWithId, SetContexts, IndInv, TypeOK, RequestContext
    <3> QED BY <2>2, <3>1, QuietStep DEF ShouldRequestMessageWithId, SetContexts
  <2>3. ASSUME NEW m \in Generated, MessageDeliveryFailed(m)
        PROVE  NoLostWakeUp'
    BY <2>3, QuietStep DEF MessageDeliveryFailed, SetContexts, ClearContext
  <2>4. ASSUME NEW m \in Generated, MessageResendRequestFailed(m)
        PROVE  NoLostWakeUp'
    BY <2>4, QuietStep DEF MessageResendRequestFailed, SetContexts, ClearContext
  <2>5. ASSUME NEW m \in Generated, NEW valid, MtProtoServerDidChangeSession(m, valid)
        PROVE  NoLostWakeUp'
    BY <2>5, QuietStep DEF MtProtoServerDidChangeSession, SetContexts, ClearContext
  <2>6. CASE MtProtoDidChangeSession
    BY <2>6, QuietStep DEF MtProtoDidChangeSession, SetContexts, ClearContext
  <2>7. CASE MtProtoAuthTokenUpdated
    BY <2>7, QuietStep DEF MtProtoAuthTokenUpdated
  <2> QED BY <1>6, <2>1, <2>2, <2>3, <2>4, <2>5, <2>6, <2>7,
           <2>8, <2>9 DEF Server
<1>7. CASE PasswordEntered \/ RequestTimerEvent
  BY <1>7, QuietStep DEF PasswordEntered, RequestTimerEvent
<1> QED BY <1>1, <1>2, <1>3, <1>4, <1>5, <1>6, <1>7 DEF Next

\* Whatever takes a message away from a request, or lifts what held the request
\* back, also asks for a transaction.
THEOREM WakeUpsAreKept == Spec => []NoLostWakeUp
<1>1. Init => NoLostWakeUp
  BY DEF Init, NoLostWakeUp, ToSend, Sendable, Queued
<1> QED BY <1>1, StepNoLostWakeUp, IndInvHolds, PTL DEF Spec

-----------------------------------------------------------------------------
(* invokeAfterMsg *)

\* Transactions are numbered in the order in which they are built.
NumbersAreUsed == \A t \in transactions : t.no <= built

\* A step that does not build a transaction adds none with a new number: a
\* completion only replaces a transaction by what is left of it.
LEMMA NoNewTransaction ==
  ASSUME IndInv, [Next]_serviceVars, ~MessageTransaction
  PROVE  /\ built' = built
         /\ \A t \in transactions' : \E s \in transactions : t.no = s.no
<1>1. CASE UNCHANGED <<transactions, built>>
  BY <1>1
<1>2. ASSUME NEW t \in transactions, NEW payload \in SUBSET t.pending,
             NEW last \in BOOLEAN, NEW accepted \in BOOLEAN,
             CompletePayload(t, payload, last, accepted)
      PROVE  /\ built' = built
             /\ \A u \in transactions' : \E s \in transactions : u.no = s.no
  <2>1. built' = built
    BY <1>2 DEF CompletePayload
  <2>2. \A u \in transactions' :
          u \in transactions \/ u = [t EXCEPT !.pending = t.pending \ payload]
    BY <1>2 DEF CompletePayload
  <2>3. [t EXCEPT !.pending = t.pending \ payload].no = t.no
    BY DEF IndInv, TypeOK, Transaction
  <2> QED BY <2>1, <2>2, <2>3
<1>3. CASE UNCHANGED serviceVars
  BY <1>1, <1>3 DEF serviceVars
<1>4. ASSUME NEW r \in Requests, Client(r) \/ Answered(r) \/ DeadlinePasses(r)
      PROVE  UNCHANGED <<transactions, built>>
  BY <1>4 DEF Client, AddRequest, RemoveRequestByInternalId, DeadlinePasses,
     Answered, AnswerFor, ReceivedResult, ReceivedPasswordNeeded,
     ReceivedFinalError, ReceivedUnauthorized, ReceivedRetryableError
<1>5. CASE NothingToSend \/ \E C \in SUBSET Connections : TransactionsMayHaveFailed(C)
  BY <1>1, <1>5 DEF NothingToSend, TransactionsMayHaveFailed, SetContexts
<1>6. CASE Server
  <2>1. UNCHANGED <<transactions, built>>
    BY <1>6 DEF Server, ReceivedDropResult, ReceivedUnmatched, SetContexts,
       MessageDeliveryConfirmed, MessageDeliveryFailed, MessageResendRequestFailed,
       ShouldRequestMessageWithId, MtProtoServerDidChangeSession,
       MtProtoDidChangeSession, MtProtoAuthTokenUpdated
  <2> QED BY <1>1, <2>1
<1>7. CASE PasswordEntered \/ RequestTimerEvent
  BY <1>1, <1>7 DEF PasswordEntered, RequestTimerEvent
<1> QED BY <1>1, <1>2, <1>3, <1>4, <1>5, <1>6, <1>7 DEF Next, Transport

\* The numbers of the transactions stay used.
LEMMA StepNumbers ==
  ASSUME IndInv, NumbersAreUsed, [Next]_serviceVars
  PROVE  NumbersAreUsed'
<1>0. built \in Nat /\ \A t \in transactions : t.no \in Nat
  BY DEF IndInv, TypeOK, Transaction
<1>1. CASE MessageTransaction
  <2>1. built' = built + 1
    BY <1>1 DEF MessageTransaction
  <2>2. \A t \in transactions' : t \in transactions \/ t.no = built + 1
    BY <1>1 DEF MessageTransaction, Prepare
  <2> QED BY <1>0, <2>1, <2>2 DEF NumbersAreUsed
<1>2. CASE ~MessageTransaction
  BY <1>2, NoNewTransaction DEF NumbersAreUsed
<1> QED BY <1>1, <1>2

\* decorateRequestData finds one request at most: two requests of the queue
\* have different places.
LEMMA OneDependency ==
  ASSUME IndInv, NEW r \in Requests, NEW q \in Dependency(r)
  PROVE  Dependency(r) = {q}
<1>1. \A p \in Dependency(r) : p \in Queued /\ position[p] <= position[q] /\ position[q] <= position[p]
  BY DEF Dependency
<1>2. \A p \in Queued : position[p] \in Nat
  BY DEF IndInv, TypeOK, Queued
<1> QED BY <1>1, <1>2 DEF IndInv, PositionsDiffer

\* A message that is prepared names the message its dependency has after the
\* transaction was built, whether it had it before or gets it now.
LEMMA PreparedRefersTo ==
  ASSUME IndInv, NEW requestIds \in [ToSend -> MessageIds],
         NEW dropIds \in [DOMAIN dropResponseContexts -> MessageIds],
         Prepare(requestIds, dropIds),
         NEW r \in ToSend, NEW q \in Dependency(r)
  PROVE  messages'[requestIds[r]].refersTo = requestContext'[q].messageId
<1>1. \A p \in ToSend : requestIds[p] = requestIds[r] => p = r
  BY IdsDiffer DEF Prepare
<1>2. requestIds[r] \in IdsOf(requestIds)
  BY DEF IdsOf
<1>3. (CHOOSE p \in DOMAIN requestIds : requestIds[p] = requestIds[r]) = r
  BY <1>1
<1>4. messages'[requestIds[r]].refersTo = InvokeAfter(r, requestIds)
  <2>1. messages'[requestIds[r]] = Carried(requestIds[r], requestIds, dropIds)
    BY <1>2 DEF Prepare
  <2>2. Carried(requestIds[r], requestIds, dropIds) =
          [request |-> r, isDrop |-> FALSE, refersTo |-> InvokeAfter(r, requestIds),
           written |-> (requestIds[r] \in Generated /\ messages[requestIds[r]].written)]
    BY <1>2, <1>3 DEF Carried
  <2> QED BY <2>1, <2>2
<1>5. r \in Requests /\ q \in Queued /\ q \in Requests
  BY DEF ToSend, Dependency, Queued
<1>6. (CHOOSE p \in Dependency(r) : TRUE) = q
  BY <1>5, OneDependency
<1>7. InvokeAfter(r, requestIds) =
        IF HasContext(q) THEN requestContext[q].messageId
        ELSE IF q \in ToSend THEN requestIds[q] ELSE None
  BY <1>6 DEF InvokeAfter
<1>8. CASE q \in ToSend
  <2>1. requestContext'[q].messageId = requestIds[q]
    BY <1>5, <1>8 DEF Prepare, NewContext
  <2>2. HasContext(q) => requestIds[q] = requestContext[q].messageId
    BY <1>8 DEF Prepare, FreshIds
  <2> QED BY <1>4, <1>7, <1>8, <2>1, <2>2
<1>9. CASE q \notin ToSend
  <2>1. requestContext'[q] = requestContext[q]
    BY <1>5, <1>9 DEF Prepare
  <2> QED BY <1>4, <1>7, <1>9, <2>1 DEF HasContext
<1> QED BY <1>8, <1>9

\* Every step names dependencies, because only building a transaction decorates.
LEMMA StepDependencies ==
  ASSUME IndInv, NumbersAreUsed, [Next]_serviceVars
  PROVE  \A t \in transactions' \ transactions : t.no > built =>
           \A r \in DOMAIN t.requestIds : \A q \in Dependency(r) :
             messages'[t.requestIds[r]].refersTo = requestContext'[q].messageId
<1>0. built \in Nat /\ \A t \in transactions : t.no \in Nat
  BY DEF IndInv, TypeOK, Transaction
<1>1. CASE MessageTransaction
  <2>1. PICK requestIds \in [ToSend -> MessageIds],
             dropIds \in [DOMAIN dropResponseContexts -> MessageIds] :
          Prepare(requestIds, dropIds)
    BY <1>1 DEF MessageTransaction
  <2>2. \A t \in transactions' \ transactions : t.requestIds = requestIds
    BY <2>1 DEF Prepare
  <2> QED BY <2>1, <2>2, PreparedRefersTo
<1>2. CASE ~MessageTransaction
  BY <1>0, <1>2, NoNewTransaction DEF NumbersAreUsed
<1> QED BY <1>1, <1>2

\* invokeAfterMsg names the message of the dependency (decorateRequestData and
\* the dynamicDecorator), for every queue and every order of the requests in it.
THEOREM PrefixesAreNamed == Spec => DependenciesNamed
<1>1. Init => NumbersAreUsed
  BY DEF Init, NumbersAreUsed
<1>2. IndInv /\ NumbersAreUsed /\ [Next]_serviceVars => NumbersAreUsed'
  BY StepNumbers
<1>3. IndInv /\ NumbersAreUsed /\ [Next]_serviceVars =>
        [\A t \in transactions' \ transactions : t.no > built =>
           \A r \in DOMAIN t.requestIds : \A q \in Dependency(r) :
             messages'[t.requestIds[r]].refersTo = requestContext'[q].messageId]_serviceVars
  BY StepDependencies
<1> QED BY <1>1, <1>2, <1>3, IndInvHolds, PTL DEF Spec, DependenciesNamed

-----------------------------------------------------------------------------
(* The contract *)

\* The initial state of the service is the initial state of the contract.
LEMMA InitContract == Init => Contract!ContractInit
  BY DEF Init, Contract!ContractInit, Status, SentAs, Generated

\* Steps that leave the queue and what messages are for alone are stutters.
LEMMA ContractStutter ==
  ASSUME UNCHANGED <<position, completed, cancelled>>,
         \A r \in Requests : SentAs(r)' = SentAs(r)
  PROVE  UNCHANGED Contract!contractVars
  BY DEF Contract!contractVars, Status

\* Most callbacks change contexts only.
LEMMA ContractSame ==
  ASSUME UNCHANGED <<position, completed, cancelled, messages>>
  PROVE  UNCHANGED Contract!contractVars
  BY DEF Contract!contractVars, Status, SentAs, Generated

\* addRequest is Submit.
LEMMA AddRequestContract ==
  ASSUME IndInv, NEW r \in Requests, AddRequest(r)
  PROVE  Contract!Submit(r)
<1>1. \A q \in Requests : SentAs(q)' = SentAs(q)
  BY DEF AddRequest, SentAs, Generated
<1>2. Status(r) = "new" /\ Status(r)' = "pending"
  BY DEF AddRequest, Status, IndInv, TypeOK
<1>3. \A q \in Requests \ {r} : Status(q)' = Status(q)
  BY DEF AddRequest, Status, IndInv, TypeOK
<1> QED BY <1>1, <1>2, <1>3 DEF Contract!Submit

\* removeRequestByInternalId is Cancel, also for a request that is being sent.
LEMMA RemoveRequestContract ==
  ASSUME IndInv, NEW r \in Requests, RemoveRequestByInternalId(r)
  PROVE  Contract!Cancel(r)
<1>1. \A q \in Requests : SentAs(q)' = SentAs(q)
  BY DEF RemoveRequestByInternalId, SentAs, Generated
<1>2. Status(r) = "pending" /\ Status(r)' = "cancelled"
  BY DEF RemoveRequestByInternalId, Status, IndInv, TypeOK, CompletedOnce, Queued
<1>3. \A q \in Requests \ {r} : Status(q)' = Status(q)
  BY DEF RemoveRequestByInternalId, Status, IndInv, TypeOK
<1> QED BY <1>1, <1>2, <1>3 DEF Contract!Cancel

\* An answer that finishes the request is the contract's Answer: ContextsAreOwn
\* provides the message that was sent for it.
LEMMA FinishContract ==
  ASSUME IndInv, NEW r \in Requests, AnswerFor(r), FinishRequest(r)
  PROVE  Contract!Answer(r)
<1> USE DEF IndInv
<1>1. \A q \in Requests : SentAs(q)' = SentAs(q)
  BY DEF AnswerFor, SentAs, Generated
<1>2. Status(r) = "pending" /\ Status(r)' = "answered"
  BY DEF AnswerFor, FinishRequest, Status, TypeOK, CompletedOnce, Queued
<1>3. \A q \in Requests \ {r} : Status(q)' = Status(q)
  BY DEF AnswerFor, FinishRequest, Status, TypeOK
<1>4. requestContext[r].messageId \in SentAs(r)
  BY DEF AnswerFor, ContextsAreOwn, SentAs
<1> QED BY <1>1, <1>2, <1>3, <1>4 DEF Contract!Answer

\* An rpc_result answers the request, or the request stays in the queue to be
\* tried again, which the client does not see.
LEMMA AnsweredContract ==
  ASSUME IndInv, NEW r \in Requests, Answered(r)
  PROVE  Contract!Answer(r) \/ UNCHANGED Contract!contractVars
<1>1. AnswerFor(r)
  BY DEF Answered, ReceivedResult, ReceivedPasswordNeeded, ReceivedFinalError,
     ReceivedUnauthorized, ReceivedRetryableError
<1>2. FinishRequest(r) \/ UNCHANGED <<position, completed>>
  BY DEF Answered, ReceivedResult, ReceivedPasswordNeeded, ReceivedFinalError,
     ReceivedUnauthorized, ReceivedRetryableError, RestartRequest
<1>3. CASE FinishRequest(r)
  BY <1>1, <1>3, FinishContract
<1>4. CASE UNCHANGED <<position, completed>>
  BY <1>1, <1>4, ContractSame DEF AnswerFor
<1> QED BY <1>2, <1>3, <1>4

\* Building a transaction adds messages of requests that are in the queue.
LEMMA MessageTransactionContract ==
  ASSUME IndInv, MessageTransaction
  PROVE  Contract!SendMessages
<1> USE DEF IndInv
<1>0. PICK requestIds \in [ToSend -> MessageIds],
           dropIds \in [DOMAIN dropResponseContexts -> MessageIds] :
        Prepare(requestIds, dropIds)
  BY DEF MessageTransaction
<1>1. /\ Generated \subseteq DOMAIN messages'
      /\ DOMAIN messages' \subseteq MessageIds
      /\ \A r \in ToSend : messages'[requestIds[r]].request = r
      /\ \A d \in DOMAIN dropIds : messages'[dropIds[d]].isDrop
      /\ \A m \in Generated :
           /\ messages'[m].isDrop = messages[m].isDrop
           /\ ~messages[m].isDrop => messages'[m].request = messages[m].request
  BY <1>0, PreparedMessages
<1>2. \A m \in DOMAIN messages' \ Generated :
        \/ \E r \in ToSend : m = requestIds[r]
        \/ \E d \in DOMAIN dropIds : m = dropIds[d]
  BY <1>0 DEF Prepare, IdsOf
<1>3. \A r \in Requests : SentAs(r) \subseteq SentAs(r)'
  BY <1>1 DEF SentAs, Generated
<1>4. \A r \in Requests : SentAs(r)' # SentAs(r) => Status(r) = "pending"
  <2> SUFFICES ASSUME NEW r \in Requests, NEW m \in SentAs(r)', m \notin SentAs(r)
               PROVE  Status(r) = "pending"
    BY <1>3
  <2>1. m \in DOMAIN messages' /\ messages'[m].request = r /\ ~messages'[m].isDrop
    BY DEF SentAs, Generated
  <2>2. m \notin Generated
    <3> SUFFICES ASSUME m \in Generated PROVE FALSE
      OBVIOUS
    <3>1. ~messages[m].isDrop /\ messages[m].request = r
      BY <1>1, <2>1
    <3> QED BY <3>1 DEF SentAs
  <2>3. r \in ToSend
    BY <1>1, <1>2, <2>1, <2>2
  <2> QED BY <2>3 DEF ToSend, Sendable, Queued, Status
<1>5. \A r \in Requests : SentAs(r)' \in SUBSET MessageIds
  BY <1>1 DEF SentAs, Generated
<1>6. \A r, q \in Requests : r # q => SentAs(r)' \cap SentAs(q)' = {}
  BY DEF SentAs
<1>7. \A r \in Requests : Status(r)' = Status(r)
  BY DEF MessageTransaction, Status
<1> QED BY <1>3, <1>4, <1>5, <1>6, <1>7 DEF Contract!SendMessages

\* A completion marks messages as written and changes nothing else in them.
LEMMA CompletePayloadContract ==
  ASSUME IndInv, NEW t \in transactions, NEW payload \in SUBSET t.pending,
         NEW last \in BOOLEAN, NEW accepted \in BOOLEAN,
         CompletePayload(t, payload, last, accepted)
  PROVE  UNCHANGED Contract!contractVars
<1> USE DEF IndInv
<1>1. /\ DOMAIN messages' = Generated
      /\ \A m \in Generated : /\ messages'[m].request = messages[m].request
                              /\ messages'[m].isDrop = messages[m].isDrop
  <2>1. \A m \in Generated : messages[m] \in Message
    BY DEF TypeOK
  <2>2. CASE accepted
    <3>1. messages' = [m \in Generated |->
                         IF m \in payload THEN [messages[m] EXCEPT !.written = TRUE]
                         ELSE messages[m]]
      BY <2>2 DEF CompletePayload, TransactionCompleted
    <3>2. \A m \in Generated :
            /\ [messages[m] EXCEPT !.written = TRUE].request = messages[m].request
            /\ [messages[m] EXCEPT !.written = TRUE].isDrop = messages[m].isDrop
      BY <2>1 DEF Message
    <3> QED BY <3>1, <3>2
  <2>3. CASE ~accepted
    BY <2>3 DEF CompletePayload, TransactionFailed, Generated
  <2> QED BY <2>2, <2>3
<1>2. \A r \in Requests : SentAs(r)' = SentAs(r)
  BY <1>1 DEF SentAs, Generated
<1> QED BY <1>2, ContractStutter DEF CompletePayload

\* Every step of the service is a step of the contract or leaves it alone.
LEMMA StepContract ==
  ASSUME IndInv, [Next]_serviceVars
  PROVE  [Contract!ContractNext]_(Contract!contractVars)
<1> USE DEF Contract!ContractNext
<1>1. CASE UNCHANGED serviceVars
  BY <1>1, ContractSame DEF serviceVars
<1>2. ASSUME NEW r \in Requests, Client(r)
      PROVE  Contract!ContractNext
  BY <1>2, AddRequestContract, RemoveRequestContract DEF Client
<1>3. ASSUME NEW r \in Requests, Answered(r)
      PROVE  Contract!ContractNext \/ UNCHANGED Contract!contractVars
  BY <1>3, AnsweredContract
<1>4. CASE \E r \in Requests : DeadlinePasses(r)
  BY <1>4, ContractSame DEF DeadlinePasses
<1>5. CASE MessageTransaction
  BY <1>5, MessageTransactionContract
<1>6. ASSUME NEW t \in transactions, NEW payload \in SUBSET t.pending,
             NEW last \in BOOLEAN, NEW accepted \in BOOLEAN,
             CompletePayload(t, payload, last, accepted)
      PROVE  UNCHANGED Contract!contractVars
  BY <1>6, CompletePayloadContract
<1>7. CASE NothingToSend \/ \E C \in SUBSET Connections : TransactionsMayHaveFailed(C)
  BY <1>7, ContractSame DEF NothingToSend, TransactionsMayHaveFailed, SetContexts
<1>8. CASE Server
  <2>1. UNCHANGED <<position, completed, cancelled, messages>>
    BY <1>8 DEF Server, ReceivedDropResult, ReceivedUnmatched, SetContexts,
       MessageDeliveryConfirmed, MessageDeliveryFailed, MessageResendRequestFailed,
       ShouldRequestMessageWithId, MtProtoServerDidChangeSession,
       MtProtoDidChangeSession, MtProtoAuthTokenUpdated
  <2> QED BY <2>1, ContractSame
<1>9. CASE PasswordEntered \/ RequestTimerEvent
  BY <1>9, ContractSame DEF PasswordEntered, RequestTimerEvent
<1> HIDE DEF Contract!ContractNext
<1> QED BY <1>1, <1>2, <1>3, <1>4, <1>5, <1>6, <1>7, <1>8, <1>9 DEF Next, Transport

\* The service implements RpcContract: through resends, late completions,
\* retries and changes of the session, a client sees its request go from new to
\* pending to answered or cancelled, answered only for a message of its own.
THEOREM ContractIsImplemented == Spec => ImplementsContract
<1>1. IndInv /\ [Next]_serviceVars => [Contract!ContractNext]_(Contract!contractVars)
  BY StepContract
<1> QED BY <1>1, InitContract, IndInvHolds, PTL DEF Spec, ImplementsContract, Contract!ContractSpec
=============================================================================
