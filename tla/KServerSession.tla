--------------------------- MODULE KServerSession ---------------------------
(***************************************************************************)
(* One IPC session: client threads send requests and wait for the reply,   *)
(* server threads wait for the session to be signaled, receive a request   *)
(* and reply to it, and either end may be closed at any moment.            *)
(*                                                                         *)
(* A step is what happens under one scheduler lock, or an access to the    *)
(* state of KSession, which no lock protects.  m_lock (a light lock) is    *)
(* taken in the step of the first access it guards.                        *)
(***************************************************************************)
EXTENDS Integers, Sequences, FiniteSets

CONSTANTS
    Clients,        \* client threads
    Servers,        \* server threads
    Terminable,     \* the clients that may be terminated
    NoReq,          \* null request pointer
    Free,           \* nobody holds m_lock
    MaxRequests     \* bound on the requests of all clients together

Requests == [thread : Clients, n : 1 .. MaxRequests, async : BOOLEAN]

ASSUME NoReqAssumption == NoReq \notin Requests /\ MaxRequests \in Nat
ASSUME HoldersAssumption == Servers \cap {Free, "server", "client"} = {} /\ Free \notin {"server", "client"}

VARIABLES
    state,          \* m_atomic_state of KSession
    list,           \* m_request_list
    current,        \* m_current_request
    lock,           \* holder of m_lock
    refs,           \* reference count of each request
    cleared,        \* requests whose thread and event were cleared
    answers,        \* how often a request was answered
    cpc,            \* where each client is
    creq,           \* the request each client made last
    sent,           \* requests made so far, capped by MaxRequests
    terminating,    \* IsTerminationRequested of the clients
    spc,            \* where each server thread is
    sreq,           \* the request each server thread works on
    clientEnd,      \* progress of KClientSession::Destroy
    serverEnd,      \* progress of KServerSession::Destroy
    closing,        \* the request the end that is closing works on
    prev            \* prev_request of OnClientClosed

session == <<state, list, current, lock>>
requests == <<refs, cleared, answers>>
clients == <<cpc, creq, sent, terminating>>
servers == <<spc, sreq>>
ends == <<clientEnd, serverEnd, closing, prev>>
vars == <<session, requests, clients, servers, ends>>

Init ==
    /\ state = "Normal" /\ list = <<>> /\ current = NoReq /\ lock = Free
    /\ refs = [r \in Requests |-> 0] /\ cleared = {} /\ answers = [r \in Requests |-> 0]
    /\ cpc = [c \in Clients |-> "idle"] /\ creq = [c \in Clients |-> NoReq]
    /\ sent = 0 /\ terminating = [c \in Clients |-> FALSE]
    /\ spc = [s \in Servers |-> "idle"] /\ sreq = [s \in Servers |-> NoReq]
    /\ clientEnd = "open" /\ serverEnd = "open"
    /\ closing = [e \in {"client", "server"} |-> NoReq] /\ prev = NoReq
-----------------------------------------------------------------------------
(* Signaling.                                                              *)

\* IsSignaled, for the session as it is after the step.
IsSignaledIn(st, ls, cur) == st # "Normal" \/ (ls # <<>> /\ cur = NoReq)
IsSignaled == IsSignaledIn(state, list, current)

\* NotifyAvailable ends the wait of the server threads if the session is
\* signaled; they go on to label pc with the result they are given.
NotifyAvailable(pc) ==
    spc' = [s \in Servers |-> IF spc[s] = "waiting" /\ IsSignaledIn(state, list', current')
                              THEN pc ELSE spc[s]]

-----------------------------------------------------------------------------
(* Clients.                                                                *)

Accepts(c) == state = "Normal" /\ ~terminating[c]

\* Mutant: a request is announced only while another one is being served.
AnnouncedIfBusy == list = <<>> /\ current # NoReq
Announced == list = <<>>

\* SendSyncRequest and SendAsyncRequest: the request is created, opened for the
\* list and queued.  A request that is refused leaves nothing behind.
OnRequest(c, isAsync) ==
    LET r == [thread |-> c, n |-> sent + 1, async |-> isAsync]
    IN  /\ cpc[c] = "idle" /\ clientEnd = "open"
        /\ sent < MaxRequests
        /\ Accepts(c)
        /\ list' = Append(list, r)
        /\ current' = current
        /\ IF Announced THEN NotifyAvailable("receive") ELSE UNCHANGED spc
        /\ refs' = [refs EXCEPT ![r] = 2]
        /\ cpc' = [cpc EXCEPT ![c] = IF isAsync THEN "return" ELSE "waiting"]
        /\ creq' = [creq EXCEPT ![c] = r]
        /\ sent' = sent + 1
        /\ UNCHANGED <<state, lock, cleared, answers, terminating, sreq, ends>>

\* The client closes its reference to the request when the call returns.
Return(c) ==
    /\ cpc[c] = "return"
    /\ cpc' = [cpc EXCEPT ![c] = "idle"]
    /\ refs' = [refs EXCEPT ![creq[c]] = @ - 1]
    /\ UNCHANGED <<session, cleared, answers, creq, sent, terminating, servers, ends>>

\* Mutant: the wait is ended without a look whether the thread is waiting.
WaitEndedUnchecked(c) == [cpc EXCEPT ![c] = "return"]
\* EndWait and CancelWait of the client c do something only while it waits.
WaitEnded(c) == [cpc EXCEPT ![c] = IF @ = "waiting" THEN "return" ELSE @]

\* Termination cancels the wait of the client.
RequestTerminate(c) ==
    /\ c \in Terminable /\ ~terminating[c]
    /\ terminating' = [terminating EXCEPT ![c] = TRUE]
    /\ cpc' = WaitEnded(c)
    /\ UNCHANGED <<session, requests, creq, sent, servers, ends>>
-----------------------------------------------------------------------------
(* Answering a request: the event of an asynchronous one is signaled, the   *)
(* wait of a synchronous one is ended.                                      *)

CanEndWait(c) == ~terminating[c]

Answered(r) == r \notin cleared /\ (r.async \/ CanEndWait(r.thread))

\* Answer r and close the reference that the queue had.
Answer(r) ==
    /\ answers' = [answers EXCEPT ![r] = IF Answered(r) THEN @ + 1 ELSE @]
    /\ cpc' = IF Answered(r) /\ ~r.async THEN WaitEnded(r.thread) ELSE cpc
    /\ refs' = [refs EXCEPT ![r] = @ - 1]
-----------------------------------------------------------------------------
(* Server threads.                                                          *)

\* KSynchronizationObject::Wait on the session.
Wait(s) ==
    /\ spc[s] = "idle" /\ serverEnd = "open"
    /\ spc' = [spc EXCEPT ![s] = IF IsSignaled THEN "receive" ELSE "waiting"]
    /\ UNCHANGED <<session, requests, clients, sreq, ends>>

\* The wait times out.
WaitTimedOut(s) ==
    /\ spc[s] = "waiting"
    /\ spc' = [spc EXCEPT ![s] = "idle"]
    /\ UNCHANGED <<session, requests, clients, sreq, ends>>

\* Mutant: a second request is received while one is being served.
CanReceiveBusy == state = "Normal" /\ list # <<>>
CanReceive == state = "Normal" /\ current = NoReq /\ list # <<>>

\* ReceiveRequest, up to the request that is popped.
ReceiveRequest(s) ==
    /\ spc[s] = "receive" /\ lock = Free
    /\ IF CanReceive
       THEN /\ lock' = s
            /\ sreq' = [sreq EXCEPT ![s] = Head(list)]
            /\ list' = Tail(list)
            /\ spc' = [spc EXCEPT ![s] = "set"]
       ELSE /\ spc' = [spc EXCEPT ![s] = "idle"]
            /\ UNCHANGED <<lock, sreq, list>>
    /\ UNCHANGED <<state, current, requests, clients, ends>>

\* m_current_request is set without the scheduler lock.
SetCurrent(s) ==
    /\ spc[s] = "set"
    /\ current' = sreq[s]
    /\ spc' = [spc EXCEPT ![s] = "message"]
    /\ UNCHANGED <<state, list, lock, requests, clients, sreq, ends>>

ReceiveMessage(s) ==
    /\ spc[s] = "message"
    /\ lock' = Free
    /\ spc' = [spc EXCEPT ![s] = "handling"]
    /\ UNCHANGED <<state, list, current, requests, clients, sreq, ends>>

Remain == list # <<>>

\* Mutant: the request that is being answered stays the current one.
AfterTakeKept == current
AfterTake == NoReq

\* Clears the current request, announces the next one; s goes on to answer.
TakeCurrent(s) ==
    /\ current' = AfterTake
    /\ list' = list
    /\ LET woken == [u \in Servers |-> IF Remain /\ spc[u] = "waiting"
                                          /\ IsSignaledIn(state, list, NoReq)
                                       THEN "receive" ELSE spc[u]]
       IN  spc' = [woken EXCEPT ![s] = "answer"]
    /\ lock' = s
    /\ UNCHANGED <<state, requests, clients, ends>>

\* The message could not be received.
ReceiveFails(s) ==
    /\ spc[s] = "message"
    /\ TakeCurrent(s)
    /\ UNCHANGED sreq

SendReply(s) ==
    /\ spc[s] = "handling" /\ serverEnd = "open" /\ lock = Free
    /\ IF current # NoReq
       THEN TakeCurrent(s) /\ sreq' = [sreq EXCEPT ![s] = current]
       ELSE /\ spc' = [spc EXCEPT ![s] = "idle"]
            /\ UNCHANGED <<session, requests, clients, sreq, ends>>

\* The handle of the session was closed before the reply.
ReplyToNobody(s) ==
    /\ spc[s] = "handling" /\ serverEnd # "open"
    /\ spc' = [spc EXCEPT ![s] = "idle"]
    /\ UNCHANGED <<session, requests, clients, sreq, ends>>

FinishReply(s) ==
    /\ spc[s] = "answer"
    /\ Answer(sreq[s])
    /\ lock' = Free
    /\ sreq' = [sreq EXCEPT ![s] = NoReq]
    /\ spc' = [spc EXCEPT ![s] = "idle"]
    /\ UNCHANGED <<state, list, current, cleared, creq, sent, terminating, ends>>
-----------------------------------------------------------------------------
(* Closing the server end.                                                  *)

\* The last handle is closed; Destroy runs when no thread is in a call.
CloseServer ==
    /\ serverEnd = "open"
    /\ serverEnd' = "closed"
    /\ UNCHANGED <<session, requests, clients, servers, clientEnd, closing, prev>>

\* OnServerClosed reads the state, and writes it in a second step.
OnServerClosed ==
    /\ \/ /\ serverEnd = "closed"
          /\ \A s \in Servers : spc[s] \in {"idle", "handling"}
          /\ serverEnd' = IF state = "Normal" THEN "set" ELSE "cleanup"
          /\ UNCHANGED state
       \/ /\ serverEnd = "set"
          /\ state' = "ServerClosed"
          /\ serverEnd' = "cleanup"
    /\ UNCHANGED <<list, current, lock, requests, clients, servers, clientEnd, closing, prev>>

\* One round of CleanupRequests: the current request, else the first one.
CleanupTake ==
    /\ serverEnd = "cleanup" /\ lock \in {Free, "server"}
    /\ IF current # NoReq
       THEN /\ closing' = [closing EXCEPT !["server"] = current]
            /\ current' = NoReq /\ list' = list
            /\ serverEnd' = "answer" /\ lock' = "server"
       ELSE IF list # <<>>
       THEN /\ closing' = [closing EXCEPT !["server"] = Head(list)]
            /\ list' = Tail(list) /\ current' = current
            /\ serverEnd' = "answer" /\ lock' = "server"
       ELSE /\ serverEnd' = "done" /\ lock' = Free
            /\ UNCHANGED <<closing, list, current>>
    /\ UNCHANGED <<state, requests, clients, servers, clientEnd, prev>>

CleanupAnswer ==
    /\ serverEnd = "answer"
    /\ Answer(closing["server"])
    /\ closing' = [closing EXCEPT !["server"] = NoReq]
    /\ serverEnd' = "cleanup"
    /\ UNCHANGED <<session, cleared, creq, sent, terminating, servers, clientEnd, prev>>
-----------------------------------------------------------------------------
(* Closing the client end.                                                  *)

CloseClient ==
    /\ clientEnd = "open"
    /\ clientEnd' = "closed"
    /\ UNCHANGED <<session, requests, clients, servers, serverEnd, closing, prev>>

\* KSession::OnClientClosed; a client in a call holds a reference to its end.
OnClientClosed ==
    /\ \/ /\ clientEnd = "closed"
          /\ \A c \in Clients : cpc[c] = "idle"
          /\ clientEnd' = IF state = "Normal" THEN "set" ELSE "done"
          /\ UNCHANGED state
       \/ /\ clientEnd = "set"
          /\ state' = "ClientClosed"
          /\ clientEnd' = "cleanup"
    /\ UNCHANGED <<list, current, lock, requests, clients, servers, serverEnd, closing, prev>>

FirstLook == current # NoReq /\ current # prev

\* One round of KServerSession::OnClientClosed: the current request, once, and
\* then the queued ones.  The reference of the current one is the server's.
DiscardTake ==
    /\ clientEnd = "cleanup" /\ lock \in {Free, "client"}
    /\ IF FirstLook
       THEN /\ closing' = [closing EXCEPT !["client"] = current] /\ prev' = current
            /\ refs' = [refs EXCEPT ![current] = @ + 1]
            /\ cleared' = cleared \cup (IF terminating[current.thread] THEN {current} ELSE {})
            /\ list' = list /\ lock' = "client" /\ clientEnd' = "looked"
            /\ UNCHANGED spc
       ELSE IF list # <<>>
       THEN /\ closing' = [closing EXCEPT !["client"] = Head(list)]
            /\ list' = Tail(list) /\ lock' = "client" /\ clientEnd' = "answer"
            /\ UNCHANGED <<prev, refs, cleared, spc>>
       ELSE /\ lock' = Free /\ clientEnd' = "done" /\ list' = list
            /\ spc' = [s \in Servers |-> IF spc[s] = "waiting" THEN "idle" ELSE spc[s]]
            /\ UNCHANGED <<closing, prev, refs, cleared>>
    /\ UNCHANGED <<state, current, answers, clients, sreq, serverEnd>>

\* Only the event of an asynchronous request that was queued is signaled.
DiscardFinish ==
    /\ clientEnd \in {"looked", "answer"}
    /\ LET r == closing["client"]
       IN  /\ refs' = [refs EXCEPT ![r] = @ - 1]
           /\ answers' = [answers EXCEPT ![r] = IF clientEnd = "answer" /\ r.async
                                                THEN @ + 1 ELSE @]
    /\ closing' = [closing EXCEPT !["client"] = NoReq]
    /\ clientEnd' = "cleanup"
    /\ UNCHANGED <<session, cleared, clients, servers, serverEnd, prev>>
-----------------------------------------------------------------------------
ClientStep(c) == (\E a \in BOOLEAN : OnRequest(c, a)) \/ Return(c) \/ RequestTerminate(c)
ServerStep(s) ==
    \/ Wait(s) \/ ReceiveRequest(s) \/ SetCurrent(s) \/ ReceiveMessage(s)
    \/ ReceiveFails(s) \/ SendReply(s) \/ ReplyToNobody(s) \/ FinishReply(s)
ServerEndStep == OnServerClosed \/ CleanupTake \/ CleanupAnswer
ClientEndStep == OnClientClosed \/ DiscardTake \/ DiscardFinish

Next ==
    \/ \E c \in Clients : ClientStep(c)
    \/ \E s \in Servers : ServerStep(s) \/ WaitTimedOut(s)
    \/ CloseServer \/ ServerEndStep
    \/ CloseClient \/ ClientEndStep

Spec == Init /\ [][Next]_vars

\* A server keeps receiving and replying, and need not give its wait a timeout;
\* when it closes the session, its threads end their waits on it.
\* m_lock is handed to a waiting thread, so nobody is passed over for ever.
Fairness ==
    /\ \A c \in Clients : WF_vars(Return(c))
    /\ \A s \in Servers : /\ SF_vars(ServerStep(s))
                          /\ WF_vars(serverEnd # "open" /\ WaitTimedOut(s))
    /\ SF_vars(ServerEndStep) /\ SF_vars(ClientEndStep)

FairSpec == Spec /\ Fairness
-----------------------------------------------------------------------------
\* The requests that somebody still has to answer.
Working == {sreq[s] : s \in {u \in Servers : spc[u] \in {"set", "answer"}}}
Pending == {list[i] : i \in DOMAIN list} \cup ({current} \ {NoReq}) \cup Working
           \cup ({closing["server"]} \ {NoReq})
           \cup (IF clientEnd = "answer" THEN {closing["client"]} ELSE {})

\* A client waits exactly as long as its request is in the hands of the session:
\* no request of a waiting client is dropped, whichever end is closed, and no
\* reply wakes a client that waits for another one.
WaitingIsPending ==
    \A c \in Clients :
        /\ cpc[c] = "waiting" => creq[c] \in Pending
        /\ \A r \in Pending : (r.thread = c /\ ~r.async /\ ~terminating[c])
                                  => cpc[c] = "waiting" /\ creq[c] = r

\* No request is answered twice, and one that is answered is out of the session.
AnsweredOnce ==
    \A r \in Requests : answers[r] <= 1 /\ (r \in Pending => answers[r] = 0)

\* A request has one reference per place that uses it: the call of the client,
\* the session, and OnClientClosed while it looks at the current request.  It is
\* neither freed while it is in use nor kept when it is not.
RequestRefsExact ==
    \A r \in Requests :
        refs[r] = Cardinality({c \in Clients : cpc[c] # "idle" /\ creq[c] = r})
                  + (IF r \in Pending THEN 1 ELSE 0)
                  + (IF clientEnd = "looked" /\ closing["client"] = r THEN 1 ELSE 0)

\* A synchronous request returns, by a reply or because an end was closed, and the
\* destruction of an end, which answers what the session still has, comes to its
\* end although the other end may be destroyed at the same time.
CallReturns ==
    /\ \A c \in Clients : cpc[c] = "waiting" ~> cpc[c] = "idle"
    /\ serverEnd = "set" ~> serverEnd = "done"
    /\ clientEnd = "set" ~> clientEnd = "done"
=============================================================================
