------------------------ MODULE KServerSessionProofs ------------------------
(***************************************************************************)
(* No request of a session is lost, answered twice or freed in use, for    *)
(* any number of clients, server threads and requests, whichever ends are  *)
(* closed and whichever clients are terminated.                            *)
(*                                                                         *)
(* The invariant has two layers.  PlaceInv says where requests are: m_lock *)
(* keeps all but one thread from moving them, so that each is in one       *)
(* place.  CallInv relates the requests that are anywhere to the calls of  *)
(* the clients.                                                            *)
(***************************************************************************)
EXTENDS KServerSession, TLAPS

\* A leaf goes to Zenon, unless it cites the SMT solver for its arithmetic, records
\* or sequences.
USE ZenonT(30)

Elems(s) == {s[i] : i \in DOMAIN s}
Distinct(s) == \A i, j \in DOMAIN s : s[i] = s[j] => i = j

\* The requests that a thread with m_lock has in its hands.
Hand == Working \cup ({closing["server"]} \ {NoReq})
                \cup (IF clientEnd = "answer" THEN {closing["client"]} ELSE {})

ClientEndStates == {"open", "closed", "set", "cleanup", "looked", "answer", "done"}

\* Who works on a request has m_lock; a request is queued once, is current, or is
\* in the hands of one thread.
PlaceInv ==
    /\ list \in Seq(Requests) /\ Distinct(list)
    /\ current \in Requests \cup {NoReq} /\ current \notin Elems(list)
    /\ DOMAIN spc = Servers /\ sreq \in [Servers -> Requests \cup {NoReq}]
    /\ closing \in [{"client", "server"} -> Requests \cup {NoReq}]
    /\ clientEnd \in ClientEndStates
    /\ \A s \in Servers :
          /\ spc[s] \in {"set", "message", "answer"} => lock = s /\ sreq[s] \in Requests
          /\ spc[s] = "set" => current = NoReq
          /\ spc[s] = "message" => current = sreq[s]
          /\ spc[s] \in {"set", "answer"} => sreq[s] \notin Elems(list) /\ sreq[s] # current
    /\ serverEnd = "answer" <=> closing["server"] # NoReq
    /\ serverEnd = "answer" => /\ lock = "server"
                               /\ closing["server"] \notin Elems(list) /\ closing["server"] # current
    /\ clientEnd \in {"looked", "answer"} => lock = "client" /\ closing["client"] \in Requests
    /\ clientEnd = "looked" => closing["client"] = current
    /\ clientEnd = "answer" => closing["client"] \notin Elems(list) /\ closing["client"] # current

One(p) == IF p THEN 1 ELSE 0

\* The references to a request: that of its client's call, that of the session,
\* and that of OnClientClosed.
References(r) ==
    One(cpc[r.thread] # "idle" /\ creq[r.thread] = r) + One(r \in Pending)
        + One(clientEnd = "looked" /\ closing["client"] = r)

\* The requests and the calls of the clients.  A request that is not made yet is
\* nowhere; a client that is terminating does not wait, and once its end is being
\* destroyed no client is in a call.
CallInv ==
    /\ sent \in Nat /\ cpc \in [Clients -> {"idle", "waiting", "return"}]
    /\ creq \in [Clients -> Requests \cup {NoReq}] /\ DOMAIN terminating = Clients
    /\ answers \in [Requests -> Nat] /\ refs \in [Requests -> Int]
    /\ Pending \subseteq Requests /\ cleared \subseteq Requests
    /\ \A c \in Clients :
          /\ cpc[c] # "idle" => creq[c] \in Requests /\ creq[c].thread = c
          /\ cpc[c] = "waiting" => ~creq[c].async /\ ~terminating[c]
    /\ \A r \in cleared : terminating[r.thread]
    /\ clientEnd \notin {"open", "closed"} => \A c \in Clients : cpc[c] = "idle"
    /\ \A r \in Requests : r.n > sent => answers[r] = 0 /\ r \notin Pending
    /\ WaitingIsPending /\ AnsweredOnce
    /\ \A r \in Requests : refs[r] = References(r)
-----------------------------------------------------------------------------
(* Where requests are.                                                      *)

\* Queueing an element that is not in a sequence.
LEMMA AppendElems ==
    ASSUME NEW S, NEW s \in Seq(S), NEW x \in S
    PROVE  /\ Append(s, x) \in Seq(S) /\ Elems(Append(s, x)) = Elems(s) \cup {x}
           /\ Distinct(s) /\ x \notin Elems(s) => Distinct(Append(s, x))
<1>1. /\ Append(s, x) \in Seq(S) /\ Len(Append(s, x)) = Len(s) + 1
      /\ \A i \in 1 .. Len(s) : Append(s, x)[i] = s[i]
      /\ Append(s, x)[Len(s) + 1] = x
  BY SMTT(60)
<1>2. Len(s) \in Nat /\ DOMAIN s = 1 .. Len(s) /\ DOMAIN Append(s, x) = 1 .. Len(s) + 1
  BY <1>1, SMTT(60)
<1>3. Elems(Append(s, x)) = Elems(s) \cup {x}
  BY <1>1, <1>2, SMTT(60) DEF Elems
<1>4. ASSUME Distinct(s), x \notin Elems(s) PROVE Distinct(Append(s, x))
  BY <1>1, <1>2, <1>4, SMTT(60) DEF Elems, Distinct
<1> QED BY <1>1, <1>3, <1>4

\* Taking the first element off a sequence without repetitions.
LEMMA TailElems ==
    ASSUME NEW S, NEW s \in Seq(S), s # <<>>, Distinct(s)
    PROVE  /\ Head(s) \in S /\ Head(s) \in Elems(s) /\ Tail(s) \in Seq(S)
           /\ Elems(Tail(s)) = Elems(s) \ {Head(s)} /\ Distinct(Tail(s))
<1>1. /\ Head(s) = s[1] /\ Len(s) \in Nat /\ Len(s) >= 1 /\ DOMAIN s = 1 .. Len(s)
      /\ Tail(s) \in Seq(S) /\ DOMAIN Tail(s) = 1 .. Len(s) - 1
      /\ \A i \in 1 .. Len(s) - 1 : Tail(s)[i] = s[i + 1]
  BY SMTT(60)
<1>2. Head(s) \in S /\ Head(s) \in Elems(s)
  BY <1>1, SMTT(60) DEF Elems
<1>3. Elems(Tail(s)) \subseteq Elems(s) \ {Head(s)}
  BY <1>1, SMTT(60) DEF Elems, Distinct
<1>4. ASSUME NEW x \in Elems(s) \ {Head(s)} PROVE x \in Elems(Tail(s))
  <2>1. PICK i \in 1 .. Len(s) : s[i] = x /\ i # 1
    BY <1>1 DEF Elems
  <2>2. i - 1 \in 1 .. Len(s) - 1 /\ Tail(s)[i - 1] = x
    BY <1>1, <2>1, SMTT(60)
  <2> QED BY <1>1, <2>2 DEF Elems
<1>5. Distinct(Tail(s))
  BY <1>1, SMTT(60) DEF Distinct
<1> QED BY <1>1, <1>2, <1>3, <1>4, <1>5

\* The initial state satisfies PlaceInv.
LEMMA InitPlaces == Init => PlaceInv
BY SMTT(60) DEF Init, PlaceInv, Elems, Distinct, ClientEndStates

\* Pending is what is queued, what is current and what is in somebody's hands.
LEMMA PendingParts ==
    /\ Pending = Elems(list) \cup ({current} \ {NoReq}) \cup Hand
    /\ Pending' = Elems(list') \cup ({current'} \ {NoReq}) \cup Hand'
BY DEF Pending, Elems, Hand

\* What has to do with m_lock.
Holds(s) == spc[s] \in {"set", "message", "answer"}

\* A step that moves no request: no thread takes or gives up m_lock.
LeavesPlaces ==
    /\ UNCHANGED <<list, current, lock, sreq, closing>>
    /\ DOMAIN spc' = Servers
    /\ \A s \in Servers : spc'[s] = spc[s] \/ (~Holds(s) /\ ~Holds(s)')
    /\ serverEnd' = serverEnd \/ (serverEnd # "answer" /\ serverEnd' # "answer")
    /\ clientEnd' \in ClientEndStates
    /\ clientEnd' = clientEnd \/ (clientEnd \notin {"looked", "answer"} /\ clientEnd' \notin {"looked", "answer"})

\* A step that moves no request preserves PlaceInv.
LEMMA LeavesPlacesInv ==
    ASSUME PlaceInv, LeavesPlaces PROVE PlaceInv' /\ Pending' = Pending
<1>1. \A s \in Servers : /\ Holds(s)' => spc'[s] = spc[s]
                          /\ spc'[s] \in {"set", "answer"} <=> spc[s] \in {"set", "answer"}
  BY DEF LeavesPlaces, Holds
<1>2. Working' = Working
  <2>1. {u \in Servers : spc'[u] \in {"set", "answer"}} = {u \in Servers : spc[u] \in {"set", "answer"}}
    BY DEF LeavesPlaces, Holds
  <2>2. sreq' = sreq
    BY DEF LeavesPlaces
  <2> QED BY <2>1, <2>2 DEF Working
<1>3. PlaceInv'
  BY <1>1 DEF PlaceInv, LeavesPlaces, Holds
<1>4. Pending' = Pending
  BY <1>2 DEF Pending, LeavesPlaces
<1> QED BY <1>3, <1>4

\* A request that is sent is queued.
LEMMA OnRequestPlaces ==
    ASSUME PlaceInv, CallInv, NEW c \in Clients, NEW a \in BOOLEAN, OnRequest(c, a),
           NEW r, r = [thread |-> c, n |-> sent + 1, async |-> a]
    PROVE  r \in Requests /\ r \notin Pending /\ PlaceInv' /\ Pending' = Pending \cup {r}
<1>1. r \in Requests /\ r.n > sent
  BY NoReqAssumption, SMTT(60) DEF OnRequest, Requests, CallInv
<1>2. r \notin Pending
  BY <1>1 DEF CallInv
<1>3. r \notin Elems(list) /\ r # current /\ r \notin Hand
  BY <1>1, <1>2, PendingParts, NoReqAssumption
<1>4. /\ list' \in Seq(Requests) /\ Distinct(list') /\ Elems(list') = Elems(list) \cup {r}
  BY <1>1, <1>3, AppendElems, SMTT(60) DEF OnRequest, PlaceInv
<1>5. /\ UNCHANGED <<current, lock, sreq, closing, serverEnd, clientEnd>> /\ DOMAIN spc' = Servers
      /\ \A s \in Servers : spc'[s] = spc[s] \/ (~Holds(s) /\ ~Holds(s)')
  BY SMTT(60) DEF OnRequest, ends, NotifyAvailable, PlaceInv, Holds
<1>6. {u \in Servers : spc'[u] \in {"set", "answer"}} = {u \in Servers : spc[u] \in {"set", "answer"}}
  BY <1>5 DEF Holds
<1>7. Working' = Working
  BY <1>5, <1>6 DEF Working
<1>8. Hand' = Hand
  BY <1>5, <1>7 DEF Hand
<1>9. Pending' = Pending \cup {r}
  BY <1>4, <1>5, <1>8, PendingParts
<1>10. \A s \in Servers : spc[s] \in {"set", "answer"} => sreq[s] # r
  BY <1>3 DEF Hand, Working
<1>11. (serverEnd = "answer" => closing["server"] # r) /\ (clientEnd = "answer" => closing["client"] # r)
  BY <1>1, <1>3, NoReqAssumption DEF Hand
<1>12. PlaceInv'
  BY <1>3, <1>4, <1>5, <1>10, <1>11 DEF PlaceInv, Holds
<1> QED BY <1>1, <1>2, <1>9, <1>12

\* A server thread takes m_lock and pops the first request.
LEMMA ReceivePlaces ==
    ASSUME PlaceInv, NEW s \in Servers, ReceiveRequest(s) PROVE PlaceInv' /\ Pending' = Pending
<1>1. CASE CanReceive
  <2> DEFINE r == Head(list)
  <2>1. /\ current = NoReq /\ list # <<>> /\ lock = Free /\ spc[s] = "receive"
        /\ lock' = s /\ list' = Tail(list)
        /\ sreq' = [sreq EXCEPT ![s] = r] /\ spc' = [spc EXCEPT ![s] = "set"]
        /\ UNCHANGED <<current, closing, clientEnd, serverEnd>>
    BY <1>1 DEF ReceiveRequest, CanReceive, ends
  <2>2. /\ r \in Requests /\ r \in Elems(list) /\ list' \in Seq(Requests)
        /\ Elems(list') = Elems(list) \ {r} /\ Distinct(list')
    BY <2>1, TailElems DEF PlaceInv
  <2>3. \A u \in Servers : ~Holds(u)
    BY <2>1, HoldersAssumption DEF PlaceInv, Holds
  <2>4. serverEnd # "answer" /\ clientEnd \notin {"looked", "answer"}
    BY <2>1, HoldersAssumption DEF PlaceInv
  <2>5. /\ \A u \in Servers : spc'[u] = IF u = s THEN "set" ELSE spc[u]
        /\ sreq'[s] = r /\ sreq' \in [Servers -> Requests \cup {NoReq}] /\ DOMAIN spc' = Servers
    BY <2>1, <2>2 DEF PlaceInv
  <2>6. PlaceInv'
    BY <2>1, <2>2, <2>3, <2>4, <2>5, NoReqAssumption DEF PlaceInv, Holds
  <2>7. Working = {} /\ Working' = {r}
    BY <2>3, <2>5 DEF Working, Holds
  <2>8. Hand = {} /\ Hand' = {r}
    BY <2>1, <2>4, <2>7 DEF Hand, PlaceInv
  <2> QED BY <2>1, <2>2, <2>6, <2>8, PendingParts
<1>2. CASE ~CanReceive
  <2>1. LeavesPlaces
    BY <1>2 DEF ReceiveRequest, LeavesPlaces, ends, Holds, PlaceInv
  <2> QED BY <2>1, LeavesPlacesInv
<1> QED BY <1>1, <1>2

\* The popped request becomes the current one.
LEMMA SetCurrentPlaces ==
    ASSUME PlaceInv, NEW s \in Servers, SetCurrent(s) PROVE PlaceInv' /\ Pending' = Pending
<1>1. /\ spc[s] = "set" /\ lock = s /\ current = NoReq /\ current' = sreq[s] /\ sreq[s] \in Requests
      /\ sreq[s] \notin Elems(list)
      /\ UNCHANGED <<list, lock, sreq, closing, clientEnd, serverEnd>>
  BY DEF SetCurrent, PlaceInv, ends
<1>2. \A u \in Servers : u # s => ~Holds(u)
  BY <1>1 DEF PlaceInv, Holds
<1>3. serverEnd # "answer" /\ clientEnd \notin {"looked", "answer"}
  BY <1>1, HoldersAssumption DEF PlaceInv
<1>4. DOMAIN spc' = Servers /\ \A u \in Servers : spc'[u] = IF u = s THEN "message" ELSE spc[u]
  BY DEF SetCurrent, PlaceInv
<1>5. PlaceInv'
  BY <1>1, <1>2, <1>3, <1>4 DEF PlaceInv, Holds
<1>6. Working = {sreq[s]} /\ Working' = {}
  BY <1>1, <1>2, <1>4 DEF Working, Holds
<1>7. Hand = {sreq[s]} /\ Hand' = {}
  BY <1>1, <1>3, <1>6 DEF Hand, PlaceInv
<1> QED BY <1>1, <1>5, <1>7, PendingParts, NoReqAssumption

\* m_lock is given up with the request left as the current one.
LEMMA ReceiveMessagePlaces ==
    ASSUME PlaceInv, NEW s \in Servers, ReceiveMessage(s) PROVE PlaceInv' /\ Pending' = Pending
<1>1. /\ spc[s] = "message" /\ lock = s
      /\ UNCHANGED <<list, current, sreq, closing, clientEnd, serverEnd>>
  BY DEF ReceiveMessage, PlaceInv, ends
<1>2. \A u \in Servers : u # s => ~Holds(u)
  BY <1>1 DEF PlaceInv, Holds
<1>3. serverEnd # "answer" /\ clientEnd \notin {"looked", "answer"}
  BY <1>1, HoldersAssumption DEF PlaceInv
<1>4. DOMAIN spc' = Servers /\ \A u \in Servers : spc'[u] = IF u = s THEN "handling" ELSE spc[u]
  BY DEF ReceiveMessage, PlaceInv
<1>5. PlaceInv'
  BY <1>1, <1>2, <1>3, <1>4 DEF PlaceInv, Holds
<1>6. Working = {} /\ Working' = {}
  BY <1>1, <1>2, <1>4 DEF Working, Holds
<1>7. Hand' = Hand
  BY <1>1, <1>6 DEF Hand
<1> QED BY <1>1, <1>5, <1>7, PendingParts

\* The current request goes to the hands of the thread that answers it.
LEMMA TakeCurrentPlaces ==
    ASSUME PlaceInv, NEW s \in Servers, TakeCurrent(s), current # NoReq,
           lock \in {Free, s}, spc[s] \notin {"set", "answer"},
           sreq' = [sreq EXCEPT ![s] = current]
    PROVE  PlaceInv' /\ Pending' = Pending
<1>1. /\ current' = NoReq /\ lock' = s /\ current \in Requests
      /\ UNCHANGED <<list, closing, clientEnd, serverEnd>>
  BY DEF TakeCurrent, AfterTake, PlaceInv, ends
<1>2. \A u \in Servers : u # s => ~Holds(u)
  BY HoldersAssumption DEF PlaceInv, Holds
<1>3. serverEnd # "answer" /\ clientEnd \notin {"looked", "answer"}
  BY HoldersAssumption DEF PlaceInv
<1>4. DOMAIN spc' = Servers /\ spc'[s] = "answer" /\ \A u \in Servers : u # s => ~Holds(u)'
  BY <1>2 DEF TakeCurrent, Holds
<1>5. sreq'[s] = current /\ sreq' \in [Servers -> Requests \cup {NoReq}]
  BY <1>1 DEF PlaceInv
<1>6. PlaceInv'
  <2>1. \A u \in Servers :
          /\ spc'[u] \in {"set", "message", "answer"} => u = s
          /\ spc'[u] \notin {"set", "message"}
    BY <1>4 DEF Holds
  <2>2. sreq'[s] \notin Elems(list') /\ sreq'[s] # current' /\ sreq'[s] \in Requests
    BY <1>1, <1>5, NoReqAssumption DEF PlaceInv
  <2>3. NoReq \notin Elems(list')
    BY <1>1, NoReqAssumption, SMTT(60) DEF PlaceInv, Elems
  <2> QED BY <1>1, <1>3, <1>4, <1>5, <2>1, <2>2, <2>3 DEF PlaceInv
<1>7. Working = {} /\ Working' = {current}
  BY <1>2, <1>4, <1>5, SMTT(60) DEF Working, Holds
<1>8. Hand = {} /\ Hand' = {current}
  BY <1>1, <1>3, <1>7 DEF Hand, PlaceInv
<1> QED BY <1>1, <1>6, <1>8, PendingParts

\* ReceiveRequest that fails takes the request it has just made current.
LEMMA ReceiveFailsPlaces ==
    ASSUME PlaceInv, NEW s \in Servers, ReceiveFails(s) PROVE PlaceInv' /\ Pending' = Pending
<1>1. spc[s] = "message" /\ lock = s /\ current = sreq[s] /\ sreq[s] \in Requests
  BY DEF ReceiveFails, PlaceInv
<1>2. sreq' = [sreq EXCEPT ![s] = current]
  BY <1>1 DEF ReceiveFails, PlaceInv
<1> QED BY <1>1, <1>2, TakeCurrentPlaces, NoReqAssumption DEF ReceiveFails

\* SendReply takes the current request, if there is one.
LEMMA SendReplyPlaces ==
    ASSUME PlaceInv, NEW s \in Servers, SendReply(s) PROVE PlaceInv' /\ Pending' = Pending
<1>1. CASE current # NoReq
  BY <1>1, TakeCurrentPlaces DEF SendReply
<1>2. CASE current = NoReq
  <2>1. LeavesPlaces
    BY <1>2 DEF SendReply, LeavesPlaces, session, ends, Holds, PlaceInv
  <2> QED BY <2>1, LeavesPlacesInv
<1> QED BY <1>1, <1>2

\* The request that a server thread answers leaves the session.
LEMMA FinishReplyPlaces ==
    ASSUME PlaceInv, NEW s \in Servers, FinishReply(s)
    PROVE  PlaceInv' /\ sreq[s] \in Pending /\ Pending' = Pending \ {sreq[s]}
<1>1. /\ spc[s] = "answer" /\ lock = s /\ lock' = Free
      /\ sreq[s] \in Requests /\ sreq[s] # current /\ sreq[s] \notin Elems(list)
      /\ UNCHANGED <<list, current, closing, clientEnd, serverEnd>>
  BY DEF FinishReply, PlaceInv, ends
<1>2. \A u \in Servers : u # s => ~Holds(u)
  BY <1>1 DEF PlaceInv, Holds
<1>3. serverEnd # "answer" /\ clientEnd \notin {"looked", "answer"}
  BY <1>1, HoldersAssumption DEF PlaceInv
<1>4. DOMAIN spc' = Servers /\ \A u \in Servers : spc'[u] = IF u = s THEN "idle" ELSE spc[u]
  BY DEF FinishReply, PlaceInv
<1>5. sreq' \in [Servers -> Requests \cup {NoReq}]
  BY DEF FinishReply, PlaceInv
<1>6. PlaceInv'
  BY <1>1, <1>2, <1>3, <1>4, <1>5 DEF PlaceInv, Holds
<1>7. Working = {sreq[s]} /\ Working' = {}
  BY <1>1, <1>2, <1>4 DEF Working, Holds
<1>8. Hand = {sreq[s]} /\ Hand' = {}
  BY <1>1, <1>3, <1>7 DEF Hand, PlaceInv
<1> QED BY <1>1, <1>6, <1>8, PendingParts

\* A round of CleanupRequests takes the current request or the first one.
LEMMA CleanupTakePlaces ==
    ASSUME PlaceInv, CleanupTake PROVE PlaceInv' /\ Pending' = Pending
<1>1. /\ serverEnd = "cleanup" /\ lock \in {Free, "server"} /\ closing["server"] = NoReq
      /\ UNCHANGED <<spc, sreq, clientEnd>>
  BY DEF CleanupTake, PlaceInv, servers
<1>2. \A u \in Servers : ~Holds(u) /\ ~Holds(u)'
  BY <1>1, HoldersAssumption DEF PlaceInv, Holds
<1>3. clientEnd \notin {"looked", "answer"}
  BY <1>1, HoldersAssumption DEF PlaceInv
<1>4. Working = {} /\ Working' = {}
  BY <1>2 DEF Working, Holds
<1>5. Hand = {} /\ Hand' = {closing'["server"]} \ {NoReq}
  BY <1>1, <1>3, <1>4 DEF Hand
<1>6. NoReq \notin Elems(list)
  BY NoReqAssumption, SMTT(60) DEF PlaceInv, Elems
<1>7. CASE current # NoReq
  <2>1. /\ closing' = [closing EXCEPT !["server"] = current] /\ current' = NoReq /\ list' = list
        /\ serverEnd' = "answer" /\ lock' = "server" /\ current \in Requests
    BY <1>7 DEF CleanupTake, PlaceInv
  <2>2. /\ closing' \in [{"client", "server"} -> Requests \cup {NoReq}]
        /\ closing'["server"] = current
    BY <2>1 DEF PlaceInv
  <2>3. PlaceInv'
    BY <1>1, <1>2, <1>3, <1>6, <1>7, <2>1, <2>2 DEF PlaceInv, Holds
  <2> QED BY <1>5, <1>7, <2>1, <2>2, <2>3, PendingParts
<1>8. CASE current = NoReq /\ list # <<>>
  <2> DEFINE r == Head(list)
  <2>1. /\ closing' = [closing EXCEPT !["server"] = r] /\ current' = NoReq /\ list' = Tail(list)
        /\ serverEnd' = "answer" /\ lock' = "server"
    BY <1>8 DEF CleanupTake
  <2>2. /\ r \in Requests /\ r \in Elems(list) /\ list' \in Seq(Requests)
        /\ Elems(list') = Elems(list) \ {r} /\ Distinct(list')
    BY <1>8, <2>1, TailElems DEF PlaceInv
  <2>3. /\ closing' \in [{"client", "server"} -> Requests \cup {NoReq}]
        /\ closing'["server"] = r
    BY <2>1, <2>2 DEF PlaceInv
  <2>4. PlaceInv'
    BY <1>1, <1>2, <1>3, <1>6, <1>8, <2>1, <2>2, <2>3, NoReqAssumption DEF PlaceInv, Holds
  <2> QED BY <1>5, <1>6, <1>8, <2>1, <2>2, <2>3, <2>4, PendingParts
<1>9. CASE current = NoReq /\ list = <<>>
  <2>1. UNCHANGED <<closing, list, current>> /\ serverEnd' = "done"
    BY <1>9 DEF CleanupTake
  <2>2. PlaceInv'
    BY <1>1, <1>2, <1>3, <2>1 DEF PlaceInv, Holds
  <2> QED BY <1>1, <1>5, <2>1, <2>2, PendingParts
<1> QED BY <1>7, <1>8, <1>9

\* The request that CleanupRequests answers leaves the session.
LEMMA CleanupAnswerPlaces ==
    ASSUME PlaceInv, CleanupAnswer
    PROVE  /\ PlaceInv' /\ closing["server"] \in Pending
           /\ Pending' = Pending \ {closing["server"]} /\ closing'["client"] = closing["client"]
<1> DEFINE r == closing["server"]
<1>1. /\ serverEnd = "answer" /\ lock = "server" /\ serverEnd' = "cleanup"
      /\ r # NoReq /\ r # current /\ r \notin Elems(list)
      /\ UNCHANGED <<list, current, lock, spc, sreq, clientEnd>>
  BY DEF CleanupAnswer, PlaceInv, servers, session
<1>2. /\ closing' \in [{"client", "server"} -> Requests \cup {NoReq}]
      /\ closing'["server"] = NoReq /\ closing'["client"] = closing["client"]
  BY DEF CleanupAnswer, PlaceInv
<1>3. \A u \in Servers : ~Holds(u) /\ ~Holds(u)'
  BY <1>1, HoldersAssumption DEF PlaceInv, Holds
<1>4. clientEnd \notin {"looked", "answer"}
  BY <1>1 DEF PlaceInv
<1>5. Working = {} /\ Working' = {}
  BY <1>3 DEF Working, Holds
<1>6. Hand = {r} /\ Hand' = {}
  BY <1>1, <1>2, <1>4, <1>5 DEF Hand
<1>7. PlaceInv'
  BY <1>1, <1>2, <1>3, <1>4 DEF PlaceInv, Holds
<1> QED BY <1>1, <1>2, <1>6, <1>7, PendingParts

\* A round of OnClientClosed looks at the current request or takes the first one.
LEMMA DiscardTakePlaces ==
    ASSUME PlaceInv, DiscardTake PROVE PlaceInv' /\ Pending' = Pending
<1>1. /\ clientEnd = "cleanup" /\ lock \in {Free, "client"}
      /\ UNCHANGED <<current, sreq, serverEnd>>
  BY DEF DiscardTake
<1>2. /\ \A u \in Servers : ~Holds(u)
      /\ serverEnd # "answer" /\ closing["server"] = NoReq
  BY <1>1, HoldersAssumption DEF PlaceInv, Holds
<1>3. DOMAIN spc' = Servers /\ \A u \in Servers : ~Holds(u)'
  BY <1>2, SMTT(60) DEF DiscardTake, Holds, PlaceInv
<1>4. Working = {} /\ Working' = {}
  BY <1>2, <1>3 DEF Working, Holds
<1>5. Hand = {}
  BY <1>1, <1>2, <1>4 DEF Hand
<1>6. NoReq \notin Elems(list)
  BY NoReqAssumption, SMTT(60) DEF PlaceInv, Elems
<1>7. CASE FirstLook
  <2>1. /\ closing' = [closing EXCEPT !["client"] = current] /\ list' = list
        /\ lock' = "client" /\ clientEnd' = "looked" /\ current \in Requests
    BY <1>7 DEF DiscardTake, FirstLook, PlaceInv
  <2>2. /\ closing' \in [{"client", "server"} -> Requests \cup {NoReq}]
        /\ closing'["client"] = current /\ closing'["server"] = NoReq
    BY <1>2, <2>1 DEF PlaceInv
  <2>3. PlaceInv'
    BY <1>1, <1>2, <1>3, <2>1, <2>2 DEF PlaceInv, Holds, ClientEndStates
  <2>4. Hand' = {}
    BY <1>4, <2>1, <2>2 DEF Hand
  <2> QED BY <1>1, <1>5, <2>1, <2>3, <2>4, PendingParts
<1>8. CASE ~FirstLook /\ list # <<>>
  <2> DEFINE r == Head(list)
  <2>1. /\ closing' = [closing EXCEPT !["client"] = r] /\ list' = Tail(list)
        /\ lock' = "client" /\ clientEnd' = "answer"
    BY <1>8 DEF DiscardTake
  <2>2. /\ r \in Requests /\ r \in Elems(list) /\ list' \in Seq(Requests)
        /\ Elems(list') = Elems(list) \ {r} /\ Distinct(list')
    BY <1>8, <2>1, TailElems DEF PlaceInv
  <2>3. /\ closing' \in [{"client", "server"} -> Requests \cup {NoReq}]
        /\ closing'["client"] = r /\ closing'["server"] = NoReq
    BY <1>2, <2>1, <2>2 DEF PlaceInv
  <2>4. PlaceInv'
    BY <1>1, <1>2, <1>3, <2>1, <2>2, <2>3 DEF PlaceInv, Holds, ClientEndStates
  <2>5. Hand' = {r}
    BY <1>4, <2>1, <2>3 DEF Hand
  <2> QED BY <1>1, <1>5, <2>1, <2>2, <2>4, <2>5, PendingParts
<1>9. CASE ~FirstLook /\ list = <<>>
  <2>1. UNCHANGED <<closing, list>> /\ clientEnd' = "done"
    BY <1>9 DEF DiscardTake
  <2>2. PlaceInv'
    BY <1>1, <1>2, <1>3, <2>1 DEF PlaceInv, Holds, ClientEndStates
  <2>3. Hand' = {}
    BY <1>2, <1>4, <2>1 DEF Hand
  <2> QED BY <1>1, <1>5, <2>1, <2>2, <2>3, PendingParts
<1> QED BY <1>7, <1>8, <1>9

\* A queued request that OnClientClosed took leaves the session; the current one,
\* which it only looked at, stays.
LEMMA DiscardFinishPlaces ==
    ASSUME PlaceInv, DiscardFinish
    PROVE  /\ PlaceInv' /\ closing["client"] \in Pending
           /\ Pending' = IF clientEnd = "answer" THEN Pending \ {closing["client"]} ELSE Pending
<1> DEFINE r == closing["client"]
<1>1. /\ clientEnd \in {"looked", "answer"} /\ lock = "client" /\ clientEnd' = "cleanup"
      /\ r \in Requests /\ UNCHANGED <<list, current, lock, spc, sreq, serverEnd>>
  BY DEF DiscardFinish, PlaceInv, servers, session
<1>2. /\ closing' \in [{"client", "server"} -> Requests \cup {NoReq}]
      /\ closing'["client"] = NoReq /\ closing'["server"] = closing["server"]
  BY DEF DiscardFinish, PlaceInv
<1>3. \A u \in Servers : ~Holds(u) /\ ~Holds(u)'
  BY <1>1, HoldersAssumption DEF PlaceInv, Holds
<1>4. serverEnd # "answer" /\ closing["server"] = NoReq
  BY <1>1 DEF PlaceInv
<1>5. Working = {} /\ Working' = {}
  BY <1>3 DEF Working, Holds
<1>6. Hand' = {} /\ Hand = IF clientEnd = "answer" THEN {r} ELSE {}
  BY <1>1, <1>2, <1>4, <1>5 DEF Hand
<1>7. PlaceInv'
  BY <1>1, <1>2, <1>3, <1>4 DEF PlaceInv, Holds, ClientEndStates
<1>8. /\ clientEnd = "looked" => r = current
      /\ clientEnd = "answer" => r \notin Elems(list) /\ r # current
  BY DEF PlaceInv
<1>9. r # NoReq
  BY <1>1, NoReqAssumption
<1> QED BY <1>1, <1>6, <1>7, <1>8, <1>9, PendingParts
-----------------------------------------------------------------------------
(* The calls of the clients.                                                *)

\* The initial state satisfies CallInv.
LEMMA InitCalls == Init => CallInv
<1> SUFFICES ASSUME Init PROVE CallInv
  OBVIOUS
<1>1. Pending = {}
  BY SMTT(60) DEF Init, Pending, Working
<1> QED BY <1>1, SMTT(60) DEF Init, CallInv, WaitingIsPending, AnsweredOnce, References, One, Requests

\* OnClientClosed looks at r, which it has opened.
Looked(r) == clientEnd = "looked" /\ closing["client"] = r

\* The fields of a request.
LEMMA RequestFields ==
    \A r \in Requests : r.thread \in Clients /\ r.n \in Nat /\ r.async \in BOOLEAN
BY NoReqAssumption, SMTT(60) DEF Requests

\* A step that touches neither a request nor a client preserves CallInv.
LEMMA CallsSame ==
    ASSUME CallInv, Pending' = Pending, UNCHANGED <<requests, clients>>,
           \A r \in Requests : Looked(r)' = Looked(r),
           clientEnd' \notin {"open", "closed"} => \A c \in Clients : cpc[c] = "idle"
    PROVE  CallInv'
<1>1. UNCHANGED <<refs, cleared, answers, cpc, creq, sent, terminating>>
  BY DEF requests, clients
<1>2. \A r \in Requests : References(r)' = References(r)
  BY <1>1 DEF References, Looked, One
<1>3. WaitingIsPending' /\ AnsweredOnce'
  BY <1>1 DEF CallInv, WaitingIsPending, AnsweredOnce
<1> QED BY <1>1, <1>2, <1>3 DEF CallInv

\* A new request gets the references of its call and of the session.
LEMMA OnRequestCalls ==
    ASSUME CallInv, NEW c \in Clients, NEW a \in BOOLEAN, OnRequest(c, a),
           Pending' = Pending \cup {[thread |-> c, n |-> sent + 1, async |-> a]}
    PROVE  CallInv'
<1> DEFINE r == [thread |-> c, n |-> sent + 1, async |-> a]
<1>1. /\ r \in Requests /\ r.thread = c /\ r.n = sent + 1 /\ r.async = a /\ sent \in Nat
  BY NoReqAssumption, SMTT(60) DEF OnRequest, CallInv, Requests
<1>2. answers[r] = 0 /\ r \notin Pending
  BY <1>1, SMTT(60) DEF CallInv
<1>3. /\ cpc[c] = "idle" /\ clientEnd = "open" /\ ~terminating[c]
      /\ UNCHANGED <<cleared, answers, terminating, clientEnd, closing>>
      /\ sent' = sent + 1 /\ refs' = [refs EXCEPT ![r] = 2]
      /\ cpc' = [cpc EXCEPT ![c] = IF a THEN "return" ELSE "waiting"]
      /\ creq' = [creq EXCEPT ![c] = r]
  BY DEF OnRequest, Accepts, ends
<1>4. /\ cpc'[c] = IF a THEN "return" ELSE "waiting"
      /\ creq'[c] = r
      /\ \A d \in Clients \ {c} : cpc'[d] = cpc[d] /\ creq'[d] = creq[d]
      /\ cpc' \in [Clients -> {"idle", "waiting", "return"}]
      /\ creq' \in [Clients -> Requests \cup {NoReq}]
  BY <1>1, <1>3 DEF CallInv
<1>5. WaitingIsPending'
  <2>1. \A q \in Pending : q.thread = c => q.async \/ terminating[c]
    BY <1>3 DEF CallInv, WaitingIsPending
  <2> QED BY <1>1, <1>3, <1>4, <2>1, RequestFields, SMTT(60) DEF CallInv, WaitingIsPending
<1>6. AnsweredOnce'
  BY <1>1, <1>2, <1>3 DEF CallInv, AnsweredOnce
<1>7. ASSUME NEW q \in Requests PROVE refs'[q] = References(q)'
  <2>1. CASE q = r
    BY <1>1, <1>3, <1>4, <2>1, SMTT(60) DEF CallInv, References, One
  <2>2. CASE q # r
    <3>1. refs'[q] = References(q)
      BY <1>3, <2>2, SMTT(60) DEF CallInv
    <3>2. q \in Pending' <=> q \in Pending
      BY <2>2
    <3>3. (cpc'[q.thread] # "idle" /\ creq'[q.thread] = q)
              <=> (cpc[q.thread] # "idle" /\ creq[q.thread] = q)
      BY <1>3, <1>4, <2>2, RequestFields
    <3> QED BY <1>3, <3>1, <3>2, <3>3 DEF References, One
  <2> QED BY <2>1, <2>2
<1>8. \A q \in Requests : q.n > sent' => answers'[q] = 0 /\ q \notin Pending'
  BY <1>1, <1>3, RequestFields, SMTT(60) DEF CallInv
<1>9. \A d \in Clients :
          /\ cpc'[d] # "idle" => creq'[d] \in Requests /\ creq'[d].thread = d
          /\ cpc'[d] = "waiting" => ~creq'[d].async /\ ~terminating'[d]
  BY <1>1, <1>3, <1>4 DEF CallInv
<1> QED BY <1>1, <1>3, <1>4, <1>5, <1>6, <1>7, <1>8, <1>9, SMTT(60) DEF CallInv

\* A call that returns gives up its reference.
LEMMA ReturnCalls ==
    ASSUME CallInv, NEW c \in Clients, Return(c), Pending' = Pending
    PROVE  CallInv'
<1> DEFINE r == creq[c]
<1>1. /\ cpc[c] = "return" /\ cpc' = [cpc EXCEPT ![c] = "idle"]
      /\ refs' = [refs EXCEPT ![r] = @ - 1] /\ r \in Requests /\ r.thread = c
      /\ UNCHANGED <<cleared, answers, creq, sent, terminating, clientEnd, closing>>
  BY DEF Return, CallInv, ends
<1>2. /\ cpc'[c] = "idle" /\ \A d \in Clients \ {c} : cpc'[d] = cpc[d]
      /\ cpc' \in [Clients -> {"idle", "waiting", "return"}]
  BY <1>1 DEF CallInv
<1>3. WaitingIsPending'
  BY <1>1, <1>2, SMTT(60) DEF CallInv, WaitingIsPending
<1>4. ASSUME NEW q \in Requests PROVE refs'[q] = References(q)'
  <2>1. refs[q] = References(q) /\ q.thread \in Clients
    BY RequestFields DEF CallInv
  <2>2. CASE q = r
    <3>1. refs'[q] = refs[q] - 1
      BY <1>1, <2>2 DEF CallInv
    <3> QED BY <1>1, <1>2, <2>1, <2>2, <3>1, SMTT(60) DEF References, One
  <2>3. CASE q # r
    <3>1. refs'[q] = refs[q]
      BY <1>1, <2>3 DEF CallInv
    <3> QED BY <1>1, <1>2, <2>1, <2>3, <3>1 DEF References, One
  <2> QED BY <2>2, <2>3
<1>5. AnsweredOnce'
  BY <1>1 DEF CallInv, AnsweredOnce
<1>6. refs' \in [Requests -> Int]
  BY <1>1, SMTT(60) DEF CallInv
<1> QED BY <1>1, <1>2, <1>3, <1>4, <1>5, <1>6 DEF CallInv

\* Termination ends the wait of a client; its request stays in the session.
LEMMA RequestTerminateCalls ==
    ASSUME CallInv, NEW c \in Clients, RequestTerminate(c), Pending' = Pending
    PROVE  CallInv'
<1>1. /\ terminating' = [terminating EXCEPT ![c] = TRUE]
      /\ cpc' = [cpc EXCEPT ![c] = IF @ = "waiting" THEN "return" ELSE @]
      /\ UNCHANGED <<refs, cleared, answers, creq, sent, clientEnd, closing>>
  BY DEF RequestTerminate, WaitEnded, requests, ends
<1>2. /\ cpc'[c] = (IF cpc[c] = "waiting" THEN "return" ELSE cpc[c]) /\ terminating'[c]
      /\ \A d \in Clients \ {c} : cpc'[d] = cpc[d] /\ terminating'[d] = terminating[d]
      /\ cpc' \in [Clients -> {"idle", "waiting", "return"}] /\ DOMAIN terminating' = Clients
  BY <1>1 DEF CallInv
<1>3. WaitingIsPending'
  BY <1>1, <1>2, SMTT(60) DEF CallInv, WaitingIsPending
<1>4. ASSUME NEW q \in Requests PROVE refs'[q] = References(q)'
  <2>1. refs[q] = References(q) /\ q.thread \in Clients
    BY RequestFields DEF CallInv
  <2>2. cpc'[q.thread] # "idle" <=> cpc[q.thread] # "idle"
    BY <1>2, <2>1
  <2> QED BY <1>1, <2>1, <2>2 DEF References, One
<1>5. AnsweredOnce'
  BY <1>1 DEF CallInv, AnsweredOnce
<1>6. \A q \in cleared' : terminating'[q.thread]
  BY <1>1, <1>2, RequestFields DEF CallInv
<1> QED BY <1>1, <1>2, <1>3, <1>4, <1>5, <1>6, SMTT(60) DEF CallInv

\* The answer to a pending request reaches the client that waits for it, if that
\* client is not terminating.
LEMMA AnswerCalls ==
    ASSUME CallInv, NEW r \in Pending, Answer(r), Pending' = Pending \ {r},
           clientEnd' = clientEnd, closing'["client"] = closing["client"],
           UNCHANGED <<cleared, creq, sent, terminating>>
    PROVE  CallInv'
<1>1. r \in Requests /\ r.thread \in Clients /\ r.async \in BOOLEAN
  BY RequestFields DEF CallInv
<1> DEFINE c == r.thread
           woken == Answered(r) /\ ~r.async
<1>2. /\ answers' = [answers EXCEPT ![r] = IF Answered(r) THEN @ + 1 ELSE @]
      /\ cpc' = IF woken THEN WaitEnded(c) ELSE cpc
      /\ refs' = [refs EXCEPT ![r] = @ - 1]
  BY DEF Answer
<1>3. woken => cpc[c] = "waiting" /\ creq[c] = r
  BY <1>1 DEF CallInv, WaitingIsPending, Answered, CanEndWait
<1>4. /\ cpc'[c] = (IF woken THEN "return" ELSE cpc[c])
      /\ \A d \in Clients \ {c} : cpc'[d] = cpc[d]
      /\ cpc' \in [Clients -> {"idle", "waiting", "return"}]
  <2>1. CASE woken
    BY <1>1, <1>2, <1>3, <2>1 DEF CallInv, WaitEnded
  <2>2. CASE ~woken
    BY <1>1, <1>2, <2>2 DEF CallInv
  <2> QED BY <2>1, <2>2
<1>5. cpc[c] = "waiting" /\ creq[c] = r => woken
  BY <1>1, SMTT(60) DEF CallInv, Answered, CanEndWait
<1>6. \A q \in Requests : (cpc'[q.thread] # "idle") = (cpc[q.thread] # "idle")
  BY <1>4, <1>3, RequestFields
<1>7. WaitingIsPending'
  <2>1. ASSUME NEW d \in Clients, cpc'[d] = "waiting" PROVE creq'[d] \in Pending'
    <3>1. cpc[d] = "waiting" /\ creq[d] \in Pending /\ creq[d] \in Requests /\ creq[d].thread = d
      BY <1>4, <2>1 DEF CallInv, WaitingIsPending
    <3>2. creq[d] # r
      BY <1>4, <1>5, <2>1, <3>1
    <3> QED BY <3>1, <3>2
  <2>2. ASSUME NEW d \in Clients, NEW q \in Pending', q.thread = d, ~q.async, ~terminating[d]
        PROVE  cpc'[d] = "waiting" /\ creq'[d] = q
    <3>1. cpc[d] = "waiting" /\ creq[d] = q /\ q # r
      BY <2>2, SMTT(60) DEF CallInv, WaitingIsPending
    <3> QED BY <1>4, <1>3, <3>1
  <2> QED BY <2>1, <2>2 DEF WaitingIsPending
<1>8. answers' \in [Requests -> Nat] /\ AnsweredOnce'
  BY <1>1, <1>2, SMTT(60) DEF CallInv, AnsweredOnce
<1>9. ASSUME NEW q \in Requests PROVE refs'[q] = References(q)'
  <2>1. refs[q] = References(q)
    BY DEF CallInv
  <2>2. refs'[q] = IF q = r THEN refs[q] - 1 ELSE refs[q]
    BY <1>1, <1>2 DEF CallInv
  <2>3. (q \in Pending') = (q \in Pending /\ q # r)
    BY SMTT(60)
  <2> QED BY <1>6, <2>1, <2>2, <2>3, SMTT(60) DEF References, One
<1>10. refs' \in [Requests -> Int]
  BY <1>2, SMTT(60) DEF CallInv
<1>11. \A q \in Requests : q.n > sent' => answers'[q] = 0 /\ q \notin Pending'
  BY <1>1, <1>2 DEF CallInv
<1>12. \A d \in Clients : cpc'[d] # cpc[d] => cpc[d] # "idle" /\ cpc'[d] = "return"
  BY <1>4, <1>3
<1> QED BY <1>4, <1>7, <1>8, <1>9, <1>10, <1>11, <1>12, SMTT(60) DEF CallInv

\* OnClientClosed opens the current request before it looks at it.
LEMMA DiscardTakeCalls ==
    ASSUME PlaceInv, CallInv, DiscardTake, Pending' = Pending PROVE CallInv'
<1>1. /\ clientEnd = "cleanup" /\ clientEnd' \in {"looked", "answer", "done"}
      /\ \A c \in Clients : cpc[c] = "idle"
      /\ UNCHANGED <<answers, cpc, creq, sent, terminating>>
  BY DEF DiscardTake, CallInv, clients
<1>2. CASE FirstLook
  <2>1. /\ current \in Requests /\ closing' = [closing EXCEPT !["client"] = current]
        /\ refs' = [refs EXCEPT ![current] = @ + 1] /\ clientEnd' = "looked"
        /\ cleared' = cleared \cup (IF terminating[current.thread] THEN {current} ELSE {})
    BY <1>2 DEF DiscardTake, FirstLook, PlaceInv
  <2>2. closing'["client"] = current /\ refs' \in [Requests -> Int]
    BY <2>1, SMTT(60) DEF PlaceInv, CallInv
  <2>3. ASSUME NEW q \in Requests PROVE refs'[q] = References(q)'
    <3>1. refs[q] = References(q) /\ refs'[q] = IF q = current THEN refs[q] + 1 ELSE refs[q]
      BY <2>1 DEF CallInv
    <3> QED BY <1>1, <2>1, <2>2, <3>1, SMTT(60) DEF References, One
  <2>4. WaitingIsPending' /\ AnsweredOnce'
    BY <1>1 DEF CallInv, WaitingIsPending, AnsweredOnce
  <2> QED BY <1>1, <2>1, <2>2, <2>3, <2>4 DEF CallInv
<1>3. CASE ~FirstLook
  <2>1. UNCHANGED <<refs, cleared>> /\ clientEnd' # "looked"
    BY <1>3 DEF DiscardTake
  <2> QED BY <1>1, <2>1, CallsSame DEF Looked, requests, clients
<1> QED BY <1>2, <1>3

\* OnClientClosed gives up the reference it took or found in the queue.
LEMMA DiscardFinishCalls ==
    ASSUME PlaceInv, CallInv, DiscardFinish, closing["client"] \in Pending,
           Pending' = IF clientEnd = "answer" THEN Pending \ {closing["client"]} ELSE Pending
    PROVE  CallInv'
<1> DEFINE r == closing["client"]
<1>1. /\ clientEnd \in {"looked", "answer"} /\ clientEnd' = "cleanup" /\ r \in Requests
      /\ refs' = [refs EXCEPT ![r] = @ - 1]
      /\ answers' = [answers EXCEPT ![r] = IF clientEnd = "answer" /\ r.async THEN @ + 1 ELSE @]
      /\ UNCHANGED <<cleared, cpc, creq, sent, terminating>>
      /\ \A c \in Clients : cpc[c] = "idle"
  BY DEF DiscardFinish, CallInv, PlaceInv, clients
<1>2. WaitingIsPending'
  BY <1>1 DEF CallInv, WaitingIsPending
<1>3. answers' \in [Requests -> Nat] /\ AnsweredOnce'
  BY <1>1, SMTT(60) DEF CallInv, AnsweredOnce
<1>4. ASSUME NEW q \in Requests PROVE refs'[q] = References(q)'
  <2>1. refs[q] = References(q) /\ refs'[q] = IF q = r THEN refs[q] - 1 ELSE refs[q]
    BY <1>1 DEF CallInv
  <2>2. CASE clientEnd = "answer"
    <3>1. (q \in Pending') = (q \in Pending /\ q # r)
      BY <2>2, SMTT(60)
    <3> QED BY <1>1, <2>1, <2>2, <3>1, SMTT(60) DEF References, One
  <2>3. CASE clientEnd = "looked"
    BY <1>1, <2>1, <2>3, SMTT(60) DEF References, One
  <2> QED BY <1>1, <2>2, <2>3
<1>5. \A q \in Requests : q.n > sent' => answers'[q] = 0 /\ q \notin Pending'
  BY <1>1, SMTT(60) DEF CallInv
<1>6. refs' \in [Requests -> Int] /\ Pending' \subseteq Requests
  BY <1>1, SMTT(60) DEF CallInv
<1> QED BY <1>1, <1>2, <1>3, <1>4, <1>5, <1>6 DEF CallInv
-----------------------------------------------------------------------------
(* The steps together.                                                      *)

SessionInv == PlaceInv /\ CallInv

\* A client's step preserves the invariant.
LEMMA ClientStepInv ==
    ASSUME SessionInv, NEW c \in Clients, ClientStep(c) PROVE SessionInv'
<1> USE DEF SessionInv
<1>1. ASSUME NEW a \in BOOLEAN, OnRequest(c, a) PROVE SessionInv'
  <2>1. PlaceInv' /\ Pending' = Pending \cup {[thread |-> c, n |-> sent + 1, async |-> a]}
    BY <1>1, OnRequestPlaces
  <2> QED BY <1>1, <2>1, OnRequestCalls
<1>2. CASE Return(c)
  <2>1. LeavesPlaces
    BY <1>2 DEF Return, LeavesPlaces, PlaceInv, session, servers, ends
  <2> QED BY <1>2, <2>1, LeavesPlacesInv, ReturnCalls
<1>3. CASE RequestTerminate(c)
  <2>1. LeavesPlaces
    BY <1>3 DEF RequestTerminate, LeavesPlaces, PlaceInv, session, servers, ends
  <2> QED BY <1>3, <2>1, LeavesPlacesInv, RequestTerminateCalls
<1> QED BY <1>1, <1>2, <1>3 DEF ClientStep

\* A step that leaves the requests, the clients and the ends alone keeps CallInv.
LEMMA ServerKeepsCalls ==
    ASSUME CallInv, Pending' = Pending, UNCHANGED <<requests, clients, ends>> PROVE CallInv'
<1>1. UNCHANGED <<requests, clients, clientEnd, closing>>
  BY DEF ends
<1> QED BY <1>1, CallsSame DEF CallInv, Looked

\* A server thread's step preserves the invariant.
LEMMA ServerStepInv ==
    ASSUME SessionInv, NEW s \in Servers, ServerStep(s) \/ WaitTimedOut(s) PROVE SessionInv'
<1> USE DEF SessionInv
<1>1. CASE FinishReply(s)
  <2>1. PlaceInv' /\ sreq[s] \in Pending /\ Pending' = Pending \ {sreq[s]}
    BY <1>1, FinishReplyPlaces
  <2>2. /\ Answer(sreq[s]) /\ clientEnd' = clientEnd /\ closing'["client"] = closing["client"]
        /\ UNCHANGED <<cleared, creq, sent, terminating>>
    BY <1>1 DEF FinishReply, ends
  <2> QED BY <2>1, <2>2, AnswerCalls
<1>2. CASE Wait(s) \/ WaitTimedOut(s) \/ ReplyToNobody(s)
  <2>1. LeavesPlaces
    BY <1>2 DEF Wait, WaitTimedOut, ReplyToNobody, LeavesPlaces, PlaceInv, Holds, session, ends
  <2>2. UNCHANGED <<requests, clients, ends>>
    BY <1>2 DEF Wait, WaitTimedOut, ReplyToNobody
  <2> QED BY <2>1, <2>2, LeavesPlacesInv, ServerKeepsCalls
<1>3. CASE ReceiveRequest(s) \/ SetCurrent(s) \/ ReceiveMessage(s) \/ ReceiveFails(s) \/ SendReply(s)
  <2>1. PlaceInv' /\ Pending' = Pending
    BY <1>3, ReceivePlaces, SetCurrentPlaces, ReceiveMessagePlaces, ReceiveFailsPlaces, SendReplyPlaces
  <2>2. UNCHANGED <<requests, clients, ends>>
    BY <1>3 DEF ReceiveRequest, SetCurrent, ReceiveMessage, ReceiveFails, SendReply, TakeCurrent
  <2> QED BY <2>1, <2>2, ServerKeepsCalls
<1> QED BY <1>1, <1>2, <1>3 DEF ServerStep

\* A step of the destruction of the server end preserves the invariant.
LEMMA ServerEndInv ==
    ASSUME SessionInv, CloseServer \/ ServerEndStep PROVE SessionInv'
<1> USE DEF SessionInv
<1>1. CASE CloseServer \/ OnServerClosed
  <2>1. LeavesPlaces /\ UNCHANGED <<requests, clients, clientEnd, closing>>
    BY <1>1 DEF CloseServer, OnServerClosed, LeavesPlaces, PlaceInv, session, servers
  <2> QED BY <2>1, LeavesPlacesInv, CallsSame DEF CallInv, Looked
<1>2. CASE CleanupTake
  <2>1. UNCHANGED <<requests, clients, clientEnd>> /\ closing'["client"] = closing["client"]
    BY <1>2 DEF CleanupTake, PlaceInv
  <2> QED BY <1>2, <2>1, CleanupTakePlaces, CallsSame DEF CallInv, Looked
<1>3. CASE CleanupAnswer
  <2>1. /\ Answer(closing["server"]) /\ clientEnd' = clientEnd
        /\ UNCHANGED <<cleared, creq, sent, terminating>>
    BY <1>3 DEF CleanupAnswer
  <2> QED BY <1>3, <2>1, CleanupAnswerPlaces, AnswerCalls
<1> QED BY <1>1, <1>2, <1>3 DEF ServerEndStep

\* A step of the destruction of the client end preserves the invariant.
LEMMA ClientEndInv ==
    ASSUME SessionInv, CloseClient \/ ClientEndStep PROVE SessionInv'
<1> USE DEF SessionInv
<1>1. CASE CloseClient \/ OnClientClosed
  <2>1. /\ LeavesPlaces /\ UNCHANGED <<requests, clients, closing>>
        /\ clientEnd # "looked" /\ clientEnd' # "looked"
    BY <1>1 DEF CloseClient, OnClientClosed, LeavesPlaces, PlaceInv, ClientEndStates, session, servers
  <2>2. clientEnd' \notin {"open", "closed"} => \A c \in Clients : cpc[c] = "idle"
    BY <1>1 DEF CloseClient, OnClientClosed, CallInv
  <2> QED BY <2>1, <2>2, LeavesPlacesInv, CallsSame DEF Looked
<1>2. CASE DiscardTake
  BY <1>2, DiscardTakePlaces, DiscardTakeCalls
<1>3. CASE DiscardFinish
  BY <1>3, DiscardFinishPlaces, DiscardFinishCalls
<1> QED BY <1>1, <1>2, <1>3 DEF ClientEndStep

\* Each step preserves the invariant.
LEMMA NextInv == SessionInv /\ [Next]_vars => SessionInv'
<1> SUFFICES ASSUME SessionInv, [Next]_vars PROVE SessionInv'
  OBVIOUS
<1>1. CASE UNCHANGED vars
  <2>1. LeavesPlaces /\ UNCHANGED <<requests, clients, ends>>
    BY <1>1 DEF vars, session, requests, clients, servers, ends, LeavesPlaces, SessionInv, PlaceInv
  <2> QED BY <2>1, LeavesPlacesInv, ServerKeepsCalls DEF SessionInv
<1> QED BY <1>1, ClientStepInv, ServerStepInv, ServerEndInv, ClientEndInv DEF Next

\* SessionInv is an invariant of the specification.
LEMMA SessionInvariant == Spec => []SessionInv
<1>1. Init => SessionInv
  BY InitPlaces, InitCalls DEF SessionInv
<1> QED BY <1>1, NextInv, PTL DEF Spec
-----------------------------------------------------------------------------
\* A client in SendSyncRequest waits exactly as long as the session, a server
\* thread or the destruction of an end has its request.
THEOREM CallsAreServed == Spec => []WaitingIsPending
<1>1. SessionInv => WaitingIsPending
  BY DEF SessionInv, CallInv
<1> QED BY <1>1, SessionInvariant, PTL

\* SendReply, CleanupRequests and OnClientClosed between them answer a request at
\* most once.
THEOREM RepliesAreSingle == Spec => []AnsweredOnce
<1>1. SessionInv => AnsweredOnce
  BY DEF SessionInv, CallInv
<1> QED BY <1>1, SessionInvariant, PTL

-----------------------------------------------------------------------------
(* The count of the users of a request, with what the library knows of     *)
(* cardinality.                                                             *)

INSTANCE FiniteSetTheorems

\* The reference count of a KSessionRequest is the number of its users.
THEOREM RequestsCounted == Spec => []RequestRefsExact
<1>1. ASSUME SessionInv PROVE RequestRefsExact
  <2>1. ASSUME NEW r \in Requests
        PROVE  Cardinality({c \in Clients : cpc[c] # "idle" /\ creq[c] = r})
                   = One(cpc[r.thread] # "idle" /\ creq[r.thread] = r)
    <3> DEFINE U == {c \in Clients : cpc[c] # "idle" /\ creq[c] = r}
    <3>1. r.thread \in Clients /\ \A c \in U : c = r.thread
      BY <1>1, RequestFields DEF SessionInv, CallInv
    <3>2. CASE cpc[r.thread] # "idle" /\ creq[r.thread] = r
      <4>1. U = {r.thread}
        BY <3>1, <3>2
      <4> QED BY <3>2, <4>1, FS_Singleton DEF One
    <3>3. CASE ~(cpc[r.thread] # "idle" /\ creq[r.thread] = r)
      <4>1. U = {}
        BY <3>1, <3>3
      <4> QED BY <3>3, <4>1, FS_EmptySet DEF One
    <3> QED BY <3>2, <3>3
  <2> QED BY <1>1, <2>1, SMTT(60) DEF RequestRefsExact, SessionInv, CallInv, References, One
<1> QED BY <1>1, SessionInvariant, PTL
=============================================================================
