----------------------------- MODULE AuthSession -----------------------------
(***************************************************************************)
(* The session of the drone with the router: the auth client's TCP         *)
(* connection, its token, the keepalive loop that refreshes it, and what   *)
(* the client does when a refresh fails.  Four goroutines share one        *)
(* connection pointer:                                                     *)
(*   "keep"   Start (retried by main.go) and then keepaliveLoop            *)
(*   "force"  ForceReconnect, called by the IP monitor                     *)
(*   "web"    an API-key request of the web server                         *)
(*   "vpn"    RequestVPNProvisioning, once after Start                     *)
(* tcpMu is held over the send+receive cycles of a refresh, an API-key     *)
(* request and the VPN request, and by closeTCP; authenticate,             *)
(* requestSession and the reconnect of handleRefreshFailure do not take    *)
(* it.  A step is what a goroutine does between two blocking calls (a      *)
(* dial, a read, a wait for tcpMu), except that the second look at c.conn  *)
(* after a reconnect is a step of its own.                                 *)
(*                                                                         *)
(* Time is abstracted: expiry of the token, end of the backoff and of the  *)
(* IP-change cooldown happen at some time.  The router, which is not part  *)
(* of this repository, handles a request when it is written; its answer    *)
(* waits in told until it is read, in time or late.  Everything that goes  *)
(* wrong outside the client costs one of MaxFaults.                        *)
(***************************************************************************)
EXTENDS Integers, Sequences, FiniteSets

CONSTANTS
    Conns,      \* numbers for TCP connections
    Tokens,     \* session tokens the router can issue
    Callers,    \* which of "web" and "vpn" there are
    MaxFaults,  \* bound on losses, refusals, late answers, expiries and stops
    MaxCalls    \* bound on forced reconnects, API-key and VPN requests

ASSUME AuthAssumption ==
    /\ Conns \subseteq Nat \ {0} /\ Tokens \subseteq Nat \ {0}
    /\ Callers \subseteq {"web", "vpn"}
    /\ MaxFaults \in Nat /\ MaxCalls \in Nat

Recoverers == {"keep", "force"}
Procs == Recoverers \cup Callers
Kinds == {"init", "response", "refresh", "session", "api"}
Results == {"ok", "invalid", "transient", "empty"}
Answers == [k : Kinds, r : Results, t : Tokens \cup {0}]
Errors == {"none", "skipped", "invalid", "transient", "network"}

VARIABLES
    conn,       \* c.conn, 0 for nil
    sock,       \* sock[c]: "open", "dead" (the peer is gone) or "closed"
    told,       \* told[c]: answers nobody has read
    pc,         \* pc[p]: where goroutine p is
    ret,        \* ret[p]: where it continues after sendRefresh or authenticate
    err,        \* err[p]: what that call returned
    mine,       \* mine[p]: the local variable conn of p
    cap,        \* conn as TriggerSessionRecovery captured it
    tok,        \* tok[p]: the token as sendRefresh captured it
    tcpMu,      \* the holder of tcpMu, or "none"
    token,      \* c.sessionToken, 0 for ""; c.everConnected is token # 0
    valid,      \* time.Now() is before c.expiresAt
    running,    \* c.running
    stopped,    \* stopCh is closed
    reachable,  \* c.serverReachable
    backoff,    \* time.Now() is before c.nextReconnectAt
    recentIP,   \* the last IP change is less than ipChangeThreshold ago
    srv,        \* the session the router has for this drone, 0 for none
    faults,     \* faults so far
    calls,      \* forced reconnects and requests so far
    overlapped, \* history: an unlocked conversation met another one
    panicked    \* history: a nil connection was used

net == <<sock, told>>
local == <<ret, err, mine, cap, tok>>
session == <<token, valid, reachable, backoff>>
history == <<calls, panicked>>
flags == <<running, stopped, recentIP, srv, faults, history>>
vars == <<conn, net, pc, local, tcpMu, session, flags, overlapped>>

(* Where a goroutine uses a connection under tcpMu, and where without it.  *)
Locked == {"refClose", "refDial", "refReread", "refRead",
           "apiClose", "apiDial", "apiReread", "apiRead"}
Unlocked == {"auth", "authDial", "authChallenge", "authAck", "session", "sessRead",
             "fail", "failClose", "failDial"}
Waiting == {"idle", "gone", "refresh", "apiLock", "recover", "reauth",
            "startAuth", "failAuth", "failRefresh", "recRefresh"}
Continuations == {"idle", "startAuth", "loop", "failAuth", "failRefresh", "recAuth", "recRefresh"}

(* An unlocked conversation beside another conversation.                   *)
Overlap == \E p, q \in Procs : p # q /\ pc[p] \in Unlocked
                                     /\ pc[q] \in Locked \cup Unlocked

Init ==
    /\ conn = 0 /\ cap = 0
    /\ sock = [c \in Conns |-> "closed"]
    /\ told = [c \in Conns |-> <<>>]
    /\ pc = [p \in Procs |-> IF p = "keep" THEN "auth" ELSE "idle"]
    /\ ret = [p \in Procs |-> IF p = "keep" THEN "startAuth" ELSE "idle"]
    /\ err = [p \in Procs |-> "none"]
    /\ mine = [p \in Procs |-> 0] /\ tok = [p \in Procs |-> 0]
    /\ tcpMu = "none"
    /\ token = 0 /\ valid = FALSE /\ reachable = FALSE /\ backoff = FALSE
    /\ running = FALSE /\ stopped = FALSE /\ recentIP = FALSE
    /\ srv = 0 /\ faults = 0 /\ calls = 0 /\ overlapped = FALSE /\ panicked = FALSE

-----------------------------------------------------------------------------
(* Connections.                                                            *)

Fault == faults < MaxFaults /\ faults' = faults + 1

Called == calls < MaxCalls /\ calls' = calls + 1 /\ UNCHANGED faults

(* A number for a new connection: the least that nobody refers to.  (The   *)
(* finalizer of a connection that nobody refers to closes it.)             *)
Unused == {c \in Conns : c # conn /\ c # cap /\ \A p \in Procs : mine[p] # c}

NewConns == {c \in Unused : \A x \in Unused : c <= x}

Close(c) ==
    /\ sock' = [sock EXCEPT ![c] = "closed"]
    /\ told' = [told EXCEPT ![c] = <<>>]

CloseCurrent == IF conn = 0 THEN UNCHANGED net ELSE Close(conn)

(* Mutant: the pointer is cleared and the connection stays open.           *)
resetConnLeaks == conn' = 0 /\ UNCHANGED net

(* c.conn.Close() and c.conn = nil, whosever connection it is: resetConn   *)
(* of authenticate, closeTCP, the network branch of handleRefreshFailure.  *)
resetConn == conn' = 0 /\ CloseCurrent

(* conn.Read into a 4096-byte buffer: one or more of the answers that have *)
(* arrived are consumed, and only the first of them is parsed.             *)
Rest(c) == {SubSeq(told[c], n + 1, Len(told[c])) : n \in 1..Len(told[c])}

Take(c) == \E rest \in Rest(c) : told' = [told EXCEPT ![c] = rest]

Answered(c, k, results) ==
    told[c] # <<>> /\ Head(told[c]).k = k /\ Head(told[c]).r \in results

Misanswered(c, k, results) == told[c] # <<>> /\ ~Answered(c, k, results)

(* The read fails: the connection is gone or the deadline passes; to miss  *)
(* an answer that comes costs a fault.                                     *)
ReadFails(c) == IF told[c] = <<>> THEN UNCHANGED faults ELSE Fault

(* The router answers a with session s afterwards.  It keeps one session   *)
(* per drone; it may refuse (rate limit, internal error, rejected          *)
(* handshake) or acknowledge a handshake without a token.                  *)
Fresh == Tokens \ ({srv, token} \cup {tok[p] : p \in Procs}
                   \cup {a.t : a \in UNION {{told[c][i] : i \in 1..Len(told[c])} : c \in Conns \ Unused}})

Handle(k, t, a) ==
    \/ k \in {"init", "api"} /\ a = [k |-> k, r |-> "ok", t |-> 0] /\ UNCHANGED <<srv, faults>>
    \/ /\ k = "response" /\ Fresh # {}
       /\ srv' = CHOOSE s \in Fresh : \A x \in Fresh : s <= x
       /\ a = [k |-> k, r |-> "ok", t |-> srv']
       /\ UNCHANGED faults
    \/ /\ k \in {"refresh", "session"}
       /\ a = IF t = srv THEN [k |-> k, r |-> "ok", t |-> t] ELSE [k |-> k, r |-> "invalid", t |-> 0]
       /\ UNCHANGED <<srv, faults>>
    \/ /\ k \in {"response", "refresh", "session"} /\ Fault
       /\ a \in [k : {k}, r : {"transient"} \cup (IF k = "response" THEN {"empty"} ELSE {}), t : {0}]
       /\ UNCHANGED srv

(* conn.Write of request k with token t; the answer is queued behind rest. *)
(* A dead connection swallows what is written.                             *)
Send(c, rest, k, t) ==
    IF sock[c] = "open"
    THEN \E a \in {x \in Answers : x.k = k} : Handle(k, t, a) /\ told' = [told EXCEPT ![c] = Append(rest, a)]
    ELSE told' = [told EXCEPT ![c] = rest] /\ UNCHANGED <<srv, faults>>

(* dialWithLocalIP gives connection c, which becomes c.conn; the one that  *)
(* c.conn held until then is not closed here.                              *)
Install(c) ==
    /\ conn' = c
    /\ sock' = [sock EXCEPT ![c] = "open"]

markConnected == reachable' = TRUE /\ backoff' = FALSE

markDisconnected == reachable' = FALSE

(* A goroutine moves on; the history variable notes who meets whom.        *)
Goto(p, l) ==
    /\ pc' = [pc EXCEPT ![p] = l]
    /\ overlapped' = (overlapped \/ Overlap')

(* p goes on at l, with a call that continues at r and no result yet.      *)
Call(p, l, r) ==
    /\ Goto(p, l)
    /\ ret' = [ret EXCEPT ![p] = r] /\ err' = [err EXCEPT ![p] = "none"]

(* sendRefresh or authenticate returns e; keepaliveLoop and ForceReconnect *)
(* hand an error to handleRefreshFailure.                                  *)
Return(p, e) ==
    IF ret[p] \in {"loop", "recAuth"}
    THEN /\ Goto(p, IF e = "none" THEN "idle" ELSE "fail")
         /\ ret' = [ret EXCEPT ![p] = "idle"] /\ err' = [err EXCEPT ![p] = e]
    ELSE /\ Goto(p, ret[p])
         /\ err' = [err EXCEPT ![p] = e] /\ UNCHANGED ret

(* The dial of reconnectTCP: a new local address (a fault) starts the      *)
(* IP-change cooldown; when the dial fails the pointer is left as it is.   *)
reconnectDial(ok) ==
    IF ok THEN /\ \E c \in NewConns : Install(c) /\ told' = [told EXCEPT ![c] = <<>>]
               /\ (UNCHANGED <<recentIP, faults>>) \/ (Fault /\ recentIP' = TRUE)
          ELSE Fault /\ UNCHANGED <<conn, net, recentIP>>
-----------------------------------------------------------------------------
(* sendRefresh, for the keepalive loop, for handleRefreshFailure and for   *)
(* TriggerSessionRecovery.                                                 *)

sendRefresh(p) ==
    /\ pc[p] = "refresh" /\ tcpMu = "none"
    /\ UNCHANGED <<conn, sock, cap, session, running, stopped, recentIP, history>>
    /\ \/ /\ recentIP \/ token = 0 \/ (conn # 0 /\ sock[conn] = "closed")
          /\ Return(p, IF recentIP THEN "skipped" ELSE IF token = 0 THEN "invalid" ELSE "network")
          /\ UNCHANGED <<told, mine, tok, tcpMu, srv, faults>>
       \/ /\ ~recentIP /\ token # 0 /\ conn = 0
          /\ Goto(p, "refClose") /\ tcpMu' = p
          /\ tok' = [tok EXCEPT ![p] = token]
          /\ UNCHANGED <<told, ret, err, mine, srv, faults>>
       \/ /\ ~recentIP /\ token # 0 /\ conn # 0 /\ sock[conn] # "closed"
          /\ Goto(p, "refRead") /\ tcpMu' = p
          /\ mine' = [mine EXCEPT ![p] = conn]
          /\ Send(conn, told[conn], "refresh", token)
          /\ UNCHANGED <<ret, err, tok>>

(* reconnectTCP closes the connection it finds, before it dials.           *)
reconnectTCP(p) ==
    /\ pc[p] \in {"refClose", "failClose", "apiClose"}
    /\ CloseCurrent
    /\ Goto(p, CASE pc[p] = "refClose" -> "refDial" [] pc[p] = "failClose" -> "failDial"
                 [] pc[p] = "apiClose" -> "apiDial")
    /\ UNCHANGED <<conn, local, tcpMu, session, flags>>

refreshDial(p) ==
    /\ pc[p] = "refDial"
    /\ UNCHANGED <<cap, mine, session, running, stopped, srv, history>>
    /\ \/ reconnectDial(TRUE) /\ Goto(p, "refReread") /\ UNCHANGED <<ret, err, tok, tcpMu>>
       \/ /\ reconnectDial(FALSE) /\ Return(p, "network")
          /\ tok' = [tok EXCEPT ![p] = 0] /\ tcpMu' = "none"

refreshRead(p) ==
    LET c == mine[p]
    IN  /\ pc[p] = "refRead"
        /\ \/ /\ Answered(c, "refresh", {"ok"}) /\ Take(c)
              /\ valid' = TRUE /\ markConnected /\ Return(p, "none")
              /\ UNCHANGED faults
           \/ /\ Misanswered(c, "refresh", {"ok"}) /\ Take(c)
              /\ Return(p, IF Head(told[c]).k = "refresh" THEN Head(told[c]).r ELSE "network")
              /\ UNCHANGED <<valid, reachable, backoff, faults>>
           \/ /\ ReadFails(c) /\ Return(p, "network")
              /\ UNCHANGED <<told, valid, reachable, backoff>>
        /\ mine' = [mine EXCEPT ![p] = 0]
        /\ tcpMu' = "none"
        /\ UNCHANGED <<conn, sock, cap, tok, token, running, stopped, recentIP, srv, history>>
-----------------------------------------------------------------------------
(* authenticate: AUTH_INIT, AUTH_CHALLENGE, AUTH_RESPONSE, AUTH_ACK on a   *)
(* fresh connection (authForceFreshConn), without tcpMu.  Its failures     *)
(* close whatever c.conn is by then.                                       *)

authenticate(p) ==
    /\ pc[p] = "auth"
    /\ resetConn
    /\ Goto(p, "authDial")
    /\ UNCHANGED <<local, tcpMu, session, flags>>

authDial(p) ==
    /\ pc[p] = "authDial"
    /\ UNCHANGED <<cap, tok, tcpMu, session, running, stopped, recentIP, history>>
    /\ \/ \E c \in NewConns :
             /\ Install(c)
             /\ told' = [told EXCEPT ![c] = <<[k |-> "init", r |-> "ok", t |-> 0]>>]
             /\ mine' = [mine EXCEPT ![p] = c]
             /\ Goto(p, "authChallenge")
             /\ UNCHANGED <<ret, err, srv, faults>>
       \/ Fault /\ Return(p, "network") /\ UNCHANGED <<conn, net, mine, srv>>

authFails(p) ==
    /\ resetConn
    /\ Return(p, "network")
    /\ mine' = [mine EXCEPT ![p] = 0]

authChallenge(p) ==
    LET c == mine[p]
    IN  /\ pc[p] = "authChallenge"
        /\ UNCHANGED <<cap, tok, tcpMu, session, running, stopped, recentIP, history>>
        /\ \/ /\ Answered(c, "init", {"ok"})
              /\ \E rest \in Rest(c) : Send(c, rest, "response", 0)
              /\ Goto(p, "authAck")
              /\ UNCHANGED <<conn, sock, ret, err, mine>>
           \/ Misanswered(c, "init", {"ok"}) /\ authFails(p) /\ UNCHANGED <<srv, faults>>
           \/ ReadFails(c) /\ authFails(p) /\ UNCHANGED srv

authAck(p) ==
    LET c == mine[p]  good == {"ok", "empty"}
    IN  /\ pc[p] = "authAck"
        /\ UNCHANGED <<cap, tok, tcpMu, running, stopped, recentIP, srv, history>>
        /\ \/ /\ Answered(c, "response", good) /\ Take(c)
              /\ mine' = [mine EXCEPT ![p] = 0]
              /\ IF Head(told[c]).r = "ok"
                 THEN token' = Head(told[c]).t /\ valid' = TRUE /\ markConnected /\ Return(p, "none")
                 ELSE UNCHANGED session /\ Return(p, "network")
              /\ UNCHANGED <<conn, sock, faults>>
           \/ Misanswered(c, "response", good) /\ authFails(p) /\ UNCHANGED <<session, faults>>
           \/ ReadFails(c) /\ authFails(p) /\ UNCHANGED session
-----------------------------------------------------------------------------
(* handleRefreshFailure: markDisconnected, the backoff check, the close of *)
(* a connection with a network error, and the recovery.                    *)

(* Mutant: an unknown token is taken for a transient error of the router.  *)
handleRefreshFailureKeepsToken(p) ==
    /\ pc[p] = "fail"
    /\ UNCHANGED <<mine, cap, tok, tcpMu, token, valid, backoff, flags>>
    /\ IF err[p] = "skipped" THEN UNCHANGED reachable ELSE markDisconnected
    /\ \/ /\ err[p] \in {"skipped", "transient", "invalid"} \/ backoff
          /\ Call(p, "idle", "idle")
          /\ UNCHANGED <<conn, net>>
       \/ /\ err[p] = "network" /\ ~backoff
          /\ resetConn
          /\ IF token # 0 /\ valid THEN Call(p, "failClose", "idle") ELSE Call(p, "auth", "failAuth")

handleRefreshFailure(p) ==
    /\ pc[p] = "fail"
    /\ UNCHANGED <<mine, cap, tok, tcpMu, token, valid, backoff, flags>>
    /\ IF err[p] = "skipped" THEN UNCHANGED reachable ELSE markDisconnected
    /\ \/ /\ err[p] \in {"skipped", "transient"} \/ backoff
          /\ Call(p, "idle", "idle")
          /\ UNCHANGED <<conn, net>>
       \/ /\ err[p] = "invalid" /\ ~backoff
          /\ Call(p, "auth", "failAuth")
          /\ UNCHANGED <<conn, net>>
       \/ /\ err[p] = "network" /\ ~backoff
          /\ resetConn
          /\ IF token # 0 /\ valid THEN Call(p, "failClose", "idle") ELSE Call(p, "auth", "failAuth")

failureReconnect(p) ==
    /\ pc[p] = "failDial"
    /\ UNCHANGED <<mine, cap, tok, tcpMu, session, running, stopped, srv, history>>
    /\ \/ reconnectDial(TRUE) /\ Call(p, "refresh", "failRefresh")
       \/ reconnectDial(FALSE) /\ Call(p, "auth", "failAuth")

(* scheduleReconnectBackoff does nothing before the first connection.      *)
scheduleReconnectBackoff == backoff' = (backoff \/ token # 0)

failureRefreshed(p) ==
    /\ pc[p] = "failRefresh"
    /\ IF err[p] = "invalid" THEN Call(p, "auth", "failAuth") ELSE Call(p, "idle", "idle")
    /\ IF err[p] \in {"none", "invalid"} THEN UNCHANGED backoff ELSE scheduleReconnectBackoff
    /\ UNCHANGED <<conn, net, mine, cap, tok, tcpMu, token, valid, reachable, flags>>

failureAuthenticated(p) ==
    /\ pc[p] = "failAuth"
    /\ Call(p, "idle", "idle")
    /\ IF err[p] = "none" THEN UNCHANGED <<reachable, backoff>>
                          ELSE markDisconnected /\ scheduleReconnectBackoff
    /\ UNCHANGED <<conn, net, mine, cap, tok, tcpMu, token, valid, flags>>
-----------------------------------------------------------------------------
(* The keepalive goroutine: Start, again and again until it succeeds, then *)
(* a refresh at once and one per tick until stopCh is closed.              *)

Start ==
    /\ pc["keep"] = "startAuth"
    /\ IF err["keep"] = "none" THEN running' = TRUE /\ Call("keep", "refresh", "loop")
                               ELSE UNCHANGED running /\ Call("keep", "auth", "startAuth")
    /\ UNCHANGED <<conn, net, mine, cap, tok, tcpMu, session,
                   stopped, recentIP, srv, faults, history>>

keepaliveTick ==
    /\ pc["keep"] = "idle" /\ running
    /\ Call("keep", "refresh", "loop")
    /\ UNCHANGED <<conn, net, mine, cap, tok, tcpMu, session, flags>>

(* Mutant: the loop leaves only when no tick is due.                       *)
keepaliveStopLast ==
    /\ pc["keep"] = "idle" /\ stopped /\ ~running /\ conn = 0
    /\ Goto("keep", "gone")
    /\ UNCHANGED <<conn, net, local, tcpMu, session, flags>>

keepaliveStop ==
    /\ pc["keep"] = "idle" /\ stopped
    /\ Goto("keep", "gone")
    /\ UNCHANGED <<conn, net, local, tcpMu, session, flags>>

Stop ==
    /\ ~stopped /\ Fault
    /\ stopped' = TRUE /\ running' = FALSE
    /\ CloseCurrent
    /\ UNCHANGED <<conn, pc, overlapped, local, tcpMu, session, recentIP, srv, history>>
-----------------------------------------------------------------------------
(* ForceReconnect and TriggerSessionRecovery.                              *)

ForceReconnect ==
    /\ pc["force"] = "idle" /\ Called
    /\ tcpMu = "none" /\ conn # 0
    /\ resetConn
    /\ Goto("force", IF running THEN "recover" ELSE "idle")
    /\ UNCHANGED <<local, tcpMu, session, running, stopped, recentIP, srv, panicked>>

TriggerSessionRecovery ==
    /\ pc["force"] = "recover"
    /\ cap' = IF running THEN conn ELSE 0
    /\ \/ ~running /\ Goto("force", "fail") /\ err' = [err EXCEPT !["force"] = "network"] /\ UNCHANGED ret
       \/ running /\ token # 0 /\ valid /\ Call("force", "refresh", "recRefresh")
       \/ running /\ ~(token # 0 /\ valid) /\ Call("force", IF conn # 0 THEN "session" ELSE "reauth", "idle")
    /\ UNCHANGED <<conn, net, mine, tok, tcpMu, session, flags>>

(* After a failed refresh the captured connection is tried, if any.        *)
recoveryRefreshed ==
    /\ pc["force"] = "recRefresh"
    /\ IF err["force"] = "none" THEN Call("force", "idle", "idle") /\ cap' = 0
       ELSE Call("force", IF cap # 0 THEN "session" ELSE "reauth", "idle") /\ UNCHANGED cap
    /\ UNCHANGED <<conn, net, mine, tok, tcpMu, session, flags>>

requestSession ==
    /\ pc["force"] = "session"
    /\ IF sock[cap] = "closed"
       THEN Goto("force", "reauth") /\ UNCHANGED <<told, srv, faults>>
       ELSE Goto("force", "sessRead") /\ Send(cap, told[cap], "session", token)
    /\ UNCHANGED <<conn, sock, local, tcpMu, session, running, stopped, recentIP, history>>

requestSessionRead ==
    /\ pc["force"] = "sessRead"
    /\ \/ /\ Answered(cap, "session", {"ok"}) /\ Take(cap)
          /\ token' = Head(told[cap]).t /\ valid' = TRUE /\ markConnected
          /\ Goto("force", "idle") /\ cap' = 0
          /\ UNCHANGED faults
       \/ /\ Misanswered(cap, "session", {"ok"}) /\ Take(cap)
          /\ Goto("force", "reauth")
          /\ UNCHANGED <<cap, session, faults>>
       \/ ReadFails(cap) /\ Goto("force", "reauth") /\ UNCHANGED <<told, cap, session>>
    /\ UNCHANGED <<conn, sock, ret, err, mine, tok, tcpMu, running, stopped, recentIP, srv, history>>

(* closeTCP under tcpMu, then authenticate without it.                     *)
TriggerReauth ==
    /\ pc["force"] = "reauth" /\ tcpMu = "none"
    /\ resetConn
    /\ Call("force", "auth", "recAuth")
    /\ cap' = 0
    /\ UNCHANGED <<mine, tok, tcpMu, session, flags>>
-----------------------------------------------------------------------------
(* The API-key requests of the web server (RequestAPIKey, RevokeAPIKey,    *)
(* GetAPIKeyStatus and DeleteAPIKey, which differ in the message only),    *)
(* and the VPN request, which reads c.conn before it waits for tcpMu.      *)

ApiKeyRequest ==
    /\ pc["web"] = "idle" /\ Called
    /\ Goto("web", "apiLock")
    /\ UNCHANGED <<conn, net, local, tcpMu, session, running, stopped, recentIP, srv, panicked>>

RequestVPNProvisioning ==
    /\ pc["vpn"] = "idle" /\ Called
    /\ running /\ token # 0 /\ conn # 0
    /\ Goto("vpn", "apiLock")
    /\ mine' = [mine EXCEPT !["vpn"] = conn]
    /\ UNCHANGED <<conn, net, ret, err, cap, tok, tcpMu, session, running,
                   stopped, recentIP, srv, panicked>>

CallerDone(p) == IF p = "vpn" THEN "gone" ELSE "idle"

(* Mutant: the request does not wait for tcpMu.                            *)
apiSendUnlocked(p) ==
    LET c == IF p = "vpn" THEN mine[p] ELSE conn
    IN  /\ pc[p] = "apiLock"
        /\ UNCHANGED <<conn, sock, ret, err, cap, tok, session, running, stopped, recentIP, history>>
        /\ IF (p = "web" /\ ~(running /\ token # 0)) \/ (c # 0 /\ sock[c] = "closed")
           THEN /\ Goto(p, CallerDone(p)) /\ mine' = [mine EXCEPT ![p] = 0]
                /\ UNCHANGED <<told, tcpMu, srv, faults>>
           ELSE /\ Goto(p, IF c = 0 THEN "apiClose" ELSE "apiRead")
                /\ mine' = [mine EXCEPT ![p] = c]
                /\ tcpMu' = p
                /\ IF c = 0 THEN UNCHANGED <<told, srv, faults>> ELSE Send(c, told[c], "api", 0)

apiSend(p) ==
    LET c == IF p = "vpn" THEN mine[p] ELSE conn
    IN  /\ pc[p] = "apiLock" /\ tcpMu = "none"
        /\ UNCHANGED <<conn, sock, ret, err, cap, tok, session, running, stopped, recentIP, history>>
        /\ IF (p = "web" /\ ~(running /\ token # 0)) \/ (c # 0 /\ sock[c] = "closed")
           THEN /\ Goto(p, CallerDone(p)) /\ mine' = [mine EXCEPT ![p] = 0]
                /\ UNCHANGED <<told, tcpMu, srv, faults>>
           ELSE /\ Goto(p, IF c = 0 THEN "apiClose" ELSE "apiRead")
                /\ mine' = [mine EXCEPT ![p] = c]
                /\ tcpMu' = p
                /\ IF c = 0 THEN UNCHANGED <<told, srv, faults>> ELSE Send(c, told[c], "api", 0)

apiDial(p) ==
    /\ pc[p] = "apiDial"
    /\ UNCHANGED <<local, session, running, stopped, srv, history>>
    /\ \/ reconnectDial(TRUE) /\ Goto(p, "apiReread") /\ UNCHANGED tcpMu
       \/ reconnectDial(FALSE) /\ Goto(p, "idle") /\ tcpMu' = "none"

(* A request that is not answered in time leaves the connection open: its  *)
(* answer is read by whoever reads next.                                   *)
apiRead(p) ==
    LET c == mine[p]
    IN  /\ pc[p] = "apiRead"
        /\ (told[c] # <<>> /\ Take(c) /\ UNCHANGED faults) \/ (ReadFails(c) /\ UNCHANGED told)
        /\ Goto(p, CallerDone(p))
        /\ mine' = [mine EXCEPT ![p] = 0]
        /\ tcpMu' = "none"
        /\ UNCHANGED <<conn, sock, ret, err, cap, tok, session, running, stopped, recentIP, srv, history>>

(* After a reconnect the pointer is read again, and somebody else may have *)
(* closed the connection ...                                               *)
reread(p) ==
    /\ pc[p] \in {"refReread", "apiReread"} /\ conn # 0
    /\ tok' = [tok EXCEPT ![p] = 0]
    /\ IF sock[conn] = "closed"
       THEN /\ tcpMu' = "none"
            /\ IF p \in Recoverers THEN Return(p, "network") ELSE Goto(p, "idle") /\ UNCHANGED <<ret, err>>
            /\ UNCHANGED <<told, mine, srv, faults>>
       ELSE /\ Goto(p, IF p \in Recoverers THEN "refRead" ELSE "apiRead")
            /\ mine' = [mine EXCEPT ![p] = conn]
            /\ Send(conn, told[conn], IF p \in Recoverers THEN "refresh" ELSE "api", tok[p])
            /\ UNCHANGED <<tcpMu, ret, err>>
    /\ UNCHANGED <<conn, sock, cap, session, running, stopped, recentIP, history>>

(* ... or cleared the pointer: conn.Write on nil panics, and systemd       *)
(* starts the process again (Restart=always).                              *)
nilConn(p) ==
    /\ pc[p] \in {"refReread", "apiReread"} /\ conn = 0
    /\ conn' = 0 /\ cap' = 0
    /\ sock' = [c \in Conns |-> "closed"]
    /\ told' = [c \in Conns |-> <<>>]
    /\ pc' = [q \in Procs |-> IF q = "keep" THEN "auth" ELSE "idle"]
    /\ ret' = [q \in Procs |-> IF q = "keep" THEN "startAuth" ELSE "idle"]
    /\ err' = [q \in Procs |-> "none"]
    /\ mine' = [q \in Procs |-> 0] /\ tok' = [q \in Procs |-> 0]
    /\ tcpMu' = "none"
    /\ token' = 0 /\ valid' = FALSE /\ reachable' = FALSE /\ backoff' = FALSE
    /\ running' = FALSE /\ stopped' = FALSE /\ recentIP' = FALSE
    /\ panicked' = TRUE
    /\ UNCHANGED <<srv, faults, calls, overlapped>>
-----------------------------------------------------------------------------
(* The network loses the connection; a restarted router loses all of them  *)
(* and its sessions; time passes.                                          *)

Lose(S, s) ==
    /\ Fault
    /\ sock' = [c \in Conns |-> IF c \in S /\ sock[c] = "open" THEN "dead" ELSE sock[c]]
    /\ told' = [c \in Conns |-> IF c \in S THEN <<>> ELSE told[c]]
    /\ srv' = s
    /\ UNCHANGED <<conn, pc, overlapped, local, tcpMu, session, running, stopped, recentIP, history>>

NetworkLoss == conn # 0 /\ sock[conn] = "open" /\ Lose({conn}, srv)

RouterRestart == srv # 0 /\ Lose(Conns, 0)

Expire ==
    /\ valid /\ Fault /\ valid' = FALSE
    /\ UNCHANGED <<conn, net, pc, overlapped, local, tcpMu, token, reachable, backoff,
                   running, stopped, recentIP, srv, history>>

BackoffOver ==
    /\ backoff /\ backoff' = FALSE
    /\ UNCHANGED <<conn, net, pc, overlapped, local, tcpMu, token, valid, reachable, flags>>

CooldownOver ==
    /\ recentIP /\ recentIP' = FALSE
    /\ UNCHANGED <<conn, net, pc, overlapped, local, tcpMu, session,
                   running, stopped, srv, faults, history>>
-----------------------------------------------------------------------------
Common(p) ==
    \/ sendRefresh(p) \/ refreshDial(p) \/ refreshRead(p)
    \/ authenticate(p) \/ authDial(p) \/ authChallenge(p) \/ authAck(p)
    \/ handleRefreshFailure(p) \/ failureReconnect(p)
    \/ failureRefreshed(p) \/ failureAuthenticated(p)
    \/ reconnectTCP(p) \/ reread(p) \/ nilConn(p)

Keep == Common("keep") \/ Start \/ keepaliveTick

Forced ==
    \/ Common("force") \/ TriggerSessionRecovery \/ recoveryRefreshed
    \/ requestSession \/ requestSessionRead \/ TriggerReauth

Api(p) ==
    \/ apiSend(p) \/ apiDial(p) \/ apiRead(p)
    \/ reconnectTCP(p) \/ reread(p) \/ nilConn(p)

Outside ==
    \/ Stop \/ ForceReconnect \/ NetworkLoss \/ RouterRestart \/ Expire
    \/ "web" \in Callers /\ ApiKeyRequest
    \/ "vpn" \in Callers /\ RequestVPNProvisioning

Next ==
    \/ Keep \/ keepaliveStop \/ Forced \/ (\E p \in Callers : Api(p))
    \/ Outside \/ BackoffOver \/ CooldownOver

Spec == Init /\ [][Next]_vars

(* Every goroutine runs and time passes.  Go's select picks among the      *)
(* ready cases at random, so a closed stopCh is not passed over for ever.  *)
FairSpec ==
    /\ Spec
    /\ WF_vars(Keep) /\ WF_vars(Forced) /\ \A p \in Callers : WF_vars(Api(p))
    /\ WF_vars(BackoffOver) /\ WF_vars(CooldownOver)
    /\ SF_vars(keepaliveStop)
-----------------------------------------------------------------------------
(* tcpMu is held by the goroutine that is in the send+receive cycle of a   *)
(* refresh, an API-key or the VPN request, and by no other: every error    *)
(* path of the cycle releases it.                                          *)
LockHeld == \A p \in Procs : tcpMu = p <=> pc[p] \in Locked

(* As long as no goroutine recovers the session beside a conversation of   *)
(* another one, every connection the client has opened and not closed is   *)
(* c.conn: none leaks on any of the error paths, and none is used through  *)
(* a nil pointer.                                                          *)
AloneIsClean ==
    ~overlapped => ~panicked /\ \A c \in Conns : sock[c] # "closed" => c = conn

(* Whatever is lost, refused, late or forgotten, and however the recovery  *)
(* paths of the goroutines interleave: the session comes back, unless the  *)
(* client is stopped.                                                      *)
SessionReturns == []<>(reachable \/ stopped)

(* A stopped client's keepalive goroutine ends, also when Stop comes in    *)
(* the middle of a recovery.                                               *)
StopEndsKeepalive == stopped ~> (pc["keep"] = "gone" \/ ~stopped)
=============================================================================
