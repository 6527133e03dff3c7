-------------------------- MODULE AuthSessionProofs --------------------------
(***************************************************************************)
(* Proofs about AuthSession for every number of connections, tokens,       *)
(* faults and calls: tcpMu is held exactly in the send+receive cycles that *)
(* take it, and as long as no unlocked conversation has met another one,   *)
(* the client has no open connection but c.conn and never uses a nil one.  *)
(***************************************************************************)
EXTENDS AuthSession, TLAPS

Places == Locked \cup Unlocked \cup Waiting

(* Where a goroutine has made sure that c.conn is nil, and where it has    *)
(* just installed a connection.                                            *)
Cleared == {"refClose", "refDial", "apiClose", "apiDial", "failClose", "failDial", "authDial"}
Dialled == {"refReread", "apiReread"}

(* The types that the argument needs.                                      *)
Types ==
    /\ pc \in [Procs -> Places]
    /\ ret \in [Procs -> Continuations]
    /\ mine \in [Procs -> Conns \cup {0}]
    /\ sock \in [Conns -> {"open", "dead", "closed"}]
    /\ conn \in Conns \cup {0}
    /\ tcpMu \in Procs \cup {"none"}

(* The history variable does not miss an overlap.                          *)
Noted == Overlap => overlapped

(* RequestVPNProvisioning waits for tcpMu only with a connection in hand.  *)
VpnHolds == \A p \in Procs : p = "vpn" /\ pc[p] = "apiLock" => mine[p] # 0

(* Every open connection is c.conn, and what the places say of it holds.   *)
Clean ==
    ~overlapped =>
        /\ ~panicked
        /\ \A c \in Conns : sock[c] # "closed" => c = conn
        /\ \A p \in Procs : pc[p] \in Cleared => conn = 0
        /\ \A p \in Procs : pc[p] \in Dialled => conn # 0

(* The inductive invariant.                                                *)
IInv == Types /\ LockHeld /\ Noted /\ VpnHolds /\ Clean

-----------------------------------------------------------------------------
(* A step of goroutine p to place l: what it does to its own variables ... *)
Moves(p, l) ==
    /\ Goto(p, l)
    /\ l \in Places
    /\ p = "vpn" /\ l = "apiLock" => mine'[p] # 0
    /\ ret' \in [Procs -> Continuations]
    /\ mine' \in [Procs -> Conns \cup {0}]
    /\ \A q \in Procs : q # p => mine'[q] = mine[q]

(* ... to tcpMu, which it keeps, takes or releases ...                     *)
Locks(p, l) ==
    \/ tcpMu' = tcpMu /\ (l \in Locked <=> pc[p] \in Locked)
    \/ tcpMu = "none" /\ tcpMu' = p /\ l \in Locked
    \/ pc[p] \in Locked /\ tcpMu' = "none" /\ l \notin Locked

(* ... and to the connection: it leaves the pointer alone and opens        *)
(* nothing; or it changes it inside a conversation; or it clears it while  *)
(* nobody holds tcpMu.                                                     *)
Leaves(l) ==
    /\ conn' = conn
    /\ \A c \in Conns : sock'[c] # "closed" => sock[c] # "closed"
    /\ ~overlapped => (l \in Cleared => conn = 0) /\ (l \in Dialled => conn # 0)

Sets(p, l) ==
    /\ pc[p] \in Locked \cup Unlocked
    /\ conn' \in Conns \cup {0}
    /\ ~overlapped => \A c \in Conns : sock'[c] # "closed" => c = conn'
    /\ (l \in Cleared => conn' = 0) /\ (l \in Dialled => conn' # 0)

Clears(l) ==
    /\ tcpMu = "none" /\ conn' = 0 /\ l \notin Dialled
    /\ ~overlapped => \A c \in Conns : sock'[c] = "closed"

Connects(p, l) ==
    /\ sock' \in [Conns -> {"open", "dead", "closed"}]
    /\ panicked' = panicked
    /\ Leaves(l) \/ Sets(p, l) \/ Clears(l)

-----------------------------------------------------------------------------
(* No goroutine has a name like that of the free lock.                     *)
LEMMA NoneIsFree == "none" \notin Procs
BY AuthAssumption DEF Procs, Recoverers

(* A step of that kind keeps the invariant.                                *)
LEMMA StepKeeps ==
    ASSUME IInv, NEW p \in Procs, NEW l,
           Moves(p, l), Locks(p, l), Connects(p, l)
    PROVE  IInv'
<1> USE DEF IInv
<1>1. pc' = [pc EXCEPT ![p] = l] /\ overlapped' = (overlapped \/ Overlap')
  BY DEF Moves, Goto
<1>2. /\ pc' \in [Procs -> Places] /\ pc'[p] = l
      /\ \A q \in Procs : q # p => pc'[q] = pc[q]
  BY <1>1 DEF Types, Moves
<1>3. Types'
  <2>1. conn' \in Conns \cup {0} /\ sock' \in [Conns -> {"open", "dead", "closed"}]
    BY DEF Connects, Leaves, Sets, Clears, Types
  <2>2. tcpMu' \in Procs \cup {"none"}
    BY DEF Locks, Types
  <2> QED  BY <1>2, <2>1, <2>2 DEF Types, Moves
<1>4. LockHeld'
  BY <1>2, NoneIsFree DEF LockHeld, Locks, Types
<1>5. Noted'
  BY <1>1 DEF Noted
<1>6. VpnHolds'
  BY <1>2 DEF VpnHolds, Moves
<1>7. Clean'
  <2> SUFFICES ASSUME ~overlapped' PROVE
        /\ ~panicked'
        /\ \A c \in Conns : sock'[c] # "closed" => c = conn'
        /\ \A q \in Procs : pc'[q] \in Cleared => conn' = 0
        /\ \A q \in Procs : pc'[q] \in Dialled => conn' # 0
    BY DEF Clean
  <2>1. ~overlapped /\ ~Overlap
    BY <1>1 DEF Noted
  <2>2. ~panicked'
    BY <2>1 DEF Clean, Connects
  <2>3. CASE Leaves(l)
    BY <1>2, <2>1, <2>2, <2>3 DEF Leaves, Clean
  <2>4. CASE Sets(p, l)
    <3>1. \A q \in Procs : q # p => pc[q] \notin Locked \cup Unlocked
      BY <2>1, <2>4 DEF Sets, Overlap, LockHeld
    <3>2. \A q \in Procs : q # p => pc'[q] \notin Cleared \cup Dialled
      BY <1>2, <3>1 DEF Cleared, Dialled, Locked, Unlocked
    <3> QED  BY <1>2, <2>1, <2>2, <2>4, <3>2 DEF Sets
  <2>5. CASE Clears(l)
    <3>1. \A q \in Procs : pc[q] \notin Dialled
      BY <2>5, NoneIsFree DEF Clears, LockHeld, Dialled, Locked
    <3> QED  BY <1>2, <2>1, <2>2, <2>5, <3>1 DEF Clears
  <2> QED  BY <2>3, <2>4, <2>5 DEF Connects
<1> QED  BY <1>3, <1>4, <1>5, <1>6, <1>7
-----------------------------------------------------------------------------
(* Places outside every conversation, where a returning call goes.         *)
Outer == (Waiting \ {"apiLock"}) \cup {"fail"}

LEMMA OuterPlaces ==
    Outer \subseteq Places \ ({"apiLock"} \cup Locked \cup Cleared \cup Dialled)
BY DEF Outer, Places, Waiting, Unlocked, Locked, Cleared, Dialled

(* sendRefresh and authenticate return to a place outside.                 *)
LEMMA ReturnMoves ==
    ASSUME IInv, NEW p \in Procs, NEW e, Return(p, e),
           mine' \in [Procs -> Conns \cup {0}],
           \A q \in Procs : q # p => mine'[q] = mine[q]
    PROVE  \E l \in Outer : Moves(p, l)
<1>1. ret[p] \in Continuations /\ ret \in [Procs -> Continuations]
  BY DEF IInv, Types
<1>2. CASE ret[p] \in {"loop", "recAuth"}
  <2> DEFINE l == IF e = "none" THEN "idle" ELSE "fail"
  <2>1. Goto(p, l) /\ ret' = [ret EXCEPT ![p] = "idle"]
    BY <1>2 DEF Return
  <2>2. l \in Outer /\ ret' \in [Procs -> Continuations]
    BY <1>1, <2>1 DEF Outer, Waiting, Continuations
  <2> QED  BY <2>1, <2>2, OuterPlaces DEF Moves
<1>3. CASE ret[p] \notin {"loop", "recAuth"}
  <2>1. Goto(p, ret[p]) /\ ret' = ret
    BY <1>3 DEF Return
  <2>2. ret[p] \in Outer
    BY <1>1, <1>3 DEF Outer, Waiting, Continuations
  <2> QED  BY <1>1, <2>1, <2>2, OuterPlaces DEF Moves
<1> QED  BY <1>2, <1>3

(* A step that moves on inside one of the client's functions.              *)
LEMMA GotoMoves ==
    ASSUME IInv, NEW p \in Procs, NEW l \in Places \ {"apiLock"},
           Goto(p, l), ret' = ret, mine' = mine
    PROVE  Moves(p, l)
BY DEF IInv, Types, Moves

(* A call of sendRefresh or authenticate, or the end of one.               *)
LEMMA CallMoves ==
    ASSUME IInv, NEW p \in Procs, NEW l \in Places \ {"apiLock"},
           NEW r \in Continuations, Call(p, l, r), mine' = mine
    PROVE  Moves(p, l)
<1>1. ret' \in [Procs -> Continuations] /\ Goto(p, l)
  BY DEF IInv, Types, Call
<1> QED  BY <1>1 DEF IInv, Types, Moves

(* Closing c.conn closes one connection at most.                           *)
LEMMA CloseCloses ==
    ASSUME IInv, CloseCurrent
    PROVE  /\ sock' \in [Conns -> {"open", "dead", "closed"}]
           /\ \A c \in Conns : sock'[c] # "closed" => sock[c] # "closed"
           /\ ~overlapped => \A c \in Conns : sock'[c] = "closed"
<1>1. /\ sock \in [Conns -> {"open", "dead", "closed"}] /\ conn \in Conns \cup {0}
      /\ ~overlapped => \A c \in Conns : sock[c] # "closed" => c = conn
  BY DEF IInv, Types, Clean
<1>2. CASE conn = 0
  BY <1>1, <1>2, AuthAssumption DEF CloseCurrent, net
<1>3. CASE conn # 0
  BY <1>1, <1>3 DEF CloseCurrent, Close
<1> QED  BY <1>2, <1>3

(* A step that leaves the connections alone.                               *)
LEMMA IdleConnects ==
    ASSUME IInv, NEW p \in Procs, NEW l, UNCHANGED <<conn, sock, panicked>>,
           ~overlapped => (l \in Cleared => conn = 0) /\ (l \in Dialled => conn # 0)
    PROVE  Connects(p, l)
BY DEF IInv, Types, Connects, Leaves

(* resetConn inside a conversation.                                        *)
LEMMA ResetConnects ==
    ASSUME IInv, NEW p \in Procs, NEW l, resetConn, UNCHANGED panicked,
           pc[p] \in Locked \cup Unlocked, l \notin Dialled
    PROVE  Connects(p, l)
<1>1. conn' = 0 /\ CloseCurrent
  BY DEF resetConn
<1> QED  BY <1>1, CloseCloses DEF Connects, Sets

(* A dial after c.conn was cleared.                                        *)
LEMMA DialConnects ==
    ASSUME IInv, NEW p \in Procs, NEW l, NEW c \in Conns, Install(c), UNCHANGED panicked,
           pc[p] \in Cleared, l \notin Cleared
    PROVE  Connects(p, l)
<1>1. /\ sock \in [Conns -> {"open", "dead", "closed"}]
      /\ ~overlapped => \A d \in Conns : sock[d] = "closed"
  BY AuthAssumption DEF IInv, Types, Clean
<1>2. conn' = c /\ sock' = [sock EXCEPT ![c] = "open"]
  BY DEF Install
<1>3. pc[p] \in Locked \cup Unlocked
  BY DEF Cleared, Locked, Unlocked
<1> QED  BY <1>1, <1>2, <1>3, AuthAssumption DEF Connects, Sets

(* The dial of reconnectTCP gives a connection.                            *)
LEMMA ReconnectInstalls ==
    ASSUME reconnectDial(TRUE)
    PROVE  \E c \in Conns : Install(c)
BY DEF reconnectDial, NewConns, Unused

-----------------------------------------------------------------------------
(* The actions of the goroutines, one lemma each.                          *)

LEMMA SendRefreshKeeps ==
    ASSUME IInv, NEW p \in Recoverers, sendRefresh(p)
    PROVE  IInv'
<1> USE DEF sendRefresh, session, history
<1>1. p \in Procs /\ pc[p] \notin Locked /\ UNCHANGED <<conn, sock, panicked>> /\ tcpMu = "none"
  BY DEF Procs, Locked
<1>2. CASE recentIP \/ token = 0 \/ (conn # 0 /\ sock[conn] = "closed")
  <2>1. \E e : Return(p, e) /\ mine' = mine /\ tcpMu' = tcpMu
    BY <1>2
  <2>2. PICK l \in Outer : Moves(p, l)
    BY <1>1, <2>1, ReturnMoves DEF IInv, Types
  <2>3. Locks(p, l)
    BY <1>1, <2>1, OuterPlaces DEF Locks
  <2>4. Connects(p, l)
    BY <1>1, OuterPlaces, IdleConnects
  <2> QED  BY <1>1, <2>2, <2>3, <2>4, StepKeeps
<1>3. CASE ~recentIP /\ token # 0 /\ conn = 0
  <2>1. Moves(p, "refClose")
    BY <1>1, <1>3, GotoMoves DEF Places, Locked
  <2>2. Locks(p, "refClose")
    BY <1>1, <1>3 DEF Locks, Locked
  <2>3. Connects(p, "refClose")
    BY <1>1, <1>3, IdleConnects DEF Dialled
  <2> QED  BY <1>1, <2>1, <2>2, <2>3, StepKeeps
<1>4. CASE ~recentIP /\ token # 0 /\ conn # 0 /\ sock[conn] # "closed"
  <2>1. Moves(p, "refRead")
    BY <1>1, <1>4 DEF Places, Locked, Moves, IInv, Types
  <2>2. Locks(p, "refRead")
    BY <1>1, <1>4 DEF Locks, Locked
  <2>3. Connects(p, "refRead")
    BY <1>1, IdleConnects DEF Dialled, Cleared
  <2> QED  BY <1>1, <2>1, <2>2, <2>3, StepKeeps
<1> QED  BY <1>2, <1>3, <1>4

LEMMA ReconnectTCPKeeps ==
    ASSUME IInv, NEW p \in Procs, reconnectTCP(p)
    PROVE  IInv'
<1> DEFINE l == CASE pc[p] = "refClose" -> "refDial" [] pc[p] = "failClose" -> "failDial"
                  [] pc[p] = "apiClose" -> "apiDial"
<1> USE DEF reconnectTCP, local, flags, history
<1>1. /\ pc[p] \in {"refClose", "failClose", "apiClose"} /\ Goto(p, l) /\ CloseCurrent
      /\ UNCHANGED <<conn, ret, mine, tcpMu, panicked>>
  OBVIOUS
<1>2. /\ l \in {"refDial", "failDial", "apiDial"}
      /\ l \in Locked <=> pc[p] \in Locked
  BY <1>1 DEF Locked
<1> HIDE DEF l
<1>3. Moves(p, l)
  BY <1>1, <1>2, GotoMoves DEF Places, Locked, Unlocked
<1>4. Locks(p, l)
  BY <1>1, <1>2 DEF Locks
<1>5. Connects(p, l)
  <2>1. ~overlapped => conn = 0
    BY <1>1 DEF IInv, Clean, Cleared
  <2> QED  BY <1>1, <1>2, <2>1, CloseCloses DEF Connects, Leaves, Dialled
<1> QED  BY <1>3, <1>4, <1>5, StepKeeps

LEMMA RefreshDialKeeps ==
    ASSUME IInv, NEW p \in Recoverers, refreshDial(p)
    PROVE  IInv'
<1> USE DEF refreshDial, history
<1>1. /\ p \in Procs /\ pc[p] = "refDial" /\ pc[p] \in Locked /\ pc[p] \in Cleared
      /\ UNCHANGED <<mine, panicked>>
  BY DEF Procs, Locked, Cleared
<1>2. CASE reconnectDial(TRUE) /\ Goto(p, "refReread") /\ UNCHANGED <<ret, err, tok, tcpMu>>
  <2>1. Moves(p, "refReread")
    BY <1>1, <1>2, GotoMoves DEF Places, Locked
  <2>2. Locks(p, "refReread")
    BY <1>1, <1>2 DEF Locks, Locked
  <2>3. Connects(p, "refReread")
    BY <1>1, <1>2, ReconnectInstalls, DialConnects DEF Cleared
  <2> QED  BY <1>1, <2>1, <2>2, <2>3, StepKeeps
<1>3. CASE reconnectDial(FALSE) /\ Return(p, "network") /\ tcpMu' = "none"
  <2>1. PICK l \in Outer : Moves(p, l)
    BY <1>1, <1>3, ReturnMoves DEF IInv, Types
  <2>2. Locks(p, l)
    BY <1>1, <1>3, OuterPlaces DEF Locks
  <2>3. UNCHANGED <<conn, sock>>
    BY <1>3 DEF reconnectDial, net
  <2>4. Connects(p, l)
    BY <1>1, <2>3, OuterPlaces, IdleConnects
  <2> QED  BY <1>1, <2>1, <2>2, <2>4, StepKeeps
<1> QED  BY <1>2, <1>3

LEMMA RefreshReadKeeps ==
    ASSUME IInv, NEW p \in Recoverers, refreshRead(p)
    PROVE  IInv'
<1>1. /\ p \in Procs /\ pc[p] = "refRead" /\ pc[p] \in Locked
      /\ \E e : Return(p, e)
      /\ mine' = [mine EXCEPT ![p] = 0] /\ tcpMu' = "none"
      /\ UNCHANGED <<conn, sock, panicked>>
  BY DEF refreshRead, history, Procs, Locked
<1>2. PICK l \in Outer : Moves(p, l)
  BY <1>1, ReturnMoves DEF IInv, Types
<1>3. Locks(p, l)
  BY <1>1, OuterPlaces DEF Locks
<1>4. Connects(p, l)
  BY <1>1, OuterPlaces, IdleConnects
<1> QED  BY <1>1, <1>2, <1>3, <1>4, StepKeeps

LEMMA AuthenticateKeeps ==
    ASSUME IInv, NEW p \in Recoverers, authenticate(p)
    PROVE  IInv'
<1>1. /\ p \in Procs /\ pc[p] \in Unlocked \ Locked /\ resetConn /\ Goto(p, "authDial")
      /\ UNCHANGED <<ret, mine, tcpMu, panicked>>
  BY DEF authenticate, local, flags, history, Procs, Locked, Unlocked
<1>2. Moves(p, "authDial")
  BY <1>1, GotoMoves DEF Places, Unlocked
<1>3. Locks(p, "authDial")
  BY <1>1 DEF Locks, Locked
<1>4. Connects(p, "authDial")
  BY <1>1, ResetConnects DEF Dialled
<1> QED  BY <1>1, <1>2, <1>3, <1>4, StepKeeps

(* A failed authenticate.                                                  *)
LEMMA AuthFailsKeeps ==
    ASSUME IInv, NEW p \in Procs, authFails(p), pc[p] \in Unlocked \ Locked,
           UNCHANGED <<tcpMu, panicked>>
    PROVE  IInv'
<1>1. resetConn /\ Return(p, "network") /\ mine' = [mine EXCEPT ![p] = 0]
  BY DEF authFails
<1>2. PICK l \in Outer : Moves(p, l)
  BY <1>1, ReturnMoves DEF IInv, Types
<1>3. Locks(p, l)
  BY OuterPlaces DEF Locks
<1>4. Connects(p, l)
  BY <1>1, OuterPlaces, ResetConnects
<1> QED  BY <1>2, <1>3, <1>4, StepKeeps

LEMMA AuthDialKeeps ==
    ASSUME IInv, NEW p \in Recoverers, authDial(p)
    PROVE  IInv'
<1> USE DEF authDial, history
<1>1. /\ p \in Procs /\ pc[p] \in Cleared \ Locked /\ UNCHANGED <<tcpMu, panicked>>
  BY DEF Procs, Locked, Cleared
<1>2. ASSUME NEW c \in NewConns, Install(c), mine' = [mine EXCEPT ![p] = c],
             Goto(p, "authChallenge"), ret' = ret
      PROVE  IInv'
  <2>1. c \in Conns
    BY DEF NewConns, Unused
  <2>2. Moves(p, "authChallenge")
    BY <1>1, <1>2, <2>1 DEF Moves, IInv, Types, Places, Unlocked
  <2>3. Locks(p, "authChallenge")
    BY <1>1 DEF Locks, Locked
  <2>4. Connects(p, "authChallenge")
    BY <1>1, <1>2, <2>1, DialConnects DEF Cleared
  <2> QED  BY <1>1, <2>2, <2>3, <2>4, StepKeeps
<1>3. CASE Return(p, "network") /\ UNCHANGED <<conn, net, mine, srv>>
  <2>1. PICK l \in Outer : Moves(p, l)
    BY <1>1, <1>3, ReturnMoves DEF IInv, Types
  <2>2. Locks(p, l)
    BY <1>1, OuterPlaces DEF Locks
  <2>3. Connects(p, l)
    BY <1>1, <1>3, OuterPlaces, IdleConnects DEF net
  <2> QED  BY <1>1, <2>1, <2>2, <2>3, StepKeeps
<1> QED  BY <1>2, <1>3

LEMMA AuthChallengeKeeps ==
    ASSUME IInv, NEW p \in Recoverers, authChallenge(p)
    PROVE  IInv'
<1>1. /\ p \in Procs /\ pc[p] \in Unlocked \ Locked /\ UNCHANGED <<tcpMu, panicked>>
      /\ authFails(p) \/ (Goto(p, "authAck") /\ UNCHANGED <<conn, sock, ret, mine>>)
  BY DEF authChallenge, history, Procs, Locked, Unlocked
<1>2. CASE authFails(p)
  BY <1>1, <1>2, AuthFailsKeeps
<1>3. CASE Goto(p, "authAck") /\ UNCHANGED <<conn, sock, ret, mine>>
  <2>1. Moves(p, "authAck")
    BY <1>1, <1>3, GotoMoves DEF Places, Unlocked
  <2>2. Locks(p, "authAck")
    BY <1>1 DEF Locks, Locked
  <2>3. Connects(p, "authAck")
    BY <1>1, <1>3, IdleConnects DEF Cleared, Dialled
  <2> QED  BY <1>1, <2>1, <2>2, <2>3, StepKeeps
<1> QED  BY <1>1, <1>2, <1>3

LEMMA AuthAckKeeps ==
    ASSUME IInv, NEW p \in Recoverers, authAck(p)
    PROVE  IInv'
<1>1. /\ p \in Procs /\ pc[p] \in Unlocked \ Locked /\ UNCHANGED <<tcpMu, panicked>>
      /\ \/ authFails(p)
         \/ /\ \E e : Return(p, e)
            /\ mine' = [mine EXCEPT ![p] = 0] /\ UNCHANGED <<conn, sock>>
  BY DEF authAck, history, Procs, Locked, Unlocked
<1>2. CASE authFails(p)
  BY <1>1, <1>2, AuthFailsKeeps
<1>3. CASE /\ \E e : Return(p, e)
           /\ mine' = [mine EXCEPT ![p] = 0] /\ UNCHANGED <<conn, sock>>
  <2>1. PICK l \in Outer : Moves(p, l)
    BY <1>1, <1>3, ReturnMoves DEF IInv, Types
  <2>2. Locks(p, l)
    BY <1>1, OuterPlaces DEF Locks
  <2>3. Connects(p, l)
    BY <1>1, <1>3, OuterPlaces, IdleConnects
  <2> QED  BY <1>1, <2>1, <2>2, <2>3, StepKeeps
<1> QED  BY <1>1, <1>2, <1>3

(* A step of handleRefreshFailure, of the keepalive loop or of the forced  *)
(* recovery that calls something and leaves tcpMu and connections alone.   *)
LEMMA QuietCallKeeps ==
    ASSUME IInv, NEW p \in Procs, NEW l \in Places \ ({"apiLock"} \cup Locked \cup Cleared),
           NEW r \in Continuations, Call(p, l, r), pc[p] \notin Locked,
           UNCHANGED <<conn, sock, mine, tcpMu, panicked>>
    PROVE  IInv'
<1>1. Moves(p, l)
  BY CallMoves
<1>2. Locks(p, l)
  BY DEF Locks
<1>3. l \notin Dialled
  BY DEF Dialled, Locked
<1>4. Connects(p, l)
  BY <1>3, IdleConnects
<1> QED  BY <1>1, <1>2, <1>4, StepKeeps

LEMMA CallPlaces ==
    /\ {"idle", "refresh", "auth", "session", "reauth"}
           \subseteq Places \ ({"apiLock"} \cup Locked \cup Cleared)
    /\ {"idle", "loop", "startAuth", "failAuth", "failRefresh", "recAuth", "recRefresh"}
           \subseteq Continuations
BY DEF Places, Locked, Unlocked, Waiting, Cleared, Continuations

LEMMA HandleRefreshFailureKeeps ==
    ASSUME IInv, NEW p \in Recoverers, handleRefreshFailure(p)
    PROVE  IInv'
<1>1. /\ p \in Procs /\ pc[p] \in Unlocked \ Locked /\ UNCHANGED <<mine, tcpMu, panicked>>
      /\ \/ Call(p, "idle", "idle") /\ UNCHANGED <<conn, sock>>
         \/ Call(p, "auth", "failAuth") /\ UNCHANGED <<conn, sock>>
         \/ Call(p, "failClose", "idle") /\ resetConn
         \/ Call(p, "auth", "failAuth") /\ resetConn
  BY DEF handleRefreshFailure, net, flags, history, Procs, Locked, Unlocked
<1>2. CASE Call(p, "idle", "idle") /\ UNCHANGED <<conn, sock>>
  BY <1>1, <1>2, CallPlaces, QuietCallKeeps
<1>3. CASE Call(p, "auth", "failAuth") /\ UNCHANGED <<conn, sock>>
  BY <1>1, <1>3, CallPlaces, QuietCallKeeps
<1>4. ASSUME NEW l \in {"failClose", "auth"}, NEW r \in Continuations, Call(p, l, r), resetConn
      PROVE  IInv'
  <2>1. l \in Places \ ({"apiLock"} \cup Locked \cup Dialled)
    BY DEF Places, Locked, Unlocked, Dialled
  <2>2. Moves(p, l)
    BY <1>1, <1>4, <2>1, CallMoves
  <2>3. Locks(p, l)
    BY <1>1, <2>1 DEF Locks
  <2>4. Connects(p, l)
    BY <1>1, <1>4, <2>1, ResetConnects
  <2> QED  BY <1>1, <2>2, <2>3, <2>4, StepKeeps
<1> QED  BY <1>1, <1>2, <1>3, <1>4, CallPlaces

LEMMA FailureReconnectKeeps ==
    ASSUME IInv, NEW p \in Recoverers, failureReconnect(p)
    PROVE  IInv'
<1>1. /\ p \in Procs /\ pc[p] \in Cleared \ Locked /\ UNCHANGED <<mine, tcpMu, panicked>>
      /\ \/ reconnectDial(TRUE) /\ Call(p, "refresh", "failRefresh")
         \/ reconnectDial(FALSE) /\ Call(p, "auth", "failAuth")
  BY DEF failureReconnect, history, Procs, Locked, Cleared
<1>2. CASE reconnectDial(TRUE) /\ Call(p, "refresh", "failRefresh")
  <2>1. Moves(p, "refresh")
    BY <1>1, <1>2, CallPlaces, CallMoves
  <2>2. Locks(p, "refresh")
    BY <1>1, CallPlaces DEF Locks
  <2>3. Connects(p, "refresh")
    BY <1>1, <1>2, CallPlaces, ReconnectInstalls, DialConnects
  <2> QED  BY <1>1, <2>1, <2>2, <2>3, StepKeeps
<1>3. CASE reconnectDial(FALSE) /\ Call(p, "auth", "failAuth")
  <2>1. UNCHANGED <<conn, sock>>
    BY <1>3 DEF reconnectDial, net
  <2> QED  BY <1>1, <1>3, <2>1, CallPlaces, QuietCallKeeps
<1> QED  BY <1>1, <1>2, <1>3

(* The rest of handleRefreshFailure, Start, the tick, and the steps of     *)
(* TriggerSessionRecovery that call something.                             *)
LEMMA CallingKeeps ==
    ASSUME IInv, NEW p \in Recoverers,
           \/ failureRefreshed(p) \/ failureAuthenticated(p)
           \/ p = "keep" /\ (Start \/ keepaliveTick)
           \/ p = "force" /\ recoveryRefreshed
    PROVE  IInv'
<1>1. /\ p \in Procs /\ pc[p] \notin Locked
      /\ UNCHANGED <<conn, sock, mine, tcpMu, panicked>>
      /\ \E l \in {"idle", "refresh", "auth", "session", "reauth"},
            r \in {"idle", "loop", "startAuth", "failAuth"} : Call(p, l, r)
  BY DEF failureRefreshed, failureAuthenticated, Start, keepaliveTick, recoveryRefreshed,
         net, flags, history, Procs, Locked
<1> QED  BY <1>1, CallPlaces, QuietCallKeeps

LEMMA TriggerSessionRecoveryKeeps ==
    ASSUME IInv, TriggerSessionRecovery
    PROVE  IInv'
<1>1. /\ "force" \in Procs /\ pc["force"] \notin Locked
      /\ UNCHANGED <<conn, sock, mine, tcpMu, panicked>>
      /\ \/ Goto("force", "fail") /\ ret' = ret
         \/ \E l \in {"refresh", "session", "reauth"}, r \in {"idle", "recRefresh"} :
              Call("force", l, r)
  BY DEF TriggerSessionRecovery, net, flags, history, Procs, Recoverers, Locked
<1>2. CASE Goto("force", "fail") /\ ret' = ret
  <2>1. Moves("force", "fail")
    BY <1>1, <1>2, GotoMoves DEF Places, Unlocked
  <2>2. Locks("force", "fail")
    BY <1>1 DEF Locks, Locked
  <2>3. Connects("force", "fail")
    BY <1>1, IdleConnects DEF Cleared, Dialled
  <2> QED  BY <1>1, <2>1, <2>2, <2>3, StepKeeps
<1>3. CASE \E l \in {"refresh", "session", "reauth"}, r \in {"idle", "recRefresh"} :
              Call("force", l, r)
  BY <1>1, <1>3, CallPlaces, QuietCallKeeps
<1> QED  BY <1>1, <1>2, <1>3

(* requestSession, and the end of the keepalive loop.                      *)
LEMMA SessionKeeps ==
    ASSUME IInv, NEW p \in Recoverers,
           \/ p = "force" /\ (requestSession \/ requestSessionRead)
           \/ p = "keep" /\ keepaliveStop
    PROVE  IInv'
<1>1. /\ p \in Procs /\ pc[p] \notin Locked
      /\ UNCHANGED <<conn, sock, ret, mine, tcpMu, panicked>>
      /\ \E l \in {"reauth", "sessRead", "idle", "gone"} : Goto(p, l)
  BY DEF requestSession, requestSessionRead, keepaliveStop, net, local, flags, history, Procs, Locked
<1>2. PICK l \in {"reauth", "sessRead", "idle", "gone"} : Goto(p, l)
  BY <1>1
<1>3. l \in Places \ ({"apiLock"} \cup Locked \cup Cleared \cup Dialled)
  BY DEF Places, Locked, Unlocked, Waiting, Cleared, Dialled
<1>4. Moves(p, l) /\ Locks(p, l) /\ Connects(p, l)
  BY <1>1, <1>2, <1>3, GotoMoves, IdleConnects DEF Locks
<1> QED  BY <1>1, <1>4, StepKeeps

(* ForceReconnect and TriggerReauth clear the pointer under tcpMu.         *)
LEMMA ClearingKeeps ==
    ASSUME IInv, ForceReconnect \/ TriggerReauth
    PROVE  IInv'
<1>1. /\ "force" \in Procs /\ pc["force"] \notin Locked /\ tcpMu = "none" /\ resetConn
      /\ UNCHANGED <<mine, tcpMu, panicked>>
      /\ \/ \E l \in {"recover", "idle"} : Goto("force", l) /\ ret' = ret
         \/ Call("force", "auth", "recAuth")
  BY DEF ForceReconnect, TriggerReauth, Called, local, flags, history, Procs, Recoverers, Locked
<1>2. PICK l \in {"recover", "idle", "auth"} : Moves("force", l)
  <2>1. {"recover", "idle", "auth"} \subseteq Places \ {"apiLock"}
    BY DEF Places, Waiting, Unlocked
  <2> QED  BY <1>1, <2>1, CallPlaces, GotoMoves, CallMoves
<1>3. Locks("force", l)
  BY <1>1 DEF Locks, Locked
<1>4. Connects("force", l)
  <2>1. conn' = 0 /\ CloseCurrent
    BY <1>1 DEF resetConn
  <2> QED  BY <1>1, <2>1, CloseCloses DEF Connects, Clears, Dialled
<1> QED  BY <1>1, <1>2, <1>3, <1>4, StepKeeps

(* The second look at c.conn after a reconnect.                            *)
LEMMA RereadKeeps ==
    ASSUME IInv, NEW p \in Procs, reread(p)
    PROVE  IInv'
<1> USE DEF reread, history
<1>1. /\ pc[p] \in Locked /\ UNCHANGED <<conn, sock, panicked>>
  BY DEF Locked
<1>2. CASE sock[conn] = "closed"
  <2>1. tcpMu' = "none" /\ mine' = mine
    BY <1>2
  <2>2. PICK l \in Outer : Moves(p, l)
    <3>1. CASE p \in Recoverers
      BY <1>2, <2>1, <3>1, ReturnMoves DEF IInv, Types
    <3>2. CASE p \notin Recoverers
      <4>1. Goto(p, "idle") /\ ret' = ret
        BY <1>2, <3>2
      <4>2. "idle" \in Outer
        BY DEF Outer, Waiting
      <4> QED  BY <2>1, <4>1, <4>2, OuterPlaces, GotoMoves
    <3> QED  BY <3>1, <3>2
  <2>3. Locks(p, l)
    BY <1>1, <2>1, OuterPlaces DEF Locks
  <2>4. Connects(p, l)
    BY <1>1, OuterPlaces, IdleConnects
  <2> QED  BY <2>2, <2>3, <2>4, StepKeeps
<1>3. CASE sock[conn] # "closed"
  <2>1. PICK l \in {"refRead", "apiRead"} : Goto(p, l)
    BY <1>3
  <2>2. l \in Locked \ (Cleared \cup Dialled) /\ l # "apiLock"
    BY DEF Locked, Cleared, Dialled
  <2>3. Moves(p, l)
    BY <1>3, <2>1, <2>2 DEF Moves, IInv, Types, Places
  <2>4. Locks(p, l)
    BY <1>1, <1>3, <2>2 DEF Locks
  <2>5. Connects(p, l)
    BY <1>1, <2>2, IdleConnects
  <2> QED  BY <2>3, <2>4, <2>5, StepKeeps
<1> QED  BY <1>2, <1>3

(* A panic happens only after an overlap, and starts the process anew.     *)
LEMMA NilConnKeeps ==
    ASSUME IInv, NEW p \in Procs, nilConn(p)
    PROVE  IInv'
<1> USE DEF nilConn
<1>1. overlapped /\ overlapped'
  BY DEF IInv, Clean, Dialled
<1>2. Types'
  BY DEF Types, Places, Unlocked, Waiting, Continuations
<1>3. LockHeld'
  BY NoneIsFree DEF LockHeld, Locked
<1>4. VpnHolds'
  BY DEF VpnHolds
<1> QED  BY <1>1, <1>2, <1>3, <1>4 DEF IInv, Noted, Clean

LEMMA ApiRequestKeeps ==
    ASSUME IInv, NEW p \in Callers,
           \/ p = "web" /\ ApiKeyRequest
           \/ p = "vpn" /\ RequestVPNProvisioning
    PROVE  IInv'
<1>1. /\ p \in Procs /\ pc[p] \notin Locked /\ Goto(p, "apiLock")
      /\ UNCHANGED <<conn, sock, ret, tcpMu, panicked>>
      /\ \/ p = "web" /\ mine' = mine
         \/ mine' = [mine EXCEPT ![p] = conn] /\ conn # 0
  BY DEF ApiKeyRequest, RequestVPNProvisioning, Called, net, local, Procs, Locked
<1>2. Moves(p, "apiLock")
  BY <1>1 DEF Moves, IInv, Types, Places, Waiting
<1>3. Locks(p, "apiLock")
  BY <1>1 DEF Locks, Locked
<1>4. Connects(p, "apiLock")
  BY <1>1, IdleConnects DEF Cleared, Dialled
<1> QED  BY <1>1, <1>2, <1>3, <1>4, StepKeeps

LEMMA ApiSendKeeps ==
    ASSUME IInv, NEW p \in Callers, apiSend(p)
    PROVE  IInv'
<1> DEFINE c == IF p = "vpn" THEN mine[p] ELSE conn
<1>1. /\ p \in Procs /\ pc[p] = "apiLock" /\ pc[p] \notin Locked /\ tcpMu = "none"
      /\ UNCHANGED <<conn, sock, ret, panicked>>
  BY DEF apiSend, history, Procs, Locked
<1>2. c \in Conns \cup {0} /\ (c = 0 => conn = 0)
  BY <1>1 DEF IInv, Types, VpnHolds
<1>3. \/ Goto(p, CallerDone(p)) /\ mine' = [mine EXCEPT ![p] = 0] /\ tcpMu' = tcpMu
      \/ /\ Goto(p, IF c = 0 THEN "apiClose" ELSE "apiRead")
         /\ mine' = [mine EXCEPT ![p] = c] /\ tcpMu' = p
  BY DEF apiSend
<1> HIDE DEF c
<1>4. CASE Goto(p, CallerDone(p)) /\ mine' = [mine EXCEPT ![p] = 0] /\ tcpMu' = tcpMu
  <2>1. CallerDone(p) \in Outer
    BY DEF CallerDone, Outer, Waiting
  <2>2. Moves(p, CallerDone(p))
    BY <1>1, <1>4, <2>1, OuterPlaces DEF Moves, IInv, Types
  <2>3. Locks(p, CallerDone(p)) /\ Connects(p, CallerDone(p))
    BY <1>1, <1>4, <2>1, OuterPlaces, IdleConnects DEF Locks
  <2> QED  BY <1>1, <2>2, <2>3, StepKeeps
<1>5. CASE /\ Goto(p, IF c = 0 THEN "apiClose" ELSE "apiRead")
           /\ mine' = [mine EXCEPT ![p] = c] /\ tcpMu' = p
  <2> DEFINE l == IF c = 0 THEN "apiClose" ELSE "apiRead"
  <2>1. l \in Locked \ Dialled /\ l # "apiLock" /\ (l \in Cleared => conn = 0)
    BY <1>2 DEF Locked, Dialled, Cleared
  <2>2. Moves(p, l)
    BY <1>1, <1>2, <1>5, <2>1 DEF Moves, IInv, Types, Places
  <2>3. Locks(p, l)
    BY <1>1, <1>5, <2>1 DEF Locks
  <2>4. Connects(p, l)
    BY <1>1, <2>1, IdleConnects
  <2> QED  BY <1>1, <2>2, <2>3, <2>4, StepKeeps
<1> QED  BY <1>3, <1>4, <1>5

LEMMA ApiDialKeeps ==
    ASSUME IInv, NEW p \in Callers, apiDial(p)
    PROVE  IInv'
<1>1. /\ p \in Procs /\ pc[p] \in Locked \cap Cleared /\ UNCHANGED <<ret, mine, panicked>>
      /\ \/ reconnectDial(TRUE) /\ Goto(p, "apiReread") /\ UNCHANGED tcpMu
         \/ reconnectDial(FALSE) /\ Goto(p, "idle") /\ tcpMu' = "none"
  BY DEF apiDial, local, history, Procs, Locked, Cleared
<1>2. CASE reconnectDial(TRUE) /\ Goto(p, "apiReread") /\ UNCHANGED tcpMu
  <2>1. Moves(p, "apiReread")
    BY <1>1, <1>2, GotoMoves DEF Places, Locked
  <2>2. Locks(p, "apiReread")
    BY <1>1, <1>2 DEF Locks, Locked
  <2>3. Connects(p, "apiReread")
    BY <1>1, <1>2, ReconnectInstalls, DialConnects DEF Cleared
  <2> QED  BY <1>1, <2>1, <2>2, <2>3, StepKeeps
<1>3. CASE reconnectDial(FALSE) /\ Goto(p, "idle") /\ tcpMu' = "none"
  <2>1. UNCHANGED <<conn, sock>>
    BY <1>3 DEF reconnectDial, net
  <2>2. Moves(p, "idle")
    BY <1>1, <1>3, CallPlaces, GotoMoves
  <2>3. Locks(p, "idle")
    BY <1>1, <1>3 DEF Locks, Locked
  <2>4. Connects(p, "idle")
    BY <1>1, <2>1, IdleConnects DEF Cleared, Dialled
  <2> QED  BY <1>1, <2>2, <2>3, <2>4, StepKeeps
<1> QED  BY <1>1, <1>2, <1>3

LEMMA ApiReadKeeps ==
    ASSUME IInv, NEW p \in Callers, apiRead(p)
    PROVE  IInv'
<1>1. /\ p \in Procs /\ pc[p] \in Locked /\ Goto(p, CallerDone(p)) /\ tcpMu' = "none"
      /\ mine' = [mine EXCEPT ![p] = 0] /\ UNCHANGED <<conn, sock, ret, panicked>>
  BY DEF apiRead, history, Procs, Locked
<1>2. CallerDone(p) \in Outer
  BY DEF CallerDone, Outer, Waiting
<1>3. Moves(p, CallerDone(p))
  BY <1>1, <1>2, OuterPlaces DEF Moves, IInv, Types
<1>4. Locks(p, CallerDone(p)) /\ Connects(p, CallerDone(p))
  BY <1>1, <1>2, OuterPlaces, IdleConnects DEF Locks
<1> QED  BY <1>1, <1>3, <1>4, StepKeeps

-----------------------------------------------------------------------------
(* What happens outside the goroutines opens no connection.                *)
LEMMA OutsideKeeps ==
    ASSUME IInv,
           UNCHANGED <<pc, ret, mine, conn, tcpMu, overlapped, panicked>>,
           sock' \in [Conns -> {"open", "dead", "closed"}],
           \A c \in Conns : sock'[c] # "closed" => sock[c] # "closed"
    PROVE  IInv'
<1>1. Types' /\ LockHeld' /\ VpnHolds'
  BY DEF IInv, Types, LockHeld, VpnHolds
<1>2. Noted'
  BY DEF IInv, Noted, Overlap
<1>3. Clean'
  BY DEF IInv, Clean
<1> QED  BY <1>1, <1>2, <1>3 DEF IInv

LEMMA FaultKeeps ==
    ASSUME IInv, Stop \/ NetworkLoss \/ RouterRestart \/ Expire \/ BackoffOver \/ CooldownOver
    PROVE  IInv'
<1>1. CASE Stop
  BY <1>1, CloseCloses, OutsideKeeps DEF Stop, local, history
<1>2. ASSUME NEW S, NEW s, Lose(S, s) PROVE IInv'
  <2>1. /\ UNCHANGED <<pc, ret, mine, conn, tcpMu, overlapped, panicked>>
        /\ sock' = [c \in Conns |-> IF c \in S /\ sock[c] = "open" THEN "dead" ELSE sock[c]]
    BY <1>2 DEF Lose, local, history
  <2>2. /\ sock' \in [Conns -> {"open", "dead", "closed"}]
        /\ \A c \in Conns : sock'[c] # "closed" => sock[c] # "closed"
    BY <2>1 DEF IInv, Types
  <2> QED  BY <2>1, <2>2, OutsideKeeps
<1>3. CASE Expire \/ BackoffOver \/ CooldownOver
  <2>1. UNCHANGED <<pc, ret, mine, conn, tcpMu, overlapped, panicked, sock>>
    BY <1>3 DEF Expire, BackoffOver, CooldownOver, net, local, flags, history
  <2> QED  BY <2>1, OutsideKeeps DEF IInv, Types
<1> QED  BY <1>1, <1>2, <1>3 DEF NetworkLoss, RouterRestart

(* The client starts clean.                                                *)
LEMMA InitHolds == Init => IInv
<1> SUFFICES ASSUME Init PROVE IInv
  OBVIOUS
<1> USE DEF Init
<1>1. Types
  BY DEF Types, Places, Unlocked, Waiting, Continuations
<1>2. LockHeld
  BY NoneIsFree DEF LockHeld, Locked
<1>3. Noted
  BY DEF Noted, Overlap, Locked, Unlocked
<1>4. VpnHolds /\ Clean
  BY DEF VpnHolds, Clean, Cleared, Dialled
<1> QED  BY <1>1, <1>2, <1>3, <1>4 DEF IInv

(* Every step of the client and of its surroundings keeps the invariant.   *)
LEMMA NextKeeps == IInv /\ [Next]_vars => IInv'
<1> SUFFICES ASSUME IInv, [Next]_vars PROVE IInv'
  OBVIOUS
<1>1. ASSUME NEW p \in Recoverers, Common(p) PROVE IInv'
  <2>1. p \in Procs
    BY DEF Procs
  <2> QED
    BY <1>1, <2>1, SendRefreshKeeps, RefreshDialKeeps, RefreshReadKeeps, AuthenticateKeeps,
       AuthDialKeeps, AuthChallengeKeeps, AuthAckKeeps, HandleRefreshFailureKeeps,
       FailureReconnectKeeps, CallingKeeps, ReconnectTCPKeeps, RereadKeeps, NilConnKeeps
    DEF Common
<1>2. {"keep", "force"} \subseteq Recoverers
  BY DEF Recoverers
<1>3. CASE Keep \/ keepaliveStop
  BY <1>1, <1>2, <1>3, CallingKeeps, SessionKeeps DEF Keep
<1>4. CASE Forced
  BY <1>1, <1>2, <1>4, TriggerSessionRecoveryKeeps, CallingKeeps, SessionKeeps, ClearingKeeps
  DEF Forced
<1>5. ASSUME NEW p \in Callers, Api(p) PROVE IInv'
  <2>1. p \in Procs
    BY DEF Procs
  <2> QED
    BY <1>5, <2>1, ApiSendKeeps, ApiDialKeeps, ApiReadKeeps, ReconnectTCPKeeps, RereadKeeps,
       NilConnKeeps DEF Api
<1>6. CASE Outside \/ BackoffOver \/ CooldownOver
  <2>1. CASE "web" \in Callers /\ ApiKeyRequest
    <3>1. PICK p \in Callers : p = "web"
      BY <2>1
    <3> QED  BY <2>1, <3>1, ApiRequestKeeps
  <2>2. CASE "vpn" \in Callers /\ RequestVPNProvisioning
    <3>1. PICK p \in Callers : p = "vpn"
      BY <2>2
    <3> QED  BY <2>2, <3>1, ApiRequestKeeps
  <2>3. CASE ForceReconnect
    BY <2>3, ClearingKeeps
  <2> QED  BY <1>6, <2>1, <2>2, <2>3, FaultKeeps DEF Outside
<1>7. CASE UNCHANGED vars
  BY <1>7, OutsideKeeps DEF vars, net, local, flags, history, IInv, Types
<1> QED  BY <1>3, <1>4, <1>5, <1>6, <1>7 DEF Next

LEMMA Invariance == Spec => []IInv
BY InitHolds, NextKeeps, PTL DEF Spec

(* tcpMu is held by the goroutine that is in a send+receive cycle, on      *)
(* every path through sendRefresh, the API-key and the VPN requests.       *)
THEOREM LockHeldAlways == Spec => []LockHeld
<1>1. IInv => LockHeld
  BY DEF IInv
<1> QED  BY Invariance, <1>1, PTL

(* As long as no unlocked conversation has met another one, c.conn is the  *)
(* only open connection and no nil connection is used.                     *)
THEOREM AloneIsCleanAlways == Spec => []AloneIsClean
<1>1. IInv => AloneIsClean
  BY DEF IInv, Clean, AloneIsClean
<1> QED  BY Invariance, <1>1, PTL
=============================================================================
