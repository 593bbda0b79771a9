-------------------------- MODULE WebServerProofs --------------------------
(***************************************************************************)
(* Proofs about WebServer, for any number of connections, workers and fds, *)
(* any queue length and every mode: the state is well typed; every open    *)
(* connection has its own timer; the main thread never uses a timer that   *)
(* has been freed; no waiting connection is forgotten; and, if every file  *)
(* is found, a tick closes a connection for its own timer only.  In        *)
(* Proactor, but for a connection that takes over an fd somebody has still *)
(* to handle, an object is in one hand, and a client gets answers to its   *)
(* own requests.                                                           *)
(***************************************************************************)
EXTENDS WebServer, SequenceTheorems, FiniteSetTheorems, TLAPS

-----------------------------------------------------------------------------
(* What the functions on connections and objects return.                    *)

LEMMA PeerType ==
    ASSUME TypeOK, NEW s
    PROVE  Peer(s) \in Conns \cup {None}
BY DEF Peer, TypeOK

LEMMA ShutType ==
    ASSUME NEW k \in ConnStates
    PROVE  Shut(k) \in ConnStates
<1>1. k.got \in SUBSET Conns /\ 0 \in 0..MaxSend /\ <<>> \in Seq(Kinds)
      BY WebServerAssumption DEF ConnStates
<1>2. NewConn \in ConnStates
      BY <1>1 DEF NewConn, ConnStates
<1>3. \A n \in ConnStates :
          [n EXCEPT !.phase = "closed", !.got = k.got, !.heir = k.heir] \in ConnStates
      BY <1>1 DEF ConnStates
<1> QED BY <1>2, <1>3 DEF Shut

LEMMA CloseFdType ==
    ASSUME NEW n \in [Conns -> ConnStates], NEW s
    PROVE  CloseFd(n, s) \in [Conns -> ConnStates]
BY ShutType DEF CloseFd

LEMMA ModfdType ==
    ASSUME NEW n \in [Conns -> ConnStates], NEW s,
           NEW ev \in {"none", "in", "out", "off"}
    PROVE  Modfd(n, s, ev) \in [Conns -> ConnStates]
BY DEF Modfd, ConnStates

LEMMA ReadNetType ==
    ASSUME TypeOK, NEW f \in FDs
    PROVE  ReadNet(f) \in [Conns -> ConnStates]
<1>1. \A k \in ConnStates : [k EXCEPT !.inbox = <<>>] \in ConnStates
  <2>1. <<>> \in Seq(Kinds)
        OBVIOUS
  <2> QED BY <2>1 DEF ConnStates
<1> QED BY <1>1 DEF ReadNet, TypeOK

LEMMA ResetType ==
    ASSUME NEW o \in Objects, NEW s \in Socks
    PROVE  Reset(o, s) \in Objects
<1>1. o.file \in Conns \cup {None}
      BY DEF Objects
<1>2. NewObject \in Objects
  <2>1. <<>> \in Seq(Pieces)
        OBVIOUS
  <2> QED BY <2>1 DEF NewObject, Objects, Socks
<1>3. \A n \in Objects : [n EXCEPT !.m_sockfd = s, !.file = o.file] \in Objects
      BY <1>1 DEF Objects
<1> QED BY <1>2, <1>3 DEF Reset

LEMMA ReadObjectType ==
    ASSUME TypeOK, NEW f \in FDs
    PROVE  ReadObject(f) \in Objects
<1> DEFINE c == Peer(users[f].m_sockfd)
           read == [i \in DOMAIN net[c].inbox |-> [conn |-> c, kind |-> net[c].inbox[i]]]
<1>1. users[f] \in Objects
      BY DEF TypeOK
<1>2. CASE c = None
      BY <1>1, <1>2 DEF ReadObject
<1>3. CASE c # None
  <2>1. c \in Conns /\ net[c].inbox \in Seq(Kinds)
        BY <1>3, PeerType DEF TypeOK, ConnStates
  <2>2. read \in Seq(Pieces)
    <3>1. /\ DOMAIN net[c].inbox = 1..Len(net[c].inbox)
          /\ Len(net[c].inbox) \in Nat
          /\ \A i \in DOMAIN net[c].inbox : net[c].inbox[i] \in Kinds
          BY <2>1
    <3>2. read \in [1..Len(net[c].inbox) -> Pieces]
          BY <2>1, <3>1 DEF Pieces
    <3> QED BY <3>1, <3>2, SeqDef
  <2>3. users[f].rbuf \o read \in Seq(Pieces)
        BY <1>1, <2>2 DEF Objects
  <2> QED BY <1>1, <1>3, <2>3 DEF ReadObject, Objects
<1> QED BY <1>2, <1>3

LEMMA WriteObjectType ==
    ASSUME TypeOK, NEW f \in FDs, NEW r
    PROVE  WriteObject(f, r) \in Objects
<1>1. \A o \in Objects : /\ [o EXCEPT !.resp = None, !.file = None] \in Objects
                         /\ [o EXCEPT !.file = None] \in Objects
      BY DEF Objects
<1> QED BY <1>1 DEF WriteObject, TypeOK

\* "sent" is a result only with a response to send, and a response is for the
\* request of some connection.
LEMMA WriteNetType ==
    ASSUME TypeOK, NEW f \in FDs, NEW r \in WriteResults(f)
    PROVE  WriteNet(f, r) \in [Conns -> ConnStates]
<1> DEFINE s == users[f].m_sockfd
           After(k) == IF r = "again" THEN [k EXCEPT !.full = "yes"]
                       ELSE IF r = "sent"
                       THEN [k EXCEPT !.got = @ \cup {users[f].resp.file}, !.full = "no"]
                       ELSE k
           n == [c \in Conns |-> IF c = Peer(s) THEN After(net[c]) ELSE net[c]]
<1>1. net \in [Conns -> ConnStates] /\ users[f] \in Objects
      BY DEF TypeOK
<1>2. r = "sent" => users[f].resp.file \in Conns
      BY <1>1 DEF WriteResults, Objects, Responses
<1>3. \A k \in ConnStates : After(k) \in ConnStates
      BY <1>2 DEF ConnStates
<1>4. n \in [Conns -> ConnStates]
      BY <1>1, <1>3
<1>5. \A ev \in {"in", "out"} : Modfd(n, s, ev) \in [Conns -> ConnStates]
      BY <1>4, ModfdType
<1>6. WriteNet(f, r) = IF r = "error" THEN net
                       ELSE Modfd(n, s, IF r = "again" THEN "out" ELSE "in")
      BY DEF WriteNet
<1> QED BY <1>1, <1>5, <1>6

LEMMA TimersType ==
    ASSUME TypeOK
    PROVE  /\ \A i \in Conns, f \in FDs :
                 /\ DOMAIN Added(i, f) \subseteq Conns
                 /\ Added(i, f) \in [DOMAIN Added(i, f) -> [fd : FDs, rem : 0..Slots]]
           /\ \A f \in FDs :
                 /\ DOMAIN Adjusted(f) = DOMAIN timers
                 /\ Adjusted(f) \in [DOMAIN timers -> [fd : FDs, rem : 0..Slots]]
           /\ \A i : /\ DOMAIN Removed(i) \subseteq Conns
                     /\ Removed(i) \in [DOMAIN Removed(i) -> [fd : FDs, rem : 0..Slots]]
<1> USE WebServerAssumption DEF TypeOK
<1>1. Slots \in 0..Slots
      OBVIOUS
<1>2. ASSUME NEW i \in Conns, NEW f \in FDs
      PROVE  /\ DOMAIN Added(i, f) \subseteq Conns
             /\ Added(i, f) \in [DOMAIN Added(i, f) -> [fd : FDs, rem : 0..Slots]]
      BY <1>1 DEF Added
<1>3. ASSUME NEW f \in FDs
      PROVE  /\ DOMAIN Adjusted(f) = DOMAIN timers
             /\ Adjusted(f) \in [DOMAIN timers -> [fd : FDs, rem : 0..Slots]]
      BY <1>1 DEF Adjusted
<1>4. ASSUME NEW i
      PROVE  /\ DOMAIN Removed(i) \subseteq Conns
             /\ Removed(i) \in [DOMAIN Removed(i) -> [fd : FDs, rem : 0..Slots]]
      BY DEF Removed
<1> QED BY <1>2, <1>3, <1>4

LEMMA AppendedType ==
    ASSUME TypeOK, NEW f \in FDs
    PROVE  Appended(f) \in Seq(FDs) /\ Len(Appended(f)) <= MaxRequest
BY WebServerAssumption DEF Appended, TypeOK

-----------------------------------------------------------------------------
(* The state is well typed.                                                 *)

LEMMA InitTypeOK == Init => TypeOK
<1> SUFFICES ASSUME Init PROVE TypeOK
    OBVIOUS
<1>1. <<>> \in Seq(Kinds) /\ <<>> \in Seq(Pieces) /\ <<>> \in Seq(FDs) /\ Len(<<>>) = 0
      OBVIOUS
<1>2. NewConn \in ConnStates
      BY <1>1, WebServerAssumption DEF NewConn, ConnStates
<1>3. NewObject \in Objects
  <2>1. <<>> \in Seq(Pieces)
        OBVIOUS
  <2> QED BY <2>1 DEF NewObject, Objects, Socks
<1>4. mode \in [actor : {0, 1}, listen : 0..2, conn : {0, 1}]
      BY WebServerAssumption DEF Init, TRIGMod
<1>5. DOMAIN timers = {} /\ timers \in [{} -> [fd : FDs, rem : 0..Slots]]
      BY DEF Init
<1>6. m_queue \in Seq(FDs) /\ Len(m_queue) <= MaxRequest
      BY <1>1, WebServerAssumption DEF Init
<1>7. net \in [Conns -> ConnStates] /\ users \in [FDs -> Objects]
      BY <1>2, <1>3 DEF Init
<1>8. /\ sock \in [FDs -> Conns \cup {None}] /\ user_timer \in [FDs -> Conns \cup {None}]
      /\ worker \in [Workers -> {NoTask} \cup Jobs]
      BY DEF Init
<1>9. main \in MainStates
      BY DEF Init, MainStates
<1>10. events \subseteq Events /\ edge \in BOOLEAN
      BY DEF Init
<1>11. m_user_count \in Int /\ alarm \in {"armed", "fired", "timeout"}
      BY DEF Init
<1> QED BY <1>4, <1>5, <1>6, <1>7, <1>8, <1>9, <1>10, <1>11 DEF TypeOK

LEMMA EnvironmentTypeOK ==
    ASSUME TypeOK, Pass \/ \E c \in Conns : Connect(c) \/ Send(c) \/ Hangup(c) \/ Drain(c)
    PROVE  TypeOK'
<1> USE DEF TypeOK
<1>1. CASE Pass
  <2>1. \A t \in [fd : FDs, rem : 0..Slots] :
            [t EXCEPT !.rem = IF @ = 0 THEN 0 ELSE @ - 1] \in [fd : FDs, rem : 0..Slots]
    <3>1. \A r \in 0..Slots : (IF r = 0 THEN 0 ELSE r - 1) \in 0..Slots
          BY WebServerAssumption
    <3> QED BY <3>1
  <2>2. /\ DOMAIN timers' = DOMAIN timers
        /\ timers' \in [DOMAIN timers -> [fd : FDs, rem : 0..Slots]]
        BY <1>1, <2>1 DEF Pass
  <2>3. alarm' \in {"armed", "fired", "timeout"}
        BY <1>1 DEF Pass
  <2> QED BY <1>1, <2>2, <2>3 DEF Pass
<1>2. ASSUME NEW c \in Conns, NEW k \in ConnStates, Client(c, k)
      PROVE  TypeOK'
      BY <1>2 DEF Client
<1>3. ASSUME NEW c \in Conns, Connect(c)
      PROVE  TypeOK'
  <2>1. \A k \in ConnStates : [k EXCEPT !.phase = "backlog"] \in ConnStates
        BY DEF ConnStates
  <2>2. net' \in [Conns -> ConnStates] /\ edge' \in BOOLEAN
        BY <1>3, <2>1 DEF Connect
  <2> QED BY <1>3, <2>2 DEF Connect
<1>4. ASSUME NEW c \in Conns, Send(c)
      PROVE  TypeOK'
  <2>1. PICK kind \in Kinds :
            Client(c, [net[c] EXCEPT !.inbox = Append(@, kind), !.sent = @ + 1])
        BY <1>4 DEF Send
  <2>2. net[c] \in ConnStates /\ net[c].sent < MaxSend
        BY <1>4 DEF Send
  <2>3. Append(net[c].inbox, kind) \in Seq(Kinds) /\ net[c].sent + 1 \in 0..MaxSend
        BY <2>2, WebServerAssumption DEF ConnStates
  <2>4. \A n \in ConnStates, q \in Seq(Kinds), i \in 0..MaxSend :
            [n EXCEPT !.inbox = q, !.sent = i] \in ConnStates
        BY DEF ConnStates
  <2>5. [net[c] EXCEPT !.inbox = Append(@, kind), !.sent = @ + 1] \in ConnStates
        BY <2>2, <2>3, <2>4
  <2> QED BY <1>2, <2>1, <2>5
<1>5. ASSUME NEW c \in Conns, Hangup(c) \/ Drain(c)
      PROVE  TypeOK'
  <2>1. \A k \in ConnStates : /\ [k EXCEPT !.gone = TRUE] \in ConnStates
                              /\ [k EXCEPT !.full = "was"] \in ConnStates
        BY DEF ConnStates
  <2> QED BY <1>2, <1>5, <2>1 DEF Hangup, Drain
<1> QED BY <1>1, <1>3, <1>4, <1>5

\* What deal_timer() leaves well typed, with any connections it starts from.
LEMMA DealTimerTypes ==
    ASSUME TypeOK, NEW n \in [Conns -> ConnStates], NEW f \in FDs, deal_timer(n, f)
    PROVE  /\ net' \in [Conns -> ConnStates]
           /\ sock' \in [FDs -> Conns \cup {None}]
           /\ user_timer' = user_timer
           /\ DOMAIN timers' \subseteq Conns
           /\ timers' \in [DOMAIN timers' -> [fd : FDs, rem : 0..Slots]]
           /\ m_user_count' \in Int
<1>1. net' \in [Conns -> ConnStates]
      BY CloseFdType DEF deal_timer, Callback
<1>2. timers' = Removed(user_timer[f])
      BY DEF deal_timer
<1>3. /\ DOMAIN timers' \subseteq Conns
      /\ timers' \in [DOMAIN timers' -> [fd : FDs, rem : 0..Slots]]
      BY <1>2, TimersType
<1> QED BY <1>1, <1>3 DEF deal_timer, Callback, TypeOK

LEMMA AcceptTypeOK ==
    ASSUME TypeOK, deal_clentdata
    PROVE  TypeOK'
<1> USE DEF TypeOK, deal_clentdata, Goto, MainStates
<1>1. CASE Backlog = {} \/ FreeFDs = {}
      BY <1>1
<1>2. CASE ~(Backlog = {} \/ FreeFDs = {})
  <2>1. PICK c \in Backlog, f \in FreeFDs : Accepted(c, f)
        BY <1>2
  <2>2. c \in Conns /\ f \in FDs
        BY DEF Backlog, FreeFDs
  <2>3. CASE m_user_count >= MaxUsers
        BY <2>1, <2>2, <2>3, ShutType DEF Accepted
  <2>4. CASE ~(m_user_count >= MaxUsers)
    <3>1. \A k \in ConnStates : Opened(k, f) \in ConnStates
          BY DEF ConnStates, Opened, Busy
    <3>2. net' \in [Conns -> ConnStates]
          BY <2>1, <2>2, <2>4, <3>1 DEF Accepted
    <3>3. Reset(users[f], f) \in Objects
          BY <2>2, ResetType DEF Socks
    <3>a. /\ sock' = [sock EXCEPT ![f] = c] /\ user_timer' = [user_timer EXCEPT ![f] = c]
          /\ users' = [users EXCEPT ![f] = Reset(users[f], f)]
          BY <2>1, <2>4 DEF Accepted
    <3>4. /\ sock' \in [FDs -> Conns \cup {None}]
          /\ user_timer' \in [FDs -> Conns \cup {None}]
          BY <2>2, <3>a
    <3>6. users' \in [FDs -> Objects]
          BY <2>2, <3>3, <3>a
    <3>7. main' \in MainStates
          BY <2>1, <2>4 DEF Accepted
    <3>5. /\ DOMAIN timers' \subseteq Conns
          /\ timers' \in [DOMAIN timers' -> [fd : FDs, rem : 0..Slots]]
          BY <2>1, <2>2, <2>4, TimersType DEF Accepted
    <3> QED BY <3>2, <3>4, <3>5, <3>6, <3>7
  <2> QED BY <2>3, <2>4
<1> QED BY <1>1, <1>2

LEMMA HandlersTypeOK ==
    ASSUME TypeOK, NEW f \in FDs, deal_read(f) \/ deal_write(f)
    PROVE  /\ net' \in [Conns -> ConnStates]
           /\ sock' \in [FDs -> Conns \cup {None}]
           /\ users' \in [FDs -> Objects]
           /\ user_timer' \in [FDs -> Conns \cup {None}]
           /\ DOMAIN timers' \subseteq Conns
           /\ timers' \in [DOMAIN timers' -> [fd : FDs, rem : 0..Slots]]
           /\ m_user_count' \in Int
           /\ m_queue' \in Seq(FDs) /\ Len(m_queue') <= MaxRequest
           /\ main' \in MainStates
<1> DEFINE TimersOK(t) == /\ DOMAIN t \subseteq Conns
                          /\ t \in [DOMAIN t -> [fd : FDs, rem : 0..Slots]]
<1>1. /\ net \in [Conns -> ConnStates] /\ sock \in [FDs -> Conns \cup {None}]
      /\ users \in [FDs -> Objects] /\ user_timer \in [FDs -> Conns \cup {None}]
      /\ m_user_count \in Int /\ TimersOK(timers)
      /\ m_queue \in Seq(FDs) /\ Len(m_queue) <= MaxRequest
      BY DEF TypeOK
<1>2. TimersOK(Adjusted(f))
      BY <1>1, TimersType
<1>3. CASE ReadHere(f)
  <2>1. users' \in [FDs -> Objects] /\ main' \in MainStates
        BY <1>1, <1>3, ReadObjectType DEF ReadHere, Goto, MainStates
  <2>2. CASE ReadOK(f)
        BY <1>1, <1>2, <1>3, <2>1, <2>2, ReadNetType, AppendedType DEF ReadHere
  <2>3. CASE ~ReadOK(f)
        BY <1>1, <1>3, <2>1, <2>3, DealTimerTypes DEF ReadHere
  <2> QED BY <2>2, <2>3
<1>4. CASE WriteHere(f)
  <2>1. PICK r \in WriteResults(f) :
           /\ users' = [users EXCEPT ![f] =
                           IF WriteInits(f, r) THEN Reset(WriteObject(f, r), @.m_sockfd)
                           ELSE WriteObject(f, r)]
           /\ IF WriteTrue(f, r)
              THEN /\ net' = WriteNet(f, r)
                   /\ timers' = Adjusted(f)
                   /\ UNCHANGED <<sock, user_timer, m_user_count>>
              ELSE deal_timer(WriteNet(f, r), f)
        BY <1>4 DEF WriteHere
  <2>2. WriteNet(f, r) \in [Conns -> ConnStates]
        BY WriteNetType
  <2>3. /\ Reset(WriteObject(f, r), users[f].m_sockfd) \in Objects
        /\ WriteObject(f, r) \in Objects
        BY <1>1, ResetType, WriteObjectType DEF Objects
  <2>4. users' \in [FDs -> Objects]
        BY <1>1, <2>1, <2>3
  <2>5. main' \in MainStates /\ m_queue' = m_queue
        BY <1>4 DEF WriteHere, Goto, MainStates
  <2>6. CASE WriteTrue(f, r)
        BY <1>1, <1>2, <2>1, <2>2, <2>4, <2>5, <2>6
  <2>7. CASE ~WriteTrue(f, r)
    <3>1. deal_timer(WriteNet(f, r), f)
          BY <2>1, <2>7
    <3> QED BY <1>1, <2>2, <2>4, <2>5, <3>1, DealTimerTypes
  <2> QED BY <2>6, <2>7
<1>5. ASSUME NEW state \in {0, 1}, NEW pc \in {"spin", "glance"}, Delegate(f, state, pc)
      PROVE  /\ users' \in [FDs -> Objects] /\ m_queue' = Appended(f)
             /\ timers' = Adjusted(f) /\ main' \in MainStates
             /\ UNCHANGED <<net, sock, user_timer, m_user_count>>
  <2>1. \A o \in Objects : [o EXCEPT !.m_state = state] \in Objects
        BY <1>5 DEF Objects
  <2>2. users' \in [FDs -> Objects]
        BY <1>1, <1>5, <2>1 DEF Delegate
  <2>3. main' \in MainStates
        BY <1>5 DEF Delegate, Goto, MainStates
  <2> QED BY <1>5, <2>2, <2>3 DEF Delegate
<1>6. CASE Delegate(f, 0, "spin") \/ Delegate(f, 1, "glance")
      BY <1>1, <1>2, <1>5, <1>6, AppendedType
<1> QED BY <1>3, <1>4, <1>6 DEF deal_read, deal_write

LEMMA MainTypeOK ==
    ASSUME TypeOK, Main
    PROVE  TypeOK'
<1>1. CASE EpollWait
  <2>1. \A k \in ConnStates : [k EXCEPT !.interest = "off"] \in ConnStates
        BY DEF ConnStates
  <2>2. net' \in [Conns -> ConnStates]
        BY <1>1, <2>1 DEF EpollWait, TypeOK
  <2>3. events' \subseteq Events
        BY <1>1 DEF EpollWait, Ready, Events
  <2>4. main' \in MainStates /\ edge' \in BOOLEAN
        BY <1>1 DEF EpollWait, Goto, MainStates
  <2> QED BY <1>1, <2>2, <2>3, <2>4 DEF EpollWait, TypeOK
<1>2. CASE deal_clentdata
      BY <1>2, AcceptTypeOK
<1>3. CASE Look
  <2>1. main.fd \in FDs
        BY <1>3 DEF Look, TypeOK, MainStates
  <2>2. main' \in MainStates
        BY <1>3, <2>1 DEF Look, Goto, MainStates
  <2>3. CASE users[main.fd].improv = 1 /\ users[main.fd].timer_flag = 1
    <3>1. deal_timer(net, main.fd) /\ users' = [users EXCEPT ![main.fd].timer_flag = 0]
          BY <1>3, <2>3 DEF Look
    <3>2. \A o \in Objects : [o EXCEPT !.timer_flag = 0] \in Objects
          BY DEF Objects
    <3>3. users' \in [FDs -> Objects]
          BY <2>1, <3>1, <3>2 DEF TypeOK
    <3>4. net \in [Conns -> ConnStates] /\ user_timer \in [FDs -> Conns \cup {None}]
          BY DEF TypeOK
    <3>5. /\ net' \in [Conns -> ConnStates]
          /\ sock' \in [FDs -> Conns \cup {None}]
          /\ user_timer' = user_timer
          /\ DOMAIN timers' \subseteq Conns
          /\ timers' \in [DOMAIN timers' -> [fd : FDs, rem : 0..Slots]]
          /\ m_user_count' \in Int
          BY <2>1, <3>1, <3>4, DealTimerTypes
    <3> QED BY <1>3, <2>2, <3>3, <3>5 DEF Look, TypeOK
  <2>4. CASE ~(users[main.fd].improv = 1 /\ users[main.fd].timer_flag = 1)
        BY <1>3, <2>2, <2>4 DEF Look, TypeOK
  <2> QED BY <2>3, <2>4
<1>4. CASE ClearImprov
  <2>1. main.fd \in FDs
        BY <1>4 DEF ClearImprov, TypeOK, MainStates
  <2>2. \A o \in Objects : [o EXCEPT !.improv = 0] \in Objects
        BY DEF Objects
  <2>3. users' \in [FDs -> Objects]
        BY <1>4, <2>1, <2>2 DEF ClearImprov, TypeOK
  <2>4. main' \in MainStates
        BY <1>4 DEF ClearImprov, Goto, MainStates
  <2> QED BY <1>4, <2>3, <2>4 DEF ClearImprov, TypeOK
<1>5. CASE Dispatch
  <2>1. PICK e \in events :
         /\ events' = events \ {e}
         /\ \/ /\ e.ev = "listen"
               /\ Goto("accept", 0)
               /\ UNCHANGED <<net, sock, users, user_timer, timers, m_user_count,
                              m_queue, alarm>>
            \/ /\ e.ev = "hup"
               /\ deal_timer(net, e.fd)
               /\ Goto("next", 0)
               /\ UNCHANGED <<users, m_queue, alarm>>
            \/ /\ e.ev = "signal"
               /\ alarm' = "timeout"
               /\ Goto("next", 0)
               /\ UNCHANGED <<net, sock, users, user_timer, timers, m_user_count,
                              m_queue>>
            \/ e.ev = "in" /\ deal_read(e.fd) /\ UNCHANGED alarm
            \/ e.ev = "out" /\ deal_write(e.fd) /\ UNCHANGED alarm
        BY <1>5 DEF Dispatch
  <2>2. e.ev \in {"hup", "in", "out"} => e.fd \in FDs
        BY DEF TypeOK, Events
  <2>3. events' \subseteq Events /\ UNCHANGED <<mode, edge, worker>>
        BY <1>5, <2>1 DEF Dispatch, TypeOK
  <2>4. /\ Goto("accept", 0) => main' \in MainStates
        /\ Goto("next", 0) => main' \in MainStates
        BY DEF Goto, MainStates
  <2>5. CASE e.ev = "listen"
        BY <2>1, <2>3, <2>4, <2>5 DEF TypeOK
  <2>6. CASE e.ev = "hup"
    <3>1. deal_timer(net, e.fd) /\ main' \in MainStates /\ UNCHANGED <<users, m_queue, alarm>>
          BY <2>1, <2>4, <2>6
    <3>2. net \in [Conns -> ConnStates]
          BY DEF TypeOK
    <3>3. /\ net' \in [Conns -> ConnStates]
          /\ sock' \in [FDs -> Conns \cup {None}]
          /\ user_timer' = user_timer
          /\ DOMAIN timers' \subseteq Conns
          /\ timers' \in [DOMAIN timers' -> [fd : FDs, rem : 0..Slots]]
          /\ m_user_count' \in Int
          BY <2>2, <2>6, <3>1, <3>2, DealTimerTypes
    <3> QED BY <2>3, <3>1, <3>3 DEF TypeOK
  <2>7. CASE e.ev = "signal"
        BY <2>1, <2>3, <2>4, <2>7 DEF TypeOK
  <2>8. CASE e.ev \in {"in", "out"}
    <3>1. (deal_read(e.fd) \/ deal_write(e.fd)) /\ UNCHANGED alarm
          BY <2>1, <2>8
    <3> HIDE <2>1
    <3> QED BY <2>2, <2>3, <2>8, <3>1, HandlersTypeOK DEF TypeOK
  <2> QED BY <2>1, <2>5, <2>6, <2>7, <2>8
<1>6. CASE BatchDone \/ TickDone
      BY <1>6 DEF BatchDone, TickDone, Goto, MainStates, TypeOK
<1>7. ASSUME NEW i \in Conns, TickOne(i)
      PROVE  TypeOK'
  <2>1. i \in DOMAIN timers /\ timers[i].fd \in FDs
        BY <1>7 DEF TickOne, Due, TypeOK
  <2>2. /\ net' \in [Conns -> ConnStates] /\ m_user_count' \in Int
        /\ sock' \in [FDs -> Conns \cup {None}]
        BY <1>7, <2>1, CloseFdType DEF TickOne, Callback, TypeOK
  <2>3. /\ DOMAIN timers' \subseteq Conns
        /\ timers' \in [DOMAIN timers' -> [fd : FDs, rem : 0..Slots]]
        BY <1>7, TimersType DEF TickOne
  <2> QED BY <1>7, <2>2, <2>3 DEF TickOne, TypeOK
<1> QED BY <1>1, <1>2, <1>3, <1>4, <1>5, <1>6, <1>7 DEF Main

LEMMA WorkerTypeOK ==
    ASSUME TypeOK, NEW w \in Workers, Worker(w)
    PROVE  TypeOK'
<1> DEFINE f == worker[w].fd
           WorkersOK(p) == p \in [Workers -> {NoTask} \cup Jobs]
<1>1. worker[w].pc # "idle" => worker[w] \in Jobs /\ f \in FDs /\ Object(w) \in Objects
  <2>1. worker[w] = NoTask \/ worker[w] \in Jobs
        BY DEF TypeOK
  <2>2. worker[w] \in Jobs => f \in FDs
        BY DEF Jobs
  <2>3. f \in FDs => Object(w) \in Objects
        BY DEF TypeOK, Object
  <2> QED BY <2>1, <2>2, <2>3 DEF NoTask
<1>2. ASSUME NEW pc \in {"task", "read", "failed", "init", "written", "process", "answer",
                         "flag", "close", "forget", "rearm_in", "rearm_out"},
             worker[w].pc # "idle", Step(w, pc)
      PROVE  WorkersOK(worker')
  <2>1. \A j \in Jobs : [j EXCEPT !.pc = pc] \in Jobs
        BY DEF Jobs
  <2> QED BY <1>1, <1>2, <2>1 DEF Step, TypeOK
<1>3. ASSUME Finish(w)
      PROVE  WorkersOK(worker')
      BY <1>3 DEF Finish, TypeOK
<1>4. ASSUME NEW o \in Objects, worker[w].pc # "idle", Set(w, o)
      PROVE  users' \in [FDs -> Objects]
      BY <1>1, <1>4 DEF Set, TypeOK
<1>5. CASE Take(w)
  <2>1. Head(m_queue) \in FDs /\ Tail(m_queue) \in Seq(FDs)
        /\ Len(Tail(m_queue)) <= MaxRequest
        BY <1>5, WebServerAssumption DEF Take, TypeOK
  <2>2. [pc |-> "task", fd |-> Head(m_queue)] \in Jobs
        BY <2>1 DEF Jobs
  <2>3. WorkersOK(worker')
        BY <1>5, <2>2 DEF Take, TypeOK
  <2> QED BY <1>5, <2>1, <2>3 DEF Take, TypeOK
<1>6. CASE WorkerRead(w)
  <2>1. worker[w].pc # "idle" /\ f \in FDs
        BY <1>1, <1>6 DEF WorkerRead
  <2>2. net' \in [Conns -> ConnStates]
        BY <1>6, <2>1, ReadNetType DEF WorkerRead
  <2>3. users' \in [FDs -> Objects]
        BY <1>4, <1>6, <2>1, ReadObjectType DEF WorkerRead
  <2>4. WorkersOK(worker')
        BY <1>2, <1>6, <2>1 DEF WorkerRead
  <2> QED BY <1>6, <2>2, <2>3, <2>4 DEF WorkerRead, TypeOK
<1>7. CASE WorkerWrite(w)
  <2>1. worker[w].pc # "idle" /\ f \in FDs
        BY <1>1, <1>7 DEF WorkerWrite
  <2>2. PICK r \in WriteResults(f) :
            /\ net' = WriteNet(f, r)
            /\ Set(w, WriteObject(f, r))
            /\ Step(w, IF WriteInits(f, r) THEN "init"
                       ELSE IF WriteTrue(f, r) THEN "written" ELSE "failed")
        BY <1>7 DEF WorkerWrite
  <2>3. net' \in [Conns -> ConnStates]
        BY <2>1, <2>2, WriteNetType
  <2>4. users' \in [FDs -> Objects]
        BY <1>4, <2>1, <2>2, WriteObjectType
  <2>5. WorkersOK(worker')
        BY <1>2, <2>1, <2>2
  <2> QED BY <1>7, <2>3, <2>4, <2>5 DEF WorkerWrite, TypeOK
<1>8. CASE WorkerInit(w)
  <2>1. worker[w].pc # "idle" /\ Object(w) \in Objects
        BY <1>1, <1>8 DEF WorkerInit
  <2>2. Reset(Object(w), Object(w).m_sockfd) \in Objects
        BY <2>1, ResetType DEF Objects
  <2>3. users' \in [FDs -> Objects] /\ WorkersOK(worker')
        BY <1>2, <1>4, <1>8, <2>1, <2>2 DEF WorkerInit
  <2> QED BY <1>8, <2>3 DEF WorkerInit, TypeOK
<1>9. CASE SetImprov(w)
  <2>1. worker[w].pc # "idle" /\ Object(w) \in Objects
        BY <1>1, <1>9 DEF SetImprov
  <2>2. [Object(w) EXCEPT !.improv = 1] \in Objects
        BY <2>1 DEF Objects
  <2>3. users' \in [FDs -> Objects]
        BY <1>4, <1>9, <2>1, <2>2 DEF SetImprov
  <2>4. WorkersOK(worker')
    <3>1. Step(w, "process") \/ Step(w, "flag") \/ Finish(w)
          BY <1>9 DEF SetImprov
    <3> QED BY <1>2, <1>3, <2>1, <3>1
  <2> QED BY <1>9, <2>3, <2>4 DEF SetImprov, TypeOK
<1>10. CASE SetTimerFlag(w)
  <2>1. worker[w].pc # "idle" /\ Object(w) \in Objects
        BY <1>1, <1>10 DEF SetTimerFlag
  <2>2. [Object(w) EXCEPT !.timer_flag = 1] \in Objects
        BY <2>1 DEF Objects
  <2>3. users' \in [FDs -> Objects] /\ WorkersOK(worker')
        BY <1>3, <1>4, <1>10, <2>1, <2>2 DEF SetTimerFlag
  <2> QED BY <1>10, <2>3 DEF SetTimerFlag, TypeOK
<1>11. CASE Process(w)
  <2>1. worker[w].pc # "idle" /\ Object(w) \in Objects
        BY <1>1, <1>11 DEF Process
  <2>2. UNCHANGED <<mode, net, sock, edge, user_timer, timers, m_user_count, m_queue,
                    main, events, alarm>>
        BY <1>11 DEF Process
  <2>3. CASE Complete(Object(w).rbuf) = {}
        BY <1>2, <1>11, <2>1, <2>2, <2>3 DEF Process, TypeOK
  <2>4. CASE Complete(Object(w).rbuf) # {}
    <3>1. PICK i \in Complete(Object(w).rbuf) : Parsed(w, Object(w).rbuf[i].kind)
          BY <1>11, <2>4 DEF Process
    <3>2. Object(w).rbuf \in Seq(Pieces) /\ i \in DOMAIN Object(w).rbuf
          BY <2>1, <3>1 DEF Complete, Objects
    <3>3. Object(w).rbuf[1] \in Pieces /\ Object(w).rbuf[i] \in Pieces
          BY <3>2
    <3>4. Object(w).rbuf[1].conn \in Conns
          BY <3>3 DEF Pieces
    <3> DEFINE linger == Object(w).m_linger \/ Object(w).rbuf[i].kind = "keep"
               o == [Object(w) EXCEPT !.rbuf = <<>>, !.m_linger = linger]
    <3>5. \A l \in BOOLEAN, c \in Conns :
              /\ [Object(w) EXCEPT !.rbuf = <<>>, !.m_linger = l] \in Objects
              /\ [[Object(w) EXCEPT !.rbuf = <<>>, !.m_linger = l] EXCEPT !.file = c]
                    \in Objects
      <4>1. <<>> \in Seq(Pieces)
            OBVIOUS
      <4> QED BY <2>1, <4>1 DEF Objects
    <3>9. o \in Objects /\ [o EXCEPT !.file = Object(w).rbuf[1].conn] \in Objects
      <4>1. linger \in BOOLEAN
            OBVIOUS
      <4> HIDE DEF linger
      <4> QED BY <3>4, <3>5, <4>1
    <3>10. Set(w, o) \/ Set(w, [o EXCEPT !.file = Object(w).rbuf[1].conn])
          BY <3>1 DEF Parsed
    <3>6. users' \in [FDs -> Objects]
      <4> HIDE DEF o
      <4> QED BY <1>4, <2>1, <3>9, <3>10
    <3>7. Step(w, "close") \/ Step(w, "answer")
          BY <3>1 DEF Parsed
    <3>8. WorkersOK(worker')
          BY <1>2, <2>1, <3>7
    <3> QED BY <2>2, <3>6, <3>8 DEF TypeOK
  <2> QED BY <2>3, <2>4
<1>12. CASE CloseConn(w)
  <2>1. worker[w].pc # "idle" /\ Object(w) \in Objects
        BY <1>1, <1>12 DEF CloseConn
  <2>2. WorkersOK(worker')
    <3>1. Step(w, "rearm_out") \/ Step(w, "forget")
          BY <1>12 DEF CloseConn
    <3> QED BY <1>2, <2>1, <3>1
  <2>3. net' \in [Conns -> ConnStates] /\ sock' \in [FDs -> Conns \cup {None}]
    <3>1. CASE Object(w).m_sockfd = -1
          BY <1>12, <3>1 DEF CloseConn, TypeOK
    <3>2. CASE Object(w).m_sockfd # -1
      <4>1. /\ net' = CloseFd(net, Object(w).m_sockfd)
            /\ sock' = [sock EXCEPT ![Object(w).m_sockfd] = None]
            BY <1>12, <3>2 DEF CloseConn
      <4> QED BY <4>1, CloseFdType DEF TypeOK
    <3> QED BY <3>1, <3>2
  <2> QED BY <1>12, <2>2, <2>3 DEF CloseConn, TypeOK
<1>13. CASE ForgetSocket(w)
  <2>1. worker[w].pc # "idle" /\ Object(w) \in Objects
        BY <1>1, <1>13 DEF ForgetSocket
  <2>2. \A o \in Objects : [o EXCEPT !.m_sockfd = -1] \in Objects
        BY DEF Objects, Socks
  <2>3. users' \in [FDs -> Objects] /\ WorkersOK(worker')
        BY <1>2, <1>4, <1>13, <2>1, <2>2 DEF ForgetSocket
  <2>4. m_user_count' \in Int
    <3>1. m_user_count \in Int
          BY DEF TypeOK
    <3>2. m_user_count' = m_user_count - 1
          BY <1>13 DEF ForgetSocket
    <3> QED BY <3>1, <3>2
  <2> QED BY <1>13, <2>3, <2>4 DEF ForgetSocket, TypeOK
<1>14. CASE Rearm(w)
  <2>1. net' \in [Conns -> ConnStates]
        BY <1>14, ModfdType DEF Rearm, TypeOK
  <2>2. WorkersOK(worker')
        BY <1>3, <1>14 DEF Rearm
  <2> QED BY <1>14, <2>1, <2>2 DEF Rearm, TypeOK
<1>15. CASE ProcessWrite(w)
  <2>1. worker[w].pc # "idle" /\ Object(w) \in Objects
        BY <1>1, <1>15 DEF ProcessWrite
  <2>2. [Object(w) EXCEPT !.resp = [file |-> Object(w).file]] \in Objects
        BY <2>1 DEF Objects, Responses
  <2>3. users' \in [FDs -> Objects] /\ WorkersOK(worker')
        BY <1>2, <1>4, <1>15, <2>1, <2>2 DEF ProcessWrite
  <2> QED BY <1>15, <2>3 DEF ProcessWrite, TypeOK
<1> QED BY <1>5, <1>6, <1>7, <1>8, <1>9, <1>10, <1>11, <1>12, <1>13, <1>14, <1>15
        DEF Worker

LEMMA NextTypeOK == TypeOK /\ [Next]_vars => TypeOK'
<1> SUFFICES ASSUME TypeOK, [Next]_vars PROVE TypeOK'
    OBVIOUS
<1>1. CASE Next
      BY <1>1, EnvironmentTypeOK, MainTypeOK, WorkerTypeOK DEF Next
<1>2. CASE UNCHANGED vars
      BY <1>2 DEF vars, TypeOK
<1> QED BY <1>1, <1>2

\* Type correctness of the running server: in particular the queue is never
\* longer than m_max_request, and the main thread waits for, adjusts or deletes
\* only for fds that exist.
THEOREM TypeCorrect == Spec => []TypeOK
<1> QED BY InitTypeOK, NextTypeOK, PTL DEF Spec

-----------------------------------------------------------------------------
(* Every open connection owns its timer, and no freed timer is used.        *)

\* The slot of an fd never points at a running timer of another fd.
SlotInv == \A f \in FDs : user_timer[f] \in DOMAIN timers
                              => timers[user_timer[f]].fd = f

\* A connection that has not been accepted has left no trace.
Fresh(c) == net[c].phase \in {"none", "backlog"}

FreshInv == \A c \in Conns : Fresh(c) =>
                c \notin DOMAIN timers /\ \A f \in FDs : sock[f] # c /\ user_timer[f] # c

\* The events of a batch are for different fds; one that is being handled is not
\* among the rest; and a tick comes after the last of them.
EventInv ==
    /\ \A d, e \in events : d.fd = e.fd /\ d.fd # 0 => d = e
    /\ main.pc \in {"spin", "glance"} => \A e \in events : e.fd # main.fd
    /\ main.pc \in {"wait", "tick"} => events = {}

TimerInv == TypeOK /\ TimerOwned /\ NoFreedTimer /\ SlotInv /\ FreshInv /\ EventInv

LEMMA InitTimerInv == Init => TimerInv
<1> SUFFICES ASSUME Init PROVE TimerInv
    OBVIOUS
<1>1. TypeOK
      BY InitTypeOK
<1>2. /\ \A f \in FDs : sock[f] = None /\ user_timer[f] = None
      /\ DOMAIN timers = {} /\ events = {} /\ main.pc = "wait"
      BY DEF Init
<1>3. TimerOwned /\ NoFreedTimer /\ SlotInv /\ EventInv
      BY <1>2 DEF TimerOwned, NoFreedTimer, SlotInv, EventInv
<1>4. FreshInv
      BY <1>2, WebServerAssumption DEF FreshInv
<1> QED BY <1>1, <1>3, <1>4 DEF TimerInv

\* In n no connection is fresh that is not so now, in the same phase.
NoneRenewed(n) ==
    \A c \in Conns : n[c].phase \in {"none", "backlog"} => n[c].phase = net[c].phase

LEMMA ShutPhase == ASSUME NEW k PROVE Shut(k).phase = "closed"
BY DEF Shut, NewConn

LEMMA RenewedNet ==
    ASSUME TypeOK
    PROVE  /\ NoneRenewed(net)
           /\ \A n \in [Conns -> ConnStates] : \A s : NoneRenewed(n) =>
                  /\ NoneRenewed(CloseFd(n, s))
                  /\ \A ev : NoneRenewed(Modfd(n, s, ev))
           /\ \A f \in FDs : NoneRenewed(ReadNet(f))
           /\ \A f \in FDs : \A r : NoneRenewed(WriteNet(f, r))
<1> USE DEF NoneRenewed, Fresh
<1>1. net \in [Conns -> ConnStates]
      BY DEF TypeOK
<1>2. ASSUME NEW n \in [Conns -> ConnStates], NEW s, NoneRenewed(n)
      PROVE  NoneRenewed(CloseFd(n, s))
      BY <1>2, ShutPhase DEF CloseFd
<1>3. ASSUME NEW n \in [Conns -> ConnStates], NEW s, NEW ev, NoneRenewed(n)
      PROVE  NoneRenewed(Modfd(n, s, ev))
  <2>1. \A k \in ConnStates : [k EXCEPT !.interest = ev].phase = k.phase
        BY DEF ConnStates
  <2> QED BY <1>3, <2>1 DEF Modfd
<1>4. ASSUME NEW f \in FDs
      PROVE  NoneRenewed(ReadNet(f))
  <2>1. \A k \in ConnStates : [k EXCEPT !.inbox = <<>>].phase = k.phase
        BY DEF ConnStates
  <2> QED BY <1>1, <2>1 DEF ReadNet
<1>5. ASSUME NEW f \in FDs, NEW r
      PROVE  NoneRenewed(WriteNet(f, r))
  <2> DEFINE s == users[f].m_sockfd
             After(k) == IF r = "again" THEN [k EXCEPT !.full = "yes"]
                         ELSE IF r = "sent"
                         THEN [k EXCEPT !.got = @ \cup {users[f].resp.file}, !.full = "no"]
                         ELSE k
             m == [c \in Conns |-> IF c = Peer(s) THEN After(net[c]) ELSE net[c]]
             ev == IF r = "again" THEN "out" ELSE "in"
  <2>1. \A k \in ConnStates : After(k).phase = k.phase
        BY DEF ConnStates
  <2>2. \A c \in Conns : m[c].phase = net[c].phase
        BY <1>1, <2>1
  <2>3. \A k \in ConnStates : [After(k) EXCEPT !.interest = ev].phase = k.phase
        BY DEF ConnStates
  <2>4. \A c \in Conns : Modfd(m, s, ev)[c].phase = net[c].phase
        BY <1>1, <2>2, <2>3 DEF Modfd
  <2>5. WriteNet(f, r) = IF r = "error" THEN net ELSE Modfd(m, s, ev)
        BY DEF WriteNet
  <2> QED BY <2>4, <2>5
<1> QED BY <1>2, <1>3, <1>4, <1>5

\* A step that starts, stops and moves no timer, and gives nobody an fd.
LEMMA KeepTimers ==
    ASSUME TimerInv, TypeOK', \A c \in Conns : Fresh(c)' => Fresh(c),
           UNCHANGED <<user_timer, main, events>>,
           \A f \in FDs : sock'[f] \in {sock[f], None},
           DOMAIN timers' = DOMAIN timers,
           \A i \in DOMAIN timers : timers'[i].fd = timers[i].fd
    PROVE  TimerInv'
<1> USE DEF TimerInv
<1>1. TimerOwned'
  <2> SUFFICES ASSUME NEW f \in FDs, sock'[f] # None
               PROVE  /\ user_timer'[f] = sock'[f]
                      /\ sock'[f] \in DOMAIN timers' /\ timers'[sock'[f]].fd = f
      BY DEF TimerOwned
  <2> QED BY DEF TimerOwned
<1>2. NoFreedTimer' /\ SlotInv' /\ EventInv'
      BY DEF NoFreedTimer, SlotInv, EventInv
<1>3. FreshInv'
  <2> SUFFICES ASSUME NEW c \in Conns, net'[c].phase \in {"none", "backlog"}
               PROVE  c \notin DOMAIN timers' /\ \A f \in FDs : sock'[f] # c /\ user_timer'[f] # c
      BY DEF FreshInv, Fresh
  <2> QED BY WebServerAssumption DEF FreshInv, Fresh
<1> QED BY <1>1, <1>2, <1>3

\* What deal_timer() keeps, as long as the timer it is given is running.
LEMMA DealTimerKeeps ==
    ASSUME TimerInv, NEW f \in FDs, user_timer[f] \in DOMAIN timers,
           NEW n \in [Conns -> ConnStates], NoneRenewed(n), deal_timer(n, f)
    PROVE  /\ TimerOwned' /\ SlotInv' /\ FreshInv' /\ user_timer' = user_timer
           /\ \A g \in FDs \ {f} : user_timer[g] \in DOMAIN timers
                                       => user_timer[g] \in DOMAIN timers'
<1>1. /\ timers' = Removed(user_timer[f]) /\ user_timer' = user_timer
      /\ sock' = [sock EXCEPT ![f] = None] /\ net' = CloseFd(n, f)
      BY DEF deal_timer, Callback
<1>2. /\ DOMAIN timers' = DOMAIN timers \ {user_timer[f]}
      /\ \A i \in DOMAIN timers' : timers'[i] = timers[i]
      BY <1>1 DEF Removed
<1>3. timers[user_timer[f]].fd = f
      BY DEF TimerInv, SlotInv
<1>4. \A g \in FDs \ {f} : user_timer[g] \in DOMAIN timers
                               => user_timer[g] \in DOMAIN timers'
      BY <1>2, <1>3 DEF TimerInv, SlotInv
<1>5. \A g \in FDs : sock'[g] = IF g = f THEN None ELSE sock[g]
      BY <1>1 DEF TimerInv, TypeOK
<1>6. TimerOwned'
      BY <1>1, <1>2, <1>3, <1>5 DEF TimerInv, TimerOwned
<1>7. SlotInv'
      BY <1>1, <1>2 DEF TimerInv, SlotInv
<1>8. NoneRenewed(net')
      BY <1>1, RenewedNet DEF TimerInv
<1>9. FreshInv'
  <2> SUFFICES ASSUME NEW c \in Conns, net'[c].phase \in {"none", "backlog"}
               PROVE  c \notin DOMAIN timers' /\ \A g \in FDs : sock'[g] # c /\ user_timer'[g] # c
      BY DEF FreshInv, Fresh
  <2> QED BY <1>1, <1>2, <1>5, <1>8, WebServerAssumption
          DEF TimerInv, FreshInv, Fresh, NoneRenewed
<1> QED BY <1>1, <1>4, <1>6, <1>7, <1>9

LEMMA EnvironmentTimerInv ==
    ASSUME TimerInv, Pass \/ \E c \in Conns : Connect(c) \/ Send(c) \/ Hangup(c) \/ Drain(c)
    PROVE  TimerInv'
<1>1. TypeOK /\ TypeOK'
      BY EnvironmentTypeOK DEF TimerInv
<1>2. CASE Pass
  <2>1. /\ UNCHANGED <<net, sock, user_timer, main, events>>
        /\ DOMAIN timers' = DOMAIN timers
        BY <1>2 DEF Pass
  <2>2. \A t \in [fd : FDs, rem : 0..Slots] : \A r : [t EXCEPT !.rem = r].fd = t.fd
        OBVIOUS
  <2>3. \A i \in DOMAIN timers : timers'[i].fd = timers[i].fd
        BY <1>1, <1>2, <2>2 DEF Pass, TypeOK
  <2> QED BY <1>1, <2>1, <2>3, KeepTimers DEF Fresh
<1>3. ASSUME NEW c \in Conns, NEW k, net' = [net EXCEPT ![c] = k],
             k.phase \in {"none", "backlog"} => Fresh(c),
             UNCHANGED <<sock, user_timer, timers, main, events>>
      PROVE  TimerInv'
  <2>1. \A d \in Conns : Fresh(d)' => Fresh(d)
        BY <1>1, <1>3 DEF Fresh, TypeOK
  <2> QED BY <1>1, <1>3, <2>1, KeepTimers
<1>4. ASSUME NEW c \in Conns, Connect(c)
      PROVE  TimerInv'
  <2>1. Fresh(c)
        BY <1>4 DEF Connect, Fresh
  <2>2. net' = [net EXCEPT ![c] = [net[c] EXCEPT !.phase = "backlog"]]
        BY <1>4 DEF Connect
  <2> QED BY <1>3, <1>4, <2>1, <2>2 DEF Connect
<1>5. ASSUME NEW c \in Conns, Send(c) \/ Hangup(c) \/ Drain(c)
      PROVE  TimerInv'
  <2>1. PICK k : Client(c, k) /\ k.phase = net[c].phase
    <3>1. net[c] \in ConnStates
          BY <1>1 DEF TypeOK
    <3>2. /\ \A q, i : [net[c] EXCEPT !.inbox = q, !.sent = i].phase = net[c].phase
          /\ [net[c] EXCEPT !.gone = TRUE].phase = net[c].phase
          /\ [net[c] EXCEPT !.full = "was"].phase = net[c].phase
          BY <3>1 DEF ConnStates
    <3>3. CASE Send(c)
          BY <3>2, <3>3 DEF Send
    <3>4. CASE Hangup(c) \/ Drain(c)
          BY <3>2, <3>4 DEF Hangup, Drain
    <3> QED BY <1>5, <3>3, <3>4
  <2> QED BY <1>3, <2>1 DEF Client, Fresh
<1> QED BY <1>2, <1>4, <1>5

\* The workers give nobody an fd; they can only close one.
LEMMA WorkerNet ==
    ASSUME TypeOK, NEW w \in Workers, Worker(w)
    PROVE  NoneRenewed(net') /\ \A f \in FDs : sock'[f] \in {sock[f], None}
<1>1. worker[w].pc # "idle" => worker[w].fd \in FDs
  <2>1. worker[w] = NoTask \/ worker[w] \in Jobs
        BY DEF TypeOK
  <2>2. worker[w] \in Jobs => worker[w].fd \in FDs
        BY DEF Jobs
  <2> QED BY <2>1, <2>2 DEF NoTask
<1>2. net \in [Conns -> ConnStates]
      BY DEF TypeOK
<1>3. CASE Take(w) \/ WorkerInit(w) \/ SetImprov(w) \/ SetTimerFlag(w) \/ Process(w)
           \/ ProcessWrite(w) \/ ForgetSocket(w)
  <2>1. UNCHANGED <<net, sock>>
        BY <1>3 DEF Take, WorkerInit, SetImprov, SetTimerFlag, Process,
                      ProcessWrite, ForgetSocket
  <2> QED BY <2>1 DEF NoneRenewed, Fresh
<1>4. CASE WorkerRead(w)
      BY <1>1, <1>4, RenewedNet DEF WorkerRead
<1>5. CASE WorkerWrite(w)
      BY <1>1, <1>5, RenewedNet DEF WorkerWrite
<1>6. CASE CloseConn(w)
  <2>1. CASE UNCHANGED <<net, sock>>
        BY <2>1 DEF NoneRenewed, Fresh
  <2>2. CASE ~UNCHANGED <<net, sock>>
    <3>1. /\ net' = CloseFd(net, Object(w).m_sockfd)
          /\ sock' = [sock EXCEPT ![Object(w).m_sockfd] = None]
          BY <1>6, <2>2 DEF CloseConn
    <3>2. NoneRenewed(net')
          BY <1>2, <3>1, RenewedNet
    <3> QED BY <3>1, <3>2 DEF TypeOK
  <2> QED BY <2>1, <2>2
<1>7. CASE Rearm(w)
      BY <1>2, <1>7, RenewedNet DEF Rearm
<1> QED BY <1>3, <1>4, <1>5, <1>6, <1>7 DEF Worker

\* The workers touch no timer.
LEMMA WorkerTimerInv ==
    ASSUME TimerInv, NEW w \in Workers, Worker(w)
    PROVE  TimerInv'
<1>1. TypeOK /\ TypeOK'
      BY WorkerTypeOK DEF TimerInv
<1>2. UNCHANGED <<user_timer, main, events, timers>>
      BY DEF Worker, Take, WorkerRead, WorkerWrite, WorkerInit, SetImprov, SetTimerFlag,
             Process, ProcessWrite, CloseConn, ForgetSocket, Rearm
<1>3. NoneRenewed(net') /\ \A f \in FDs : sock'[f] \in {sock[f], None}
      BY <1>1, WorkerNet
<1>4. \A c \in Conns : Fresh(c)' => Fresh(c)
      BY <1>3 DEF NoneRenewed, Fresh
<1> QED BY <1>1, <1>2, <1>3, <1>4, KeepTimers

LEMMA AcceptTimerInv ==
    ASSUME TimerInv, deal_clentdata
    PROVE  TimerInv'
<1>1. TypeOK /\ TypeOK'
      BY AcceptTypeOK DEF TimerInv
<1>2. /\ main.pc = "accept" /\ main'.pc \in {"next", "accept"} /\ events' = events
      BY DEF deal_clentdata, Accepted, Goto
<1>3. EventInv'
      BY <1>2 DEF TimerInv, EventInv
<1>4. CASE UNCHANGED <<sock, user_timer, timers>> /\ NoneRenewed(net')
      BY <1>1, <1>2, <1>3, <1>4
         DEF TimerInv, TimerOwned, NoFreedTimer, SlotInv, FreshInv, Fresh, NoneRenewed
<1>5. CASE Backlog = {} \/ FreeFDs = {}
  <2>1. UNCHANGED <<net, sock, user_timer, timers>>
        BY <1>5 DEF deal_clentdata
  <2> QED BY <1>4, <2>1 DEF NoneRenewed, Fresh
<1>6. CASE ~(Backlog = {} \/ FreeFDs = {})
  <2>1. PICK c \in Backlog, f \in FreeFDs : Accepted(c, f)
        BY <1>6 DEF deal_clentdata
  <2>2. c \in Conns /\ f \in FDs /\ Fresh(c) /\ sock[f] = None
        BY DEF Backlog, FreeFDs, Fresh
  <2>3. CASE m_user_count >= MaxUsers
    <3>1. UNCHANGED <<sock, user_timer, timers>> /\ net' = [net EXCEPT ![c] = Shut(@)]
          BY <2>1, <2>3 DEF Accepted
    <3>2. NoneRenewed(net')
          BY <1>1, <3>1, ShutPhase DEF NoneRenewed, Fresh, TypeOK
    <3> QED BY <1>4, <3>1, <3>2
  <2>4. CASE ~(m_user_count >= MaxUsers)
    <3>1. /\ net' = [net EXCEPT ![c] = Opened(@, f)]
          /\ sock' = [sock EXCEPT ![f] = c]
          /\ user_timer' = [user_timer EXCEPT ![f] = c]
          /\ timers' = Added(c, f)
          BY <2>1, <2>4 DEF Accepted
    <3>2. /\ DOMAIN timers' = DOMAIN timers \cup {c} /\ timers'[c].fd = f
          /\ \A i \in DOMAIN timers : i # c => timers'[i] = timers[i]
          BY <3>1 DEF Added
    <3>3. c \notin DOMAIN timers /\ \A g \in FDs : sock[g] # c /\ user_timer[g] # c
          BY <2>2 DEF TimerInv, FreshInv
    <3>4. \A g \in FDs : /\ sock'[g] = IF g = f THEN c ELSE sock[g]
                         /\ user_timer'[g] = IF g = f THEN c ELSE user_timer[g]
          BY <1>1, <2>2, <3>1 DEF TypeOK
    <3>5. TimerOwned'
          BY <2>2, <3>2, <3>3, <3>4 DEF TimerInv, TimerOwned
    <3>6. SlotInv'
          BY <2>2, <3>2, <3>3, <3>4 DEF TimerInv, SlotInv
    <3>7. NoFreedTimer'
      <4>1. \A e \in events' : e.fd # 0 => user_timer'[e.fd] \in DOMAIN timers'
        <5> SUFFICES ASSUME NEW e \in events, e.fd # 0
                     PROVE  user_timer'[e.fd] \in DOMAIN timers'
            BY <1>2
        <5>1. e.fd \in FDs /\ user_timer[e.fd] \in DOMAIN timers
              BY <1>1 DEF TimerInv, NoFreedTimer, TypeOK, Events
        <5> QED BY <3>2, <3>4, <5>1
      <4> QED BY <1>2, <4>1 DEF NoFreedTimer
    <3>8. FreshInv'
      <4>1. net'[c].phase = "open" /\ \A d \in Conns \ {c} : net'[d] = net[d]
            BY <1>1, <2>2, <3>1 DEF TypeOK, Opened, ConnStates
      <4> SUFFICES ASSUME NEW d \in Conns, net'[d].phase \in {"none", "backlog"}
                   PROVE  /\ d \notin DOMAIN timers'
                          /\ \A g \in FDs : sock'[g] # d /\ user_timer'[g] # d
          BY DEF FreshInv, Fresh
      <4>2. d # c /\ Fresh(d)
            BY <4>1 DEF Fresh
      <4> QED BY <3>2, <3>4, <4>2 DEF TimerInv, FreshInv
    <3> QED BY <1>1, <1>3, <3>5, <3>6, <3>7, <3>8 DEF TimerInv
  <2> QED BY <2>3, <2>4
<1> QED BY <1>5, <1>6

\* Handling event e of the batch, on an fd whose timer is running.
LEMMA HandlerTimerInv ==
    ASSUME TimerInv, TypeOK', NEW e \in events, e.fd \in FDs, main.pc = "next",
           events' = events \ {e},
           \/ deal_timer(net, e.fd) /\ Goto("next", 0)
           \/ deal_read(e.fd)
           \/ deal_write(e.fd)
    PROVE  TimerInv'
<1> DEFINE f == e.fd
<1>1. TypeOK /\ user_timer[f] \in DOMAIN timers
      BY WebServerAssumption DEF TimerInv, NoFreedTimer, FDs
<1>2. \A d \in events' : d.fd # f
      BY WebServerAssumption DEF TimerInv, EventInv, FDs
<1>3. \A d \in events' : d.fd # 0 => d.fd \in FDs /\ user_timer[d.fd] \in DOMAIN timers
      BY <1>1 DEF TimerInv, NoFreedTimer, TypeOK, Events
<1>4. ASSUME main'.pc \in {"spin", "glance"} => main'.fd = f,
             main'.pc \notin {"wait", "tick"}
      PROVE  EventInv'
      BY <1>2, <1>4 DEF TimerInv, EventInv
<1>5. ASSUME NEW n \in [Conns -> ConnStates], NoneRenewed(n),
             deal_timer(n, f), Goto("next", 0)
      PROVE  TimerInv'
  <2>1. /\ TimerOwned' /\ SlotInv' /\ FreshInv' /\ user_timer' = user_timer
        /\ \A g \in FDs \ {f} : user_timer[g] \in DOMAIN timers
                                    => user_timer[g] \in DOMAIN timers'
        BY <1>1, <1>5, DealTimerKeeps
  <2>2. main'.pc = "next"
        BY <1>5 DEF Goto
  <2>3. EventInv'
        BY <1>4, <2>2
  <2>4. NoFreedTimer'
        BY <1>2, <1>3, <2>1, <2>2 DEF NoFreedTimer
  <2> QED BY <2>1, <2>3, <2>4 DEF TimerInv
<1>6. ASSUME UNCHANGED <<sock, user_timer>>, timers' = Adjusted(f), NoneRenewed(net'),
             \/ main'.pc = "next"
             \/ main'.pc \in {"spin", "glance"} /\ main'.fd = f
      PROVE  TimerInv'
  <2>1. \A t \in [fd : FDs, rem : 0..Slots] : \A r : [t EXCEPT !.rem = r].fd = t.fd
        OBVIOUS
  <2>2. /\ DOMAIN timers' = DOMAIN timers
        /\ \A i \in DOMAIN timers : timers'[i].fd = timers[i].fd
        BY <1>1, <1>6, <2>1 DEF Adjusted, TypeOK
  <2>3. EventInv'
        BY <1>4, <1>6
  <2>4. NoFreedTimer'
        BY <1>1, <1>3, <1>6, <2>2 DEF NoFreedTimer
  <2>5. TimerOwned' /\ SlotInv'
        BY <1>6, <2>2 DEF TimerInv, TimerOwned, SlotInv
  <2>6. FreshInv'
        BY <1>6, <2>2 DEF TimerInv, FreshInv, Fresh, NoneRenewed
  <2> QED BY <2>3, <2>4, <2>5, <2>6 DEF TimerInv
<1>7. net \in [Conns -> ConnStates] /\ NoneRenewed(net)
      BY <1>1, RenewedNet DEF TypeOK
<1>8. CASE deal_timer(net, f) /\ Goto("next", 0)
      BY <1>5, <1>7, <1>8
<1>9. CASE ReadHere(f)
  <2>1. CASE ReadOK(f)
    <3>1. /\ net' = ReadNet(f) /\ timers' = Adjusted(f) /\ UNCHANGED <<sock, user_timer>>
          /\ main'.pc = "next"
          BY <1>9, <2>1 DEF ReadHere, Goto
    <3>2. NoneRenewed(net')
          BY <1>1, <3>1, RenewedNet
    <3> QED BY <1>6, <3>1, <3>2
  <2>2. CASE ~ReadOK(f)
        BY <1>5, <1>7, <1>9, <2>2 DEF ReadHere
  <2> QED BY <2>1, <2>2
<1>10. CASE WriteHere(f)
  <2>1. PICK r \in WriteResults(f) :
           IF WriteTrue(f, r)
           THEN /\ net' = WriteNet(f, r)
                /\ timers' = Adjusted(f)
                /\ UNCHANGED <<sock, user_timer, m_user_count>>
           ELSE deal_timer(WriteNet(f, r), f)
        BY <1>10 DEF WriteHere
  <2>2. Goto("next", 0) /\ main'.pc = "next"
        BY <1>10 DEF WriteHere, Goto
  <2>3. WriteNet(f, r) \in [Conns -> ConnStates] /\ NoneRenewed(WriteNet(f, r))
        BY <1>1, WriteNetType, RenewedNet
  <2>4. CASE WriteTrue(f, r)
        BY <1>6, <2>1, <2>2, <2>3, <2>4
  <2>5. CASE ~WriteTrue(f, r)
        BY <1>5, <2>1, <2>2, <2>3, <2>5
  <2> QED BY <2>4, <2>5
<1>11. CASE Delegate(f, 0, "spin") \/ Delegate(f, 1, "glance")
  <2>1. /\ UNCHANGED <<net, sock, user_timer>> /\ timers' = Adjusted(f)
        /\ main'.pc \in {"spin", "glance"} /\ main'.fd = f
        BY <1>11 DEF Delegate, Goto
  <2>2. NoneRenewed(net')
        BY <2>1 DEF NoneRenewed, Fresh
  <2> QED BY <1>6, <2>1, <2>2
<1> QED BY <1>8, <1>9, <1>10, <1>11 DEF deal_read, deal_write

LEMMA MainTimerInv ==
    ASSUME TimerInv, Main
    PROVE  TimerInv'
<1>1. TypeOK /\ TypeOK'
      BY MainTypeOK DEF TimerInv
<1>2. net \in [Conns -> ConnStates] /\ NoneRenewed(net)
      BY <1>1, RenewedNet DEF TypeOK
<1>3. CASE EpollWait
  <2>1. /\ UNCHANGED <<sock, user_timer, timers>> /\ events' = Ready /\ main'.pc = "next"
        BY <1>3 DEF EpollWait, Goto
  <2>2. \A c \in Conns : net'[c].phase = net[c].phase
    <3>1. \A k \in ConnStates : [k EXCEPT !.interest = "off"].phase = k.phase
          BY DEF ConnStates
    <3> QED BY <1>2, <1>3, <3>1 DEF EpollWait
  <2>3. \A e \in Ready : e.fd # 0 =>
            e.fd \in FDs /\ sock[e.fd] # None /\ e = [fd |-> e.fd, ev |-> Report(sock[e.fd])]
        BY DEF Ready
  <2>4. NoFreedTimer' /\ EventInv'
        BY <2>1, <2>3 DEF TimerInv, TimerOwned, NoFreedTimer, EventInv
  <2>5. TimerOwned' /\ SlotInv' /\ FreshInv'
        BY <2>1, <2>2 DEF TimerInv, TimerOwned, SlotInv, FreshInv, Fresh
  <2> QED BY <1>1, <2>4, <2>5 DEF TimerInv
<1>4. CASE deal_clentdata
      BY <1>4, AcceptTimerInv
<1>5. CASE Look
  <2>1. /\ main.pc \in {"spin", "glance"} /\ main.fd \in FDs
        /\ user_timer[main.fd] \in DOMAIN timers
        /\ main'.pc = "clear" /\ events' = events
        BY <1>1, <1>5 DEF Look, Goto, TimerInv, NoFreedTimer, TypeOK, MainStates
  <2>2. EventInv'
        BY <2>1 DEF TimerInv, EventInv
  <2>3. \A e \in events : e.fd # 0 =>
            e.fd \in FDs \ {main.fd} /\ user_timer[e.fd] \in DOMAIN timers
        BY <1>1, <2>1 DEF TimerInv, NoFreedTimer, EventInv, TypeOK, Events
  <2>4. CASE deal_timer(net, main.fd)
    <3>1. /\ TimerOwned' /\ SlotInv' /\ FreshInv' /\ user_timer' = user_timer
          /\ \A g \in FDs \ {main.fd} : user_timer[g] \in DOMAIN timers
                                            => user_timer[g] \in DOMAIN timers'
          BY <1>2, <2>1, <2>4, DealTimerKeeps
    <3>2. NoFreedTimer'
          BY <2>1, <2>3, <3>1 DEF NoFreedTimer
    <3> QED BY <1>1, <2>2, <3>1, <3>2 DEF TimerInv
  <2>5. CASE UNCHANGED <<net, sock, timers, user_timer>>
        BY <1>1, <2>1, <2>2, <2>5
           DEF TimerInv, TimerOwned, NoFreedTimer, SlotInv, FreshInv, Fresh
  <2> QED BY <1>5, <2>4, <2>5 DEF Look
<1>6. ASSUME UNCHANGED <<net, sock, timers, user_timer>>, events' \subseteq events,
             main'.pc \notin {"spin", "glance"},
             main'.pc \in {"wait", "tick"} => events' = {}
      PROVE  TimerInv'
  <2>1. NoFreedTimer' /\ EventInv'
        BY <1>6 DEF TimerInv, NoFreedTimer, EventInv
  <2>2. TimerOwned' /\ SlotInv' /\ FreshInv'
        BY <1>6 DEF TimerInv, TimerOwned, SlotInv, FreshInv, Fresh
  <2> QED BY <1>1, <2>1, <2>2 DEF TimerInv
<1>7. CASE ClearImprov
      BY <1>6, <1>7 DEF ClearImprov, Goto
<1>8. CASE BatchDone
      BY <1>6, <1>8 DEF BatchDone, Goto
<1>9. CASE TickDone
  <2>1. events = {}
        BY <1>9 DEF TickDone, TimerInv, EventInv
  <2> QED BY <1>6, <1>9, <2>1 DEF TickDone, Goto
<1>10. CASE Dispatch
  <2>1. PICK e \in events :
         /\ events' = events \ {e}
         /\ \/ /\ e.ev \in {"listen", "signal"}
               /\ Goto("accept", 0) \/ Goto("next", 0)
               /\ UNCHANGED <<net, sock, timers, user_timer>>
            \/ /\ e.ev \in {"hup", "in", "out"}
               /\ \/ deal_timer(net, e.fd) /\ Goto("next", 0)
                  \/ deal_read(e.fd)
                  \/ deal_write(e.fd)
        BY <1>10 DEF Dispatch
  <2>2. main.pc = "next"
        BY <1>10 DEF Dispatch
  <2>3. CASE e.ev \in {"listen", "signal"}
    <3>1. UNCHANGED <<net, sock, timers, user_timer>> /\ main'.pc \in {"accept", "next"}
          BY <2>1, <2>3 DEF Goto
    <3> QED BY <1>6, <2>1, <3>1
  <2>4. CASE e.ev \in {"hup", "in", "out"}
    <3>1. e.fd \in FDs
          BY <1>1, <2>4 DEF TypeOK, Events
    <3> QED BY <1>1, <2>1, <2>2, <2>4, <3>1, HandlerTimerInv
  <2> QED BY <2>1, <2>3, <2>4
<1>11. ASSUME NEW i \in Conns, TickOne(i)
      PROVE  TimerInv'
  <2>1. /\ i \in DOMAIN timers /\ timers[i].fd \in FDs /\ main.pc = "tick"
        /\ UNCHANGED <<user_timer, main, events>>
        BY <1>1, <1>11 DEF TickOne, Due, TypeOK
  <2>2. /\ net' = CloseFd(net, timers[i].fd) /\ timers' = Removed(i)
        /\ sock' = [sock EXCEPT ![timers[i].fd] = None]
        BY <1>11 DEF TickOne, Callback
  <2>3. /\ DOMAIN timers' = DOMAIN timers \ {i}
        /\ \A j \in DOMAIN timers' : timers'[j] = timers[j]
        BY <2>2 DEF Removed
  <2>4. \A g \in FDs : sock'[g] = IF g = timers[i].fd THEN None ELSE sock[g]
        BY <1>1, <2>2 DEF TypeOK
  <2>5. NoneRenewed(net')
        BY <1>1, <1>2, <2>2, RenewedNet
  <2>6. events = {}
        BY <2>1 DEF TimerInv, EventInv
  <2>7. NoFreedTimer' /\ EventInv'
        BY <2>1, <2>6 DEF NoFreedTimer, EventInv
  <2>8. TimerOwned' /\ SlotInv'
        BY <2>1, <2>3, <2>4 DEF TimerInv, TimerOwned, SlotInv
  <2>9. FreshInv'
    <3> SUFFICES ASSUME NEW c \in Conns, net'[c].phase \in {"none", "backlog"}
                 PROVE  c \notin DOMAIN timers' /\ \A g \in FDs : sock'[g] # c /\ user_timer'[g] # c
        BY DEF FreshInv, Fresh
    <3> QED BY <2>1, <2>3, <2>4, <2>5, WebServerAssumption
            DEF TimerInv, FreshInv, Fresh, NoneRenewed
  <2> QED BY <1>1, <2>7, <2>8, <2>9 DEF TimerInv
<1> QED BY <1>3, <1>4, <1>5, <1>7, <1>8, <1>9, <1>10, <1>11 DEF Main

LEMMA NextTimerInv == TimerInv /\ [Next]_vars => TimerInv'
<1> SUFFICES ASSUME TimerInv, [Next]_vars PROVE TimerInv'
    OBVIOUS
<1>1. CASE Next
      BY <1>1, EnvironmentTimerInv, MainTimerInv, WorkerTimerInv DEF Next
<1>2. CASE UNCHANGED vars
      BY <1>2 DEF vars, TimerInv, TypeOK, TimerOwned, NoFreedTimer, SlotInv, FreshInv,
                  Fresh, EventInv
<1> QED BY <1>1, <1>2

LEMMA TimersInvariant == Spec => []TimerInv
<1> QED BY InitTimerInv, NextTimerInv, PTL DEF Spec

\* Every open connection has its own timer on the list and in its fd's slot,
\* whoever had the fd before and however that connection ended: by a worker's
\* close_conn(), by the main thread or by a tick.
THEOREM EveryoneTimed == Spec => []TimerOwned
<1>1. TimerInv => TimerOwned
      BY DEF TimerInv
<1> QED BY <1>1, TimersInvariant, PTL

\* deal_read(), deal_write() and the hang-up branch of eventloop() never adjust
\* or delete a timer that a tick or another deal_timer() has freed.
THEOREM NoUseAfterFree == Spec => []NoFreedTimer
<1>1. TimerInv => NoFreedTimer
      BY DEF TimerInv
<1> QED BY <1>1, TimersInvariant, PTL

-----------------------------------------------------------------------------
(* Edge-triggered, no waiting connection is forgotten.                      *)

EdgeInv == TimerInv /\ m_user_count <= 0 /\ EdgeDrained

LEMMA InitEdgeInv == Init => EdgeInv
<1> SUFFICES ASSUME Init PROVE EdgeInv
    OBVIOUS
<1>1. Backlog = {}
      BY DEF Init, Backlog, NewConn
<1> QED BY <1>1, InitTimerInv DEF Init, EdgeInv, EdgeDrained

\* The connections behind the fds are different, and none of them is waiting.
LEMMA FdForEveryone ==
    ASSUME TimerInv, Cardinality(Conns) <= MaxFD, Backlog # {}
    PROVE  FreeFDs # {}
<1> SUFFICES ASSUME FreeFDs = {} PROVE FALSE
    OBVIOUS
<1>1. PICK c \in Conns : Fresh(c)
      BY DEF Backlog, Fresh
<1>2. sock \in [FDs -> Conns \ {c}]
      BY <1>1 DEF FreeFDs, TimerInv, TypeOK, FreshInv
<1>3. MaxFD \in Nat /\ IsFiniteSet(Conns)
      BY WebServerAssumption
<1>4. IsFiniteSet(FDs) /\ Cardinality(FDs) = MaxFD
  <2>1. 1 \in Int /\ MaxFD \in Int /\ MaxFD >= 1
        BY WebServerAssumption
  <2>2. IsFiniteSet(1..MaxFD) /\ Cardinality(1..MaxFD) = IF 1 > MaxFD THEN 0 ELSE MaxFD - 1 + 1
        BY <2>1, FS_Interval
  <2> QED BY <2>1, <2>2 DEF FDs
<1>5. IsFiniteSet(Conns \ {c}) /\ Cardinality(Conns \ {c}) = Cardinality(Conns) - 1
      BY <1>1, <1>3, FS_RemoveElement
<1>6. Cardinality(Conns) \in Nat
      BY <1>3, FS_CardinalityType
<1>7. Cardinality(Conns \ {c}) < Cardinality(FDs)
      BY <1>3, <1>4, <1>5, <1>6
<1>8. PICK f, g \in FDs : f # g /\ sock[f] = sock[g]
      BY <1>2, <1>4, <1>5, <1>7, FS_PigeonHole
<1>9. sock[f] # None
      BY DEF FreeFDs
<1> QED BY <1>8, <1>9 DEF TimerInv, TimerOwned

\* A step that brings no connection, keeps the news of those that wait, and does
\* not leave the accepting loop.
LEMMA KeepEdge ==
    ASSUME EdgeInv, TimerInv', m_user_count' <= 0, NoneRenewed(net'),
           UNCHANGED <<mode, edge>>, main.pc = "accept" => main'.pc = "accept",
           \A e \in events : e.ev = "listen" => e \in events' \/ main'.pc = "accept"
    PROVE  EdgeInv'
<1>1. Backlog' \subseteq Backlog
      BY DEF Backlog, NoneRenewed
<1> QED BY <1>1 DEF EdgeInv, EdgeDrained

LEMMA EnvironmentEdgeInv ==
    ASSUME EdgeInv, Pass \/ \E c \in Conns : Connect(c) \/ Send(c) \/ Hangup(c) \/ Drain(c)
    PROVE  EdgeInv'
<1>1. TimerInv' /\ TypeOK
      BY EnvironmentTimerInv DEF EdgeInv, TimerInv
<1>2. UNCHANGED <<mode, m_user_count, main, events>>
      BY DEF Pass, Connect, Send, Hangup, Drain, Client
<1>3. CASE Pass
  <2>1. NoneRenewed(net') /\ UNCHANGED edge
        BY <1>3 DEF Pass, NoneRenewed
  <2> QED BY <1>1, <1>2, <2>1, KeepEdge DEF EdgeInv
<1>4. ASSUME NEW c \in Conns, Connect(c)
      PROVE  EdgeInv'
  <2>1. edge' = (mode.listen = 1)
        BY <1>4 DEF Connect
  <2> QED BY <1>1, <1>2, <2>1 DEF EdgeInv, EdgeDrained
<1>5. ASSUME NEW c \in Conns, Send(c) \/ Hangup(c) \/ Drain(c)
      PROVE  EdgeInv'
  <2>1. PICK k : Client(c, k) /\ k.phase = net[c].phase
    <3>1. net[c] \in ConnStates
          BY <1>1 DEF TypeOK
    <3>2. /\ \A q, i : [net[c] EXCEPT !.inbox = q, !.sent = i].phase = net[c].phase
          /\ [net[c] EXCEPT !.gone = TRUE].phase = net[c].phase
          /\ [net[c] EXCEPT !.full = "was"].phase = net[c].phase
          BY <3>1 DEF ConnStates
    <3>3. CASE Send(c)
          BY <3>2, <3>3 DEF Send
    <3>4. CASE Hangup(c) \/ Drain(c)
          BY <3>2, <3>4 DEF Hangup, Drain
    <3> QED BY <1>5, <3>3, <3>4
  <2>2. NoneRenewed(net') /\ UNCHANGED edge
        BY <1>1, <2>1 DEF Client, NoneRenewed, TypeOK
  <2> QED BY <1>1, <1>2, <2>2, KeepEdge DEF EdgeInv
<1> QED BY <1>3, <1>4, <1>5

LEMMA WorkerEdgeInv ==
    ASSUME EdgeInv, NEW w \in Workers, Worker(w)
    PROVE  EdgeInv'
<1>1. TimerInv' /\ TypeOK /\ NoneRenewed(net')
      BY WorkerTimerInv, WorkerNet DEF EdgeInv, TimerInv
<1>2. UNCHANGED <<mode, edge, main, events>>
      BY DEF Worker, Take, WorkerRead, WorkerWrite, WorkerInit, SetImprov, SetTimerFlag,
             Process, ProcessWrite, CloseConn, ForgetSocket, Rearm
<1>3. m_user_count' \in {m_user_count, m_user_count - 1}
      BY DEF Worker, Take, WorkerRead, WorkerWrite, WorkerInit, SetImprov, SetTimerFlag,
             Process, ProcessWrite, CloseConn, ForgetSocket, Rearm
<1>4. m_user_count' <= 0
  <2>1. m_user_count \in Int /\ m_user_count <= 0
        BY DEF EdgeInv, TimerInv, TypeOK
  <2> QED BY <1>3, <2>1
<1> QED BY <1>1, <1>2, <1>4, KeepEdge

\* A handler leaves nobody fresh, and counts nobody in.
LEMMA HandlerNet ==
    ASSUME TypeOK, NEW f \in FDs,
           deal_timer(net, f) \/ deal_read(f) \/ deal_write(f)
    PROVE  NoneRenewed(net') /\ m_user_count' \in {m_user_count, m_user_count - 1}
<1>1. net \in [Conns -> ConnStates] /\ NoneRenewed(net)
      BY RenewedNet DEF TypeOK
<1>2. ASSUME NEW n \in [Conns -> ConnStates], NoneRenewed(n), deal_timer(n, f)
      PROVE  NoneRenewed(net') /\ m_user_count' = m_user_count - 1
      BY <1>2, RenewedNet DEF deal_timer, Callback
<1>3. CASE ReadHere(f)
  <2>1. CASE ReadOK(f)
        BY <1>3, <2>1, RenewedNet DEF ReadHere
  <2>2. CASE ~ReadOK(f)
        BY <1>1, <1>2, <1>3, <2>2 DEF ReadHere
  <2> QED BY <2>1, <2>2
<1>4. CASE WriteHere(f)
  <2>1. PICK r \in WriteResults(f) :
           IF WriteTrue(f, r)
           THEN /\ net' = WriteNet(f, r)
                /\ UNCHANGED m_user_count
           ELSE deal_timer(WriteNet(f, r), f)
        BY <1>4 DEF WriteHere
  <2>2. WriteNet(f, r) \in [Conns -> ConnStates] /\ NoneRenewed(WriteNet(f, r))
        BY WriteNetType, RenewedNet
  <2> QED BY <1>2, <2>1, <2>2
<1>5. CASE Delegate(f, 0, "spin") \/ Delegate(f, 1, "glance")
  <2>1. UNCHANGED <<net, m_user_count>>
        BY <1>5 DEF Delegate
  <2> QED BY <2>1 DEF NoneRenewed
<1>6. CASE deal_timer(net, f)
      BY <1>1, <1>2, <1>6
<1> QED BY <1>3, <1>4, <1>5, <1>6 DEF deal_read, deal_write

LEMMA MainEdgeInv ==
    ASSUME EdgeInv, Main
    PROVE  EdgeInv'
<1>1. TimerInv' /\ TimerInv /\ TypeOK
      BY MainTimerInv DEF EdgeInv, TimerInv
<1>2. m_user_count \in Int /\ m_user_count <= 0 /\ net \in [Conns -> ConnStates]
      BY <1>1 DEF EdgeInv, TypeOK
<1>3. CASE EpollWait
  <2>1. /\ UNCHANGED <<mode, m_user_count>> /\ events' = Ready /\ main.pc = "wait"
        BY <1>3 DEF EpollWait
  <2>2. \A c \in Conns : net'[c].phase = net[c].phase
    <3>1. \A k \in ConnStates : [k EXCEPT !.interest = "off"].phase = k.phase
          BY DEF ConnStates
    <3> QED BY <1>2, <1>3, <3>1 DEF EpollWait
  <2>3. events = {}
        BY <1>1, <2>1 DEF TimerInv, EventInv
  <2>4. edge /\ mode.listen = 1 => [fd |-> 0, ev |-> "listen"] \in Ready
        BY DEF Ready
  <2>5. Backlog' = Backlog
        BY <2>2 DEF Backlog
  <2>6. EdgeDrained'
        BY <2>1, <2>3, <2>4, <2>5 DEF EdgeInv, EdgeDrained
  <2> QED BY <1>1, <1>2, <2>1, <2>6 DEF EdgeInv
<1>4. CASE deal_clentdata
  <2>1. /\ UNCHANGED <<mode, edge, m_user_count>> /\ events' = events
        BY <1>4 DEF deal_clentdata
  <2>2. CASE Backlog = {} \/ FreeFDs = {}
    <3>1. net' = net
          BY <1>4, <2>2 DEF deal_clentdata
    <3>2. Cardinality(Conns) <= MaxFD => Backlog = {}
          BY <1>1, <2>2, FdForEveryone
    <3>3. EdgeDrained'
          BY <3>1, <3>2 DEF EdgeDrained, Backlog
    <3> QED BY <1>1, <1>2, <2>1, <3>3 DEF EdgeInv
  <2>3. CASE ~(Backlog = {} \/ FreeFDs = {})
    <3>1. PICK c \in Backlog, f \in FreeFDs : Accepted(c, f)
          BY <1>4, <2>3 DEF deal_clentdata
    <3>2. ~(m_user_count >= MaxUsers)
          BY <1>2, WebServerAssumption
    <3>3. mode.listen = 1 => main'.pc = "accept"
          BY <3>1, <3>2 DEF Accepted, Goto
    <3>4. EdgeDrained'
          BY <2>1, <3>3 DEF EdgeDrained
    <3> QED BY <1>1, <1>2, <2>1, <3>4 DEF EdgeInv
  <2> QED BY <2>2, <2>3
<1>5. ASSUME NoneRenewed(net'), m_user_count' \in {m_user_count, m_user_count - 1},
             UNCHANGED <<mode, edge>>, main.pc # "accept",
             \A e \in events : e.ev = "listen" => e \in events' \/ main'.pc = "accept"
      PROVE  EdgeInv'
  <2>1. m_user_count' <= 0
        BY <1>2, <1>5
  <2> QED BY <1>1, <1>5, <2>1, KeepEdge
<1>6. CASE Look
  <2>1. /\ UNCHANGED <<mode, edge, events>> /\ main.pc # "accept"
        /\ main.fd \in FDs
        BY <1>1, <1>6 DEF Look, TypeOK, MainStates
  <2>2. CASE deal_timer(net, main.fd)
        BY <1>1, <1>5, <2>1, <2>2, HandlerNet
  <2>3. CASE UNCHANGED <<net, m_user_count>>
        BY <1>5, <2>1, <2>3 DEF NoneRenewed
  <2> QED BY <1>6, <2>2, <2>3 DEF Look
<1>7. CASE ClearImprov \/ BatchDone \/ TickDone
  <2>1. UNCHANGED <<net, m_user_count, mode, edge, events>> /\ main.pc # "accept"
        BY <1>7 DEF ClearImprov, BatchDone, TickDone
  <2> QED BY <1>5, <2>1 DEF NoneRenewed
<1>8. CASE Dispatch
  <2>1. PICK e \in events :
         /\ events' = events \ {e}
         /\ \/ e.ev = "listen" /\ Goto("accept", 0) /\ UNCHANGED <<net, m_user_count>>
            \/ e.ev = "signal" /\ UNCHANGED <<net, m_user_count>>
            \/ /\ e.ev \in {"hup", "in", "out"}
               /\ deal_timer(net, e.fd) \/ deal_read(e.fd) \/ deal_write(e.fd)
        BY <1>8 DEF Dispatch
  <2>2. UNCHANGED <<mode, edge>> /\ main.pc # "accept"
        BY <1>8 DEF Dispatch
  <2>3. e.ev = "listen" => main'.pc = "accept"
        BY <2>1 DEF Goto
  <2>4. CASE UNCHANGED <<net, m_user_count>>
        BY <1>5, <2>1, <2>2, <2>3, <2>4 DEF NoneRenewed
  <2>5. CASE e.ev \in {"hup", "in", "out"}
    <3>1. e.fd \in FDs
          BY <1>1, <2>5 DEF TypeOK, Events
    <3>2. NoneRenewed(net') /\ m_user_count' \in {m_user_count, m_user_count - 1}
          BY <1>1, <2>1, <2>5, <3>1, HandlerNet
    <3> QED BY <1>5, <2>1, <2>2, <2>3, <3>2
  <2> QED BY <2>1, <2>4, <2>5
<1>9. ASSUME NEW i \in Conns, TickOne(i)
      PROVE  EdgeInv'
  <2>1. /\ UNCHANGED <<mode, edge, events>> /\ main.pc # "accept"
        /\ net' = CloseFd(net, timers[i].fd) /\ m_user_count' = m_user_count - 1
        BY <1>9 DEF TickOne, Callback
  <2>2. NoneRenewed(net')
        BY <1>1, <1>2, <2>1, RenewedNet
  <2> QED BY <1>5, <2>1, <2>2
<1> QED BY <1>3, <1>4, <1>6, <1>7, <1>8, <1>9 DEF Main

LEMMA NextEdgeInv == EdgeInv /\ [Next]_vars => EdgeInv'
<1> SUFFICES ASSUME EdgeInv, [Next]_vars PROVE EdgeInv'
    OBVIOUS
<1>1. CASE Next
      BY <1>1, EnvironmentEdgeInv, MainEdgeInv, WorkerEdgeInv DEF Next
<1>2. CASE UNCHANGED vars
  <2>1. TimerInv'
        BY <1>2, NextTimerInv DEF EdgeInv
  <2> QED BY <1>2, <2>1 DEF vars, EdgeInv, EdgeDrained, Backlog
<1> QED BY <1>1, <1>2

\* With an edge-triggered listening socket and an fd for every client, the loop
\* of deal_clentdata() forgets nobody: whoever waits has an event to come, or
\* the main thread is still accepting.
THEOREM NobodyForgotten == Spec => []EdgeDrained
<1>1. EdgeInv => EdgeDrained
      BY DEF EdgeInv
<1> QED BY <1>1, InitEdgeInv, NextEdgeInv, PTL DEF Spec

-----------------------------------------------------------------------------
(* If every file is found, no worker closes an fd, and every running timer  *)
(* is that of the connection behind its fd.                                 *)

RunningInv == \A i \in DOMAIN timers : sock[timers[i].fd] = i

NoWorkerCloses == \A w \in Workers : worker[w].pc \notin {"close", "forget"}

OwnInv == TimerInv /\ RunningInv /\ NoWorkerCloses

LEMMA InitOwnInv == Init => OwnInv
<1> SUFFICES ASSUME Init PROVE OwnInv
    OBVIOUS
<1>1. RunningInv /\ NoWorkerCloses
      BY DEF Init, RunningInv, NoWorkerCloses, NoTask
<1> QED BY <1>1, InitTimerInv DEF OwnInv

LEMMA KeepRunning ==
    ASSUME RunningInv, UNCHANGED sock, DOMAIN timers' = DOMAIN timers,
           \A i \in DOMAIN timers : timers'[i].fd = timers[i].fd
    PROVE  RunningInv'
BY DEF RunningInv

LEMMA AdjustedFds ==
    ASSUME TypeOK, NEW f
    PROVE  /\ DOMAIN Adjusted(f) = DOMAIN timers
           /\ \A i \in DOMAIN timers : Adjusted(f)[i].fd = timers[i].fd
<1>1. \A t \in [fd : FDs, rem : 0..Slots] : \A r : [t EXCEPT !.rem = r].fd = t.fd
      OBVIOUS
<1> QED BY <1>1 DEF Adjusted, TypeOK

LEMMA EnvironmentOwnInv ==
    ASSUME OwnInv, Pass \/ \E c \in Conns : Connect(c) \/ Send(c) \/ Hangup(c) \/ Drain(c)
    PROVE  OwnInv'
<1>1. TimerInv' /\ TypeOK
      BY EnvironmentTimerInv DEF OwnInv, TimerInv
<1>2. UNCHANGED <<worker, sock>>
      BY DEF Pass, Connect, Send, Hangup, Drain, Client
<1>3. DOMAIN timers' = DOMAIN timers /\ \A i \in DOMAIN timers : timers'[i].fd = timers[i].fd
  <2>1. CASE Pass
    <3>1. \A t \in [fd : FDs, rem : 0..Slots] : \A r : [t EXCEPT !.rem = r].fd = t.fd
          OBVIOUS
    <3> QED BY <1>1, <2>1, <3>1 DEF Pass, TypeOK
  <2>2. CASE ~Pass
        BY <2>2 DEF Connect, Send, Hangup, Drain, Client
  <2> QED BY <2>1, <2>2
<1> QED BY <1>1, <1>2, <1>3, KeepRunning DEF OwnInv, NoWorkerCloses

LEMMA WorkerOwnInv ==
    ASSUME "missing" \notin Kinds, OwnInv, NEW w \in Workers, Worker(w)
    PROVE  OwnInv'
<1>1. TimerInv' /\ TypeOK
      BY WorkerTimerInv DEF OwnInv, TimerInv
<1>2. ~CloseConn(w) /\ ~ForgetSocket(w)
      BY DEF OwnInv, NoWorkerCloses, CloseConn, ForgetSocket
<1>3. UNCHANGED <<sock, timers>>
      BY <1>2 DEF Worker, Take, WorkerRead, WorkerWrite, WorkerInit, SetImprov,
                  SetTimerFlag, Process, ProcessWrite, Rearm
<1>4. RunningInv'
      BY <1>3, KeepRunning DEF OwnInv
<1> SUFFICES NoWorkerCloses'
    BY <1>1, <1>4 DEF OwnInv
<1>5. ASSUME NEW pc, pc \notin {"close", "forget"}, Step(w, pc)
      PROVE  NoWorkerCloses'
  <2>1. \A v \in Workers : worker'[v].pc = IF v = w THEN pc ELSE worker[v].pc
    <3>1. worker[w] = NoTask \/ worker[w] \in Jobs
          BY <1>1 DEF TypeOK
    <3>2. [worker[w] EXCEPT !.pc = pc].pc = pc
          BY <3>1 DEF NoTask, Jobs
    <3> QED BY <1>1, <1>5, <3>2 DEF Step, TypeOK
  <2> QED BY <1>5, <2>1 DEF OwnInv, NoWorkerCloses
<1>6. ASSUME NEW j, j.pc \notin {"close", "forget"}, worker' = [worker EXCEPT ![w] = j]
      PROVE  NoWorkerCloses'
      BY <1>1, <1>6 DEF OwnInv, NoWorkerCloses, TypeOK
<1>7. CASE Finish(w)
      BY <1>6, <1>7 DEF Finish, NoTask
<1>8. CASE Take(w)
      BY <1>6, <1>8 DEF Take
<1>9. CASE WorkerRead(w) \/ WorkerInit(w) \/ ProcessWrite(w)
      BY <1>5, <1>9 DEF WorkerRead, WorkerInit, ProcessWrite
<1>10. CASE WorkerWrite(w)
      BY <1>5, <1>10 DEF WorkerWrite
<1>11. CASE SetImprov(w)
  <2>1. Step(w, "process") \/ Step(w, "flag") \/ Finish(w)
        BY <1>11 DEF SetImprov
  <2> QED BY <1>5, <1>7, <2>1
<1>12. CASE SetTimerFlag(w) \/ Rearm(w)
      BY <1>7, <1>12 DEF SetTimerFlag, Rearm
<1>13. CASE Process(w)
  <2>1. worker[w].fd \in FDs
    <3>1. worker[w].pc # "idle" /\ (worker[w] = NoTask \/ worker[w] \in Jobs)
          BY <1>1, <1>13 DEF Process, TypeOK
    <3>2. worker[w] \in Jobs => worker[w].fd \in FDs
          BY DEF Jobs
    <3> QED BY <3>1, <3>2 DEF NoTask
  <2>2. Object(w).rbuf \in Seq(Pieces)
        BY <1>1, <2>1 DEF TypeOK, Object, Objects
  <2>3. ASSUME NEW i \in Complete(Object(w).rbuf)
        PROVE  Object(w).rbuf[i].kind # "missing"
    <3>1. i \in DOMAIN Object(w).rbuf
          BY <2>3 DEF Complete
    <3>2. Object(w).rbuf[i] \in Pieces
          BY <2>2, <3>1
    <3> QED BY <3>2 DEF Pieces
  <2>4. Step(w, "rearm_in") \/ Step(w, "answer")
        BY <1>13, <2>3 DEF Process, Parsed
  <2> QED BY <1>5, <2>4
<1> QED BY <1>2, <1>8, <1>9, <1>10, <1>11, <1>12, <1>13 DEF Worker

\* Whoever is behind fd f, its timer is the one in f's slot.
LEMMA DealTimerOwn ==
    ASSUME OwnInv, NEW f \in FDs, NEW n, deal_timer(n, f)
    PROVE  RunningInv'
<1>1. /\ timers' = Removed(user_timer[f]) /\ sock' = [sock EXCEPT ![f] = None]
      BY DEF deal_timer, Callback
<1>2. /\ DOMAIN timers' = DOMAIN timers \ {user_timer[f]}
      /\ \A i \in DOMAIN timers' : timers'[i] = timers[i]
      BY <1>1 DEF Removed
<1>3. \A i \in DOMAIN timers : i \in Conns /\ timers[i].fd \in FDs /\ sock[timers[i].fd] = i
      BY DEF OwnInv, RunningInv, TimerInv, TypeOK
<1>4. \A i \in DOMAIN timers' : timers[i].fd # f
  <2> SUFFICES ASSUME NEW i \in DOMAIN timers', timers[i].fd = f PROVE FALSE
      OBVIOUS
  <2>1. sock[f] = i /\ i # None /\ i # user_timer[f]
        BY <1>2, <1>3, WebServerAssumption
  <2> QED BY <2>1 DEF OwnInv, TimerInv, TimerOwned
<1>5. \A g \in FDs : g # f => sock'[g] = sock[g]
      BY <1>1 DEF OwnInv, TimerInv, TypeOK
<1> QED BY <1>2, <1>3, <1>4, <1>5 DEF RunningInv

LEMMA MainOwnInv ==
    ASSUME OwnInv, Main
    PROVE  OwnInv'
<1>1. TimerInv' /\ TimerInv /\ TypeOK
      BY MainTimerInv DEF OwnInv, TimerInv
<1>2. UNCHANGED worker
      BY DEF Main, EpollWait, deal_clentdata, Look, ClearImprov, Dispatch, BatchDone,
             TickDone, TickOne
<1>3. NoWorkerCloses'
      BY <1>2 DEF OwnInv, NoWorkerCloses
<1> SUFFICES RunningInv'
    BY <1>1, <1>3 DEF OwnInv
<1>4. CASE UNCHANGED <<sock, timers>>
      BY <1>4, KeepRunning DEF OwnInv
<1>5. CASE EpollWait \/ ClearImprov \/ BatchDone \/ TickDone
      BY <1>4, <1>5 DEF EpollWait, ClearImprov, BatchDone, TickDone
<1>6. ASSUME NEW f \in FDs, deal_timer(net, f) \/ deal_read(f) \/ deal_write(f)
      PROVE  RunningInv'
  <2>1. CASE \E n : deal_timer(n, f)
        BY <2>1, DealTimerOwn
  <2>2. CASE UNCHANGED sock /\ timers' = Adjusted(f)
        BY <1>1, <2>2, AdjustedFds, KeepRunning DEF OwnInv
  <2> QED BY <1>6, <2>1, <2>2 DEF deal_read, deal_write, ReadHere, WriteHere, Delegate
<1>7. CASE Look
  <2>1. main.fd \in FDs
        BY <1>1, <1>7 DEF Look, TypeOK, MainStates
  <2> QED BY <1>4, <1>6, <1>7, <2>1 DEF Look
<1>8. CASE Dispatch
  <2>1. PICK e \in events :
          \/ UNCHANGED <<sock, timers>>
          \/ /\ e.ev \in {"hup", "in", "out"}
             /\ deal_timer(net, e.fd) \/ deal_read(e.fd) \/ deal_write(e.fd)
        BY <1>8 DEF Dispatch
  <2>2. e.ev \in {"hup", "in", "out"} => e.fd \in FDs
        BY <1>1 DEF TypeOK, Events
  <2> QED BY <1>4, <1>6, <2>1, <2>2
<1>9. CASE deal_clentdata
  <2>1. CASE ~UNCHANGED <<sock, timers>>
    <3>1. PICK c \in Backlog, f \in FreeFDs : Accepted(c, f)
          BY <1>9, <2>1 DEF deal_clentdata
    <3>2. c \in Conns /\ f \in FDs /\ sock[f] = None
          BY DEF Backlog, FreeFDs
    <3>3. sock' = [sock EXCEPT ![f] = c] /\ timers' = Added(c, f)
          BY <2>1, <3>1 DEF Accepted
    <3>4. /\ DOMAIN timers' = DOMAIN timers \cup {c} /\ timers'[c].fd = f
          /\ \A i \in DOMAIN timers : i # c => timers'[i] = timers[i]
          BY <3>3 DEF Added
    <3>5. \A i \in DOMAIN timers : timers[i].fd \in FDs \ {f}
          BY <1>1, <3>2, WebServerAssumption DEF OwnInv, RunningInv, TypeOK
    <3>6. \A g \in FDs : sock'[g] = IF g = f THEN c ELSE sock[g]
          BY <1>1, <3>2, <3>3 DEF TypeOK
    <3> QED BY <3>2, <3>4, <3>5, <3>6 DEF OwnInv, RunningInv
  <2> QED BY <1>4, <2>1
<1>10. ASSUME NEW i \in Conns, TickOne(i)
       PROVE  RunningInv'
  <2>1. /\ i \in DOMAIN timers /\ timers' = Removed(i)
        /\ sock' = [sock EXCEPT ![timers[i].fd] = None]
        BY <1>10 DEF TickOne, Due, Callback
  <2>2. /\ DOMAIN timers' = DOMAIN timers \ {i}
        /\ \A j \in DOMAIN timers' : timers'[j] = timers[j]
        BY <2>1 DEF Removed
  <2>3. \A j \in DOMAIN timers : sock[timers[j].fd] = j /\ timers[j].fd \in FDs
        BY <1>1 DEF OwnInv, RunningInv, TypeOK
  <2>4. \A g \in FDs : g # timers[i].fd => sock'[g] = sock[g]
        BY <1>1, <2>1 DEF TypeOK
  <2> QED BY <2>1, <2>2, <2>3, <2>4 DEF RunningInv
<1> QED BY <1>5, <1>7, <1>8, <1>9, <1>10 DEF Main

LEMMA NextOwnInv ==
    ASSUME "missing" \notin Kinds
    PROVE  OwnInv /\ [Next]_vars => OwnInv'
<1> SUFFICES ASSUME OwnInv, [Next]_vars PROVE OwnInv'
    OBVIOUS
<1>1. CASE Next
      BY <1>1, EnvironmentOwnInv, MainOwnInv, WorkerOwnInv DEF Next
<1>2. CASE UNCHANGED vars
  <2>1. TimerInv'
        BY <1>2, NextTimerInv DEF OwnInv
  <2> QED BY <1>2, <2>1 DEF vars, OwnInv, RunningInv, NoWorkerCloses
<1> QED BY <1>1, <1>2

\* If every file is found, a tick closes a connection only for that connection's
\* own timer, however long the tasks take.  (With a missing file it does not: the
\* run of StaleTimer.cfg.)
THEOREM OwnTimerOnly ==
    ASSUME "missing" \notin Kinds
    PROVE  Spec => TickClosesOwn
<1>1. ASSUME OwnInv
      PROVE  \A i \in Conns : TickOne(i) =>
                 \A c \in Conns : net[c].phase = "open" /\ net'[c].phase = "closed" => c = i
  <2> SUFFICES ASSUME NEW i \in Conns, TickOne(i),
                      NEW c \in Conns, net[c].phase = "open", net'[c].phase = "closed"
               PROVE  c = i
      OBVIOUS
  <2>1. i \in DOMAIN timers /\ net' = CloseFd(net, timers[i].fd)
        BY DEF TickOne, Due, Callback
  <2>2. timers[i].fd \in FDs /\ sock[timers[i].fd] = i
        BY <1>1, <2>1 DEF OwnInv, RunningInv, TimerInv, TypeOK
  <2>3. Peer(timers[i].fd) = i
        BY <2>2 DEF Peer
  <2> QED BY <2>1, <2>3 DEF CloseFd
<1>2. OwnInv => [\A i \in Conns : TickOne(i) =>
                     \A c \in Conns : net[c].phase = "open" /\ net'[c].phase = "closed"
                                          => c = i]_vars
      BY <1>1
<1> QED BY <1>2, InitOwnInv, NextOwnInv, PTL DEF Spec, TickClosesOwn

-----------------------------------------------------------------------------
(* In Proactor the http_conn object of a connection that is no heir is in   *)
(* one hand, however its predecessors on the fd ended.                      *)

ProactorPcs ==
    /\ main.pc \notin {"spin", "glance", "clear"}
    /\ \A w \in Workers : worker[w].pc \in {"idle", "task", "answer", "close", "forget",
                                            "rearm_in", "rearm_out"}

\* At most one task is for fd f.
OneTask(f) ==
    /\ \A i, j \in DOMAIN m_queue : m_queue[i] = f /\ m_queue[j] = f => i = j
    /\ \A i \in DOMAIN m_queue, w \in Workers : m_queue[i] = f => worker[w].fd # f
    /\ \A v, w \in Workers : worker[v].fd = f /\ worker[w].fd = f => v = w

\* The object of fd f goes by f, its own close_conn() has not been called, and what is
\* to be done for it is one task, or one event, or nothing and it may be reported.
Held(f) ==
    /\ users[f].m_sockfd = f
    /\ \A w \in Workers : worker[w].fd = f => worker[w].pc # "forget"
    /\ OneTask(f)
    /\ Busy(f) => ~Armed(f)
    /\ AtWork(f) => \A e \in events : e.fd # f

Hands == /\ ProactorPcs
         /\ \A f \in FDs : users[f].m_sockfd \in {f, -1}
         /\ \A f \in FDs : Clean(f) => Held(f)

HandInv == TimerInv /\ (mode.actor = 0 => Hands)

LEMMA InitHandInv == Init => HandInv
<1> SUFFICES ASSUME Init PROVE HandInv
    OBVIOUS
<1>1. /\ \A f \in FDs : sock[f] = None /\ users[f].m_sockfd = -1
      /\ main.pc = "wait" /\ \A w \in Workers : worker[w].pc = "idle"
      BY DEF Init, NoTask, NewObject
<1>2. Hands
      BY <1>1 DEF Hands, ProactorPcs, Clean
<1> QED BY <1>2, InitTimerInv DEF HandInv

\* A step that leaves fd f, its connection and its object alone, and one that gives
\* nobody a task for f.
Untouched(f) ==
    /\ sock'[f] = sock[f] /\ users'[f].m_sockfd = users[f].m_sockfd
    /\ sock[f] # None => /\ net'[sock[f]].interest = net[sock[f]].interest
                         /\ net'[sock[f]].heir = net[sock[f]].heir

NoTaskFor(f) ==
    /\ AtWork(f)' => AtWork(f)
    /\ OneTask(f) => OneTask(f)'
    /\ \A w \in Workers : worker'[w].fd = f /\ worker'[w].pc = "forget"
                              => worker[w].fd = f /\ worker[w].pc = "forget"

LEMMA KeepHeld ==
    ASSUME NEW f \in FDs, Clean(f) => Held(f), Untouched(f), NoTaskFor(f),
           events' \subseteq events
    PROVE  Clean(f)' => Held(f)'
<1> SUFFICES ASSUME Clean(f)' PROVE Held(f)'
    OBVIOUS
<1>1. Clean(f) /\ Held(f)
      BY DEF Clean, Untouched
<1>2. (Armed(f)' => Armed(f)) /\ (Busy(f)' => Busy(f))
      BY DEF Armed, Untouched, Busy, NoTaskFor
<1> QED BY <1>1, <1>2 DEF Held, Untouched, NoTaskFor

\* A step that touches at most fd f.
LEMMA TouchOne ==
    ASSUME Hands, ProactorPcs', events' \subseteq events, NEW f,
           \A g \in FDs \ {f} : Untouched(g) /\ NoTaskFor(g),
           f \in FDs => /\ users'[f].m_sockfd \in {f, -1}
                        /\ Clean(f)' => Held(f)'
    PROVE  Hands'
<1>1. ASSUME NEW g \in FDs PROVE users'[g].m_sockfd \in {g, -1}
      BY DEF Hands, Untouched
<1>2. ASSUME NEW g \in FDs PROVE Clean(g)' => Held(g)'
  <2>1. CASE g = f
        BY <2>1
  <2>2. CASE g # f
        BY <2>2, KeepHeld DEF Hands
  <2> QED BY <2>1, <2>2
<1> QED BY <1>1, <1>2 DEF Hands

LEMMA TouchNone ==
    ASSUME Hands, ProactorPcs', events' \subseteq events,
           \A g \in FDs : Untouched(g) /\ NoTaskFor(g)
    PROVE  Hands'
<1>1. 0 \notin FDs
      BY WebServerAssumption DEF FDs
<1> QED BY <1>1, TouchOne

\* Different fds are for different connections, by their timers.
LEMMA OneConnection ==
    ASSUME TimerInv, NEW f \in FDs,
           \A c \in Conns : c # sock[f] => /\ net'[c].interest = net[c].interest
                                           /\ net'[c].heir = net[c].heir,
           \A g \in FDs \ {f} : sock'[g] = sock[g] /\ users'[g].m_sockfd = users[g].m_sockfd
    PROVE  \A g \in FDs \ {f} : Untouched(g)
<1> SUFFICES ASSUME NEW g \in FDs \ {f}, sock[g] # None
             PROVE  sock[g] # sock[f] /\ sock[g] \in Conns
    BY DEF Untouched
<1> QED BY DEF TimerInv, TimerOwned, TypeOK

-----------------------------------------------------------------------------
(* Who has a task for which fd.                                             *)

\* A worker has a task exactly if it has an fd.
LEMMA JobType ==
    ASSUME TypeOK, NEW w \in Workers
    PROVE  \/ worker[w] = NoTask /\ worker[w].pc = "idle" /\ worker[w].fd = 0
           \/ /\ worker[w] \in Jobs /\ worker[w].pc # "idle" /\ worker[w].fd \in FDs
              /\ worker[w].fd # 0
<1>1. worker[w] = NoTask \/ worker[w] \in Jobs
      BY DEF TypeOK
<1>2. CASE worker[w] = NoTask
      BY <1>2 DEF NoTask
<1>3. CASE worker[w] \in Jobs
  <2>1. 0 \notin FDs
        BY WebServerAssumption DEF FDs
  <2>2. \A j \in Jobs : j.pc # "idle" /\ j.fd \in FDs
        BY DEF Jobs
  <2> QED BY <1>3, <2>1, <2>2
<1> QED BY <1>1, <1>2, <1>3

\* A step that moves no task, and calls no close_conn() for f.
LEMMA SameTasks ==
    ASSUME NEW f, m_queue' = m_queue, \A w \in Workers : worker'[w].fd = worker[w].fd,
           \A w \in Workers : worker'[w].fd = f /\ worker'[w].pc = "forget"
                                  => worker[w].pc = "forget"
    PROVE  NoTaskFor(f)
BY DEF NoTaskFor, AtWork, OneTask

\* A worker goes on with its task.
LEMMA StepTask ==
    ASSUME TypeOK, NEW w \in Workers, worker[w].pc # "idle", NEW pc, Step(w, pc)
    PROVE  \A v \in Workers : /\ worker'[v].fd = worker[v].fd
                              /\ worker'[v].pc = IF v = w THEN pc ELSE worker[v].pc
<1>1. \A j \in Jobs : [j EXCEPT !.pc = pc].fd = j.fd /\ [j EXCEPT !.pc = pc].pc = pc
      BY DEF Jobs
<1>2. worker[w] \in Jobs
      BY JobType
<1> QED BY <1>1, <1>2 DEF Step, TypeOK

\* A worker takes the task at the head of the queue.
LEMMA TakeTask ==
    ASSUME TypeOK, NEW w \in Workers, Take(w), NEW f \in FDs
    PROVE  NoTaskFor(f)
<1> DEFINE t == Head(m_queue)
<1>1. /\ m_queue \in Seq(FDs) /\ m_queue # <<>> /\ Len(m_queue) \in Nat \ {0}
      /\ m_queue' = Tail(m_queue) /\ t = m_queue[1] /\ 1 \in DOMAIN m_queue
      /\ DOMAIN m_queue' = 1..(Len(m_queue) - 1)
      /\ \A i \in DOMAIN m_queue' : m_queue'[i] = m_queue[i + 1] /\ i + 1 \in DOMAIN m_queue
      BY DEF Take, TypeOK
<1>2. /\ worker'[w].fd = t /\ worker'[w].pc = "task"
      /\ \A v \in Workers : v # w => worker'[v] = worker[v]
      BY DEF Take, TypeOK
<1>3. AtWork(f)' => AtWork(f)
      BY <1>1, <1>2 DEF AtWork, ToSet
<1>4. ASSUME OneTask(f)
      PROVE  OneTask(f)'
  <2>1. ASSUME NEW i \in DOMAIN m_queue', NEW j \in DOMAIN m_queue',
               m_queue'[i] = f, m_queue'[j] = f
        PROVE  i = j
    <3>1. i \in Int /\ j \in Int /\ i + 1 = j + 1
          BY <1>1, <1>4, <2>1 DEF OneTask
    <3> QED BY <3>1
  <2>2. ASSUME NEW i \in DOMAIN m_queue', NEW v \in Workers, m_queue'[i] = f
        PROVE  worker'[v].fd # f
    <3>1. i \in 1..(Len(m_queue) - 1) /\ i + 1 # 1
          BY <1>1
    <3>2. m_queue[1] # f
          BY <1>1, <1>4, <2>2, <3>1 DEF OneTask
    <3> QED BY <1>1, <1>2, <1>4, <2>2, <3>2 DEF OneTask
  <2>3. ASSUME NEW u \in Workers, NEW v \in Workers, worker'[u].fd = f, worker'[v].fd = f
        PROVE  u = v
    <3>1. \A x \in Workers : t = f => worker[x].fd # f
          BY <1>1, <1>4 DEF OneTask
    <3> QED BY <1>2, <1>4, <2>3, <3>1 DEF OneTask
  <2> QED BY <2>1, <2>2, <2>3 DEF OneTask
<1> QED BY <1>2, <1>3, <1>4 DEF NoTaskFor

\* A worker has done with its task.
LEMMA FinishTask ==
    ASSUME TypeOK, NEW w \in Workers, worker[w].pc # "idle", Finish(w), m_queue' = m_queue
    PROVE  \A f \in FDs : /\ NoTaskFor(f)
                          /\ f = worker[w].fd /\ OneTask(f) => ~AtWork(f)'
<1>1. /\ worker'[w].pc = "idle" /\ worker'[w].fd = 0
      /\ \A v \in Workers : v # w => worker'[v] = worker[v]
      BY DEF Finish, NoTask, TypeOK
<1>2. 0 \notin FDs /\ worker[w].fd \in FDs
      BY JobType, WebServerAssumption DEF FDs
<1>3. \A f \in FDs : NoTaskFor(f)
      BY <1>1, <1>2 DEF NoTaskFor, AtWork, OneTask
<1>4. ASSUME NEW f, f = worker[w].fd, OneTask(f)
      PROVE  ~AtWork(f)'
  <2>1. \A v \in Workers : worker'[v].fd # f
        BY <1>1, <1>2, <1>4 DEF OneTask
  <2>2. f \notin ToSet(m_queue)
        BY <1>4 DEF OneTask, ToSet
  <2> QED BY <2>1, <2>2 DEF AtWork
<1> QED BY <1>3, <1>4

\* A task for f is appended, or refused.
LEMMA AppendTask ==
    ASSUME TypeOK, NEW f \in FDs, worker' = worker, m_queue' = Appended(f)
    PROVE  /\ \A g \in FDs \ {f} : NoTaskFor(g)
           /\ ~AtWork(f) => OneTask(f)'
<1>1. CASE m_queue' = m_queue
      BY <1>1 DEF NoTaskFor, AtWork, OneTask, ToSet
<1>2. CASE m_queue' = Append(m_queue, f)
  <2>1. m_queue \in Seq(FDs) /\ Len(m_queue) \in Nat
        BY DEF TypeOK
  <2>2. /\ DOMAIN m_queue = 1..Len(m_queue) /\ DOMAIN m_queue' = 1..(Len(m_queue) + 1)
        /\ \A i \in DOMAIN m_queue : m_queue'[i] = m_queue[i]
        /\ m_queue'[Len(m_queue) + 1] = f
        BY <1>2, <2>1
  <2>3. \A i \in DOMAIN m_queue' : \/ i \in DOMAIN m_queue /\ m_queue'[i] = m_queue[i]
                                   \/ i = Len(m_queue) + 1 /\ m_queue'[i] = f
        BY <2>1, <2>2
  <2>4. \A g \in FDs \ {f} : NoTaskFor(g)
        BY <2>3 DEF NoTaskFor, AtWork, OneTask, ToSet
  <2>5. ASSUME ~AtWork(f)
        PROVE  OneTask(f)'
    <3>1. (\A i \in DOMAIN m_queue : m_queue[i] # f) /\ \A w \in Workers : worker[w].fd # f
          BY <2>5 DEF AtWork, ToSet
    <3>2. \A i \in DOMAIN m_queue' : m_queue'[i] = f => i = Len(m_queue) + 1
          BY <2>3, <3>1
    <3> QED BY <3>1, <3>2 DEF OneTask
  <2> QED BY <2>4, <2>5
<1> QED BY <1>1, <1>2 DEF Appended

-----------------------------------------------------------------------------
(* No step takes the object of a connection that is no heir out of its hand. *)

\* What clients and the time leave alone of the connections.
Alike(k, l) == k.interest = l.interest /\ k.heir = l.heir /\ k.got = l.got

LEMMA EnvironmentNet ==
    ASSUME TypeOK,
           Pass \/ \E c \in Conns : Connect(c) \/ Send(c) \/ Hangup(c) \/ Drain(c)
    PROVE  \A c \in Conns : Alike(net'[c], net[c])
<1>1. CASE Pass
      BY <1>1 DEF Pass, Alike
<1>2. ASSUME NEW d \in Conns, NEW k, net' = [net EXCEPT ![d] = k], Alike(k, net[d])
      PROVE  \A c \in Conns : Alike(net'[c], net[c])
      BY <1>2 DEF TypeOK, Alike
<1>3. \A k \in ConnStates :
          /\ \A x, y : Alike([k EXCEPT !.inbox = x, !.sent = y], k)
          /\ Alike([k EXCEPT !.gone = TRUE], k)
          /\ Alike([k EXCEPT !.full = "was"], k)
          /\ Alike([k EXCEPT !.phase = "backlog"], k)
      BY DEF ConnStates, Alike
<1>4. \A d \in Conns : net[d] \in ConnStates
      BY DEF TypeOK
<1>5. ASSUME NEW d \in Conns, Connect(d)
      PROVE  \A c \in Conns : Alike(net'[c], net[c])
  <2>1. net' = [net EXCEPT ![d] = [net[d] EXCEPT !.phase = "backlog"]]
        BY <1>5 DEF Connect
  <2> QED BY <1>2, <1>3, <1>4, <2>1
<1>6. ASSUME NEW d \in Conns, Send(d)
      PROVE  \A c \in Conns : Alike(net'[c], net[c])
  <2>1. PICK kind \in Kinds :
            Client(d, [net[d] EXCEPT !.inbox = Append(@, kind), !.sent = @ + 1])
        BY <1>6 DEF Send
  <2> DEFINE x == Append(net[d].inbox, kind)
             y == net[d].sent + 1
             k == [net[d] EXCEPT !.inbox = x, !.sent = y]
  <2>2. net' = [net EXCEPT ![d] = k]
        BY <2>1 DEF Client
  <2>3. Alike(k, net[d])
    <3> HIDE DEF x, y
    <3> QED BY <1>3, <1>4
  <2> HIDE DEF k
  <2> QED BY <1>2, <2>2, <2>3
<1>7. ASSUME NEW d \in Conns, Hangup(d) \/ Drain(d)
      PROVE  \A c \in Conns : Alike(net'[c], net[c])
  <2>1. \/ net' = [net EXCEPT ![d] = [net[d] EXCEPT !.gone = TRUE]]
        \/ net' = [net EXCEPT ![d] = [net[d] EXCEPT !.full = "was"]]
        BY <1>7 DEF Hangup, Drain, Client
  <2> QED BY <1>2, <1>3, <1>4, <2>1
<1> QED BY <1>1, <1>5, <1>6, <1>7

LEMMA EnvironmentHandInv ==
    ASSUME HandInv,
           Pass \/ \E c \in Conns : Connect(c) \/ Send(c) \/ Hangup(c) \/ Drain(c)
    PROVE  HandInv'
<1>1. TimerInv /\ TimerInv' /\ TypeOK /\ mode' = mode
      BY EnvironmentTimerInv
         DEF HandInv, TimerInv, Pass, Connect, Send, Hangup, Drain, Client
<1> SUFFICES ASSUME mode.actor = 0 PROVE Hands'
    BY <1>1 DEF HandInv
<1>2. UNCHANGED <<sock, users, m_queue, worker, main, events>>
      BY DEF Pass, Connect, Send, Hangup, Drain, Client
<1>3. \A c \in Conns : net'[c].interest = net[c].interest /\ net'[c].heir = net[c].heir
      BY <1>1, EnvironmentNet DEF Alike
<1>4. \A f \in FDs : Untouched(f)
      BY <1>1, <1>2, <1>3 DEF Untouched, TypeOK
<1>5. \A f \in FDs : NoTaskFor(f)
      BY <1>2, SameTasks
<1>6. Hands /\ ProactorPcs'
      BY <1>2 DEF HandInv, Hands, ProactorPcs
<1> QED BY <1>2, <1>4, <1>5, <1>6, TouchNone

\* Which steps a worker takes in Proactor.
LEMMA ProactorWorker ==
    ASSUME mode.actor = 0, ProactorPcs, NEW w \in Workers, Worker(w)
    PROVE  \/ Take(w) \/ Process(w) \/ ProcessWrite(w) \/ CloseConn(w) \/ ForgetSocket(w)
           \/ Rearm(w)
<1>1. worker[w].pc \in {"idle", "task", "answer", "close", "forget", "rearm_in", "rearm_out"}
      BY DEF ProactorPcs
<1>2. ~WorkerRead(w) /\ ~WorkerWrite(w)
      BY DEF WorkerRead, WorkerWrite
<1>3. ~WorkerInit(w) /\ ~SetImprov(w) /\ ~SetTimerFlag(w)
      BY <1>1 DEF WorkerInit, SetImprov, SetTimerFlag
<1> QED BY <1>2, <1>3 DEF Worker

\* Process(w) and ProcessWrite(w) touch the object of the task and nothing else.
LEMMA ProcessSteps ==
    ASSUME TypeOK, NEW w \in Workers, mode.actor = 0, ProactorPcs,
           Process(w) \/ ProcessWrite(w)
    PROVE  /\ UNCHANGED <<mode, net, sock, timers, m_queue, main, events>>
           /\ worker[w].pc # "idle" /\ worker[w].fd \in FDs
           /\ \E pc \in {"answer", "close", "rearm_in", "rearm_out"} : Step(w, pc)
           /\ \A f \in FDs : /\ users'[f].m_sockfd = users[f].m_sockfd
                             /\ f # worker[w].fd => users'[f] = users[f]
<1>1. UNCHANGED <<mode, net, sock, timers, m_queue, main, events>> /\ worker[w].pc # "idle"
      BY DEF Process, ProcessWrite
<1>2. worker[w].fd \in FDs /\ Object(w) \in Objects
      BY <1>1, JobType DEF TypeOK, Object
<1>3. \A o \in Objects :
          /\ \A l, c : /\ [o EXCEPT !.rbuf = <<>>, !.m_linger = l].m_sockfd = o.m_sockfd
                       /\ [[o EXCEPT !.rbuf = <<>>, !.m_linger = l] EXCEPT !.file = c].m_sockfd
                              = o.m_sockfd
          /\ \A r : [o EXCEPT !.resp = r].m_sockfd = o.m_sockfd
      BY DEF Objects
<1>4. \A o : Set(w, o) /\ o.m_sockfd = Object(w).m_sockfd =>
          \A f \in FDs : /\ users'[f].m_sockfd = users[f].m_sockfd
                         /\ f # worker[w].fd => users'[f] = users[f]
      BY <1>2 DEF Set, Object, TypeOK
<1>5. CASE Process(w)
  <2>1. CASE Complete(Object(w).rbuf) = {}
        BY <1>1, <1>2, <1>5, <2>1 DEF Process
  <2>2. CASE Complete(Object(w).rbuf) # {}
    <3>1. PICK i \in Complete(Object(w).rbuf) : Parsed(w, Object(w).rbuf[i].kind)
          BY <1>5, <2>2 DEF Process
    <3> DEFINE l == Object(w).m_linger \/ Object(w).rbuf[i].kind = "keep"
               p == [Object(w) EXCEPT !.rbuf = <<>>, !.m_linger = l]
               q == [p EXCEPT !.file = Object(w).rbuf[1].conn]
    <3>2. \/ Step(w, "answer") /\ Set(w, q)
          \/ Step(w, "close") /\ Set(w, p)
          BY <3>1 DEF Parsed
    <3>3. q.m_sockfd = Object(w).m_sockfd /\ p.m_sockfd = Object(w).m_sockfd
          BY <1>2, <1>3
    <3> HIDE DEF q, p
    <3> QED BY <1>1, <1>2, <1>4, <3>2, <3>3
  <2> QED BY <2>1, <2>2
<1>6. CASE ProcessWrite(w)
  <2> DEFINE q == [Object(w) EXCEPT !.resp = [file |-> Object(w).file]]
  <2>1. Step(w, "rearm_out") /\ Set(w, q)
        BY <1>6 DEF ProcessWrite
  <2>2. q.m_sockfd = Object(w).m_sockfd
        BY <1>2, <1>3
  <2> HIDE DEF q
  <2> QED BY <1>1, <1>2, <1>4, <2>1, <2>2
<1> QED BY <1>5, <1>6

LEMMA WorkerHandInv ==
    ASSUME HandInv, NEW w \in Workers, Worker(w)
    PROVE  HandInv'
<1>0. PICK f : f = worker[w].fd
      OBVIOUS
<1>1. TimerInv /\ TimerInv' /\ TypeOK
      BY WorkerTimerInv DEF HandInv, TimerInv
<1>2. mode' = mode
      BY DEF Worker, Take, WorkerRead, WorkerWrite, WorkerInit, SetImprov, SetTimerFlag,
             Process, ProcessWrite, CloseConn, ForgetSocket, Rearm
<1> SUFFICES ASSUME mode.actor = 0 PROVE Hands'
    BY <1>1, <1>2 DEF HandInv
<1>3. Hands /\ ProactorPcs
      BY DEF HandInv, Hands
<1>4. UNCHANGED <<main, events>>
      BY DEF Worker, Take, WorkerRead, WorkerWrite, WorkerInit, SetImprov, SetTimerFlag,
             Process, ProcessWrite, CloseConn, ForgetSocket, Rearm
<1>5. ASSUME worker[w].pc # "idle", m_queue' = m_queue,
             NEW pc \in {"answer", "close", "forget", "rearm_in", "rearm_out"}, Step(w, pc)
      PROVE  /\ ProactorPcs'
             /\ \A g \in FDs : g # f \/ pc # "forget" => NoTaskFor(g)
             /\ worker'[w].fd = f
  <2>1. \A v \in Workers : /\ worker'[v].fd = worker[v].fd
                           /\ worker'[v].pc = IF v = w THEN pc ELSE worker[v].pc
        BY <1>1, <1>5, StepTask
  <2>2. ProactorPcs'
        BY <1>3, <1>4, <2>1 DEF ProactorPcs
  <2>3. ASSUME NEW g \in FDs, g # f \/ pc # "forget"
        PROVE  NoTaskFor(g)
        BY <1>0, <1>5, <2>1, <2>3, SameTasks
  <2> QED BY <1>0, <2>1, <2>2, <2>3
<1>6. CASE Take(w)
  <2>1. UNCHANGED <<net, sock, users>> /\ \A g \in FDs : NoTaskFor(g)
        BY <1>1, <1>6, TakeTask DEF Take
  <2>2. ProactorPcs'
    <3>1. \A v \in Workers : worker'[v].pc \in {worker[v].pc, "task"}
          BY <1>1, <1>6 DEF Take, TypeOK
    <3> QED BY <1>3, <1>4, <3>1 DEF ProactorPcs
  <2> QED BY <1>3, <1>4, <2>1, <2>2, TouchNone DEF Untouched
<1>7. CASE Process(w) \/ ProcessWrite(w)
  <2>1. /\ UNCHANGED <<net, sock, m_queue>> /\ worker[w].pc # "idle"
        /\ \A g \in FDs : users'[g].m_sockfd = users[g].m_sockfd
        BY <1>1, <1>3, <1>7, ProcessSteps
  <2>2. PICK pc \in {"answer", "close", "rearm_in", "rearm_out"} : Step(w, pc)
        BY <1>1, <1>3, <1>7, ProcessSteps
  <2>3. ProactorPcs' /\ \A g \in FDs : NoTaskFor(g)
        BY <1>5, <2>1, <2>2
  <2> QED BY <1>3, <1>4, <2>1, <2>3, TouchNone DEF Untouched
<1>8. CASE CloseConn(w)
  <2>1. /\ worker[w].pc # "idle" /\ UNCHANGED <<users, m_queue>>
        /\ f \in FDs /\ Object(w) = users[f] /\ users[f].m_sockfd \in {f, -1}
        BY <1>0, <1>1, <1>3, <1>8, JobType DEF CloseConn, Object, Hands
  <2>2. CASE Object(w).m_sockfd = -1
    <3>1. UNCHANGED <<net, sock>> /\ Step(w, "rearm_out")
          BY <1>8, <2>2 DEF CloseConn
    <3>2. ProactorPcs' /\ \A g \in FDs : NoTaskFor(g)
          BY <1>5, <2>1, <3>1
    <3> QED BY <1>3, <1>4, <2>1, <3>1, <3>2, TouchNone DEF Untouched
  <2>3. CASE Object(w).m_sockfd # -1
    <3>1. net' = CloseFd(net, f) /\ sock' = [sock EXCEPT ![f] = None] /\ Step(w, "forget")
          BY <1>8, <2>1, <2>3 DEF CloseConn
    <3>2. ProactorPcs' /\ \A g \in FDs \ {f} : NoTaskFor(g)
          BY <1>5, <2>1, <3>1
    <3>3. \A c \in Conns : c # sock[f] => net'[c] = net[c]
          BY <2>1, <3>1 DEF CloseFd, Peer
    <3>4. sock'[f] = None /\ \A g \in FDs \ {f} : sock'[g] = sock[g]
          BY <1>1, <2>1, <3>1 DEF TypeOK
    <3>5. \A g \in FDs \ {f} : Untouched(g)
          BY <1>1, <2>1, <3>3, <3>4, OneConnection
    <3>6. ~Clean(f)'
          BY <2>1, <3>4 DEF Clean
    <3> QED BY <1>3, <1>4, <2>1, <3>2, <3>5, <3>6, TouchOne
  <2> QED BY <2>2, <2>3
<1>9. CASE ForgetSocket(w)
  <2>1. /\ worker[w].pc = "forget" /\ UNCHANGED <<net, sock, m_queue>> /\ f \in FDs
        /\ Set(w, [users[f] EXCEPT !.m_sockfd = -1]) /\ Step(w, "rearm_out")
        BY <1>0, <1>1, <1>9, JobType DEF ForgetSocket, Object
  <2>2. users'[f].m_sockfd = -1 /\ \A g \in FDs \ {f} : users'[g] = users[g]
    <3>1. [users[f] EXCEPT !.m_sockfd = -1].m_sockfd = -1
          BY <1>1, <2>1 DEF TypeOK, Objects
    <3> QED BY <1>0, <1>1, <2>1, <3>1 DEF Set, TypeOK
  <2>3. ProactorPcs' /\ \A g \in FDs : NoTaskFor(g)
        BY <1>5, <2>1
  <2>4. \A g \in FDs \ {f} : Untouched(g)
        BY <2>1, <2>2 DEF Untouched
  <2>5. ~Clean(f) /\ ~Clean(f)'
    <3>1. ~Held(f)
          BY <1>0, <2>1 DEF Held
    <3>2. ~Clean(f)
          BY <1>3, <2>1, <3>1 DEF Hands
    <3> QED BY <2>1, <3>2 DEF Clean
  <2> QED BY <1>3, <1>4, <2>1, <2>2, <2>3, <2>4, <2>5, TouchOne
<1>10. CASE Rearm(w)
  <2>1. /\ worker[w].pc # "idle" /\ UNCHANGED <<sock, users, m_queue>> /\ Finish(w)
        /\ f \in FDs /\ users[f].m_sockfd \in {f, -1}
        BY <1>0, <1>1, <1>3, <1>10, JobType DEF Rearm, Hands
  <2>2. PICK s \in {f, -1}, ev \in {"in", "out"} : net' = Modfd(net, s, ev)
        BY <1>0, <1>10, <2>1 DEF Rearm, Object
  <2>3. (\A g \in FDs : NoTaskFor(g)) /\ (OneTask(f) => ~AtWork(f)')
    <3>1. \A g \in FDs : NoTaskFor(g) /\ (g = worker[w].fd /\ OneTask(g) => ~AtWork(g)')
          BY <1>1, <2>1, FinishTask
    <3> QED BY <1>0, <2>1, <3>1
  <2>4. ProactorPcs'
    <3>1. \A v \in Workers : worker'[v].pc \in {worker[v].pc, "idle"}
          BY <1>1, <2>1 DEF Finish, NoTask, TypeOK
    <3> QED BY <1>3, <1>4, <3>1 DEF ProactorPcs
  <2>5. \A c \in Conns : /\ net'[c].heir = net[c].heir
                         /\ c # sock[f] => net'[c] = net[c]
    <3>1. \A k \in ConnStates : [k EXCEPT !.interest = ev].heir = k.heir
          BY DEF ConnStates
    <3>2. \A c \in Conns : net[c] \in ConnStates /\ (c = Peer(s) => c = sock[f])
      <4>1. Peer(f) = sock[f] /\ Peer(-1) = None
        <5>1. -1 \notin FDs
              BY WebServerAssumption DEF FDs
        <5> QED BY <2>1, <5>1 DEF Peer
      <4>2. \A c \in Conns : c # None
            BY WebServerAssumption
      <4>3. Peer(s) = sock[f] \/ Peer(s) = None
            BY <4>1
      <4> QED BY <1>1, <4>2, <4>3 DEF TypeOK
    <3> QED BY <2>2, <3>1, <3>2 DEF Modfd
  <2>6. \A g \in FDs \ {f} : Untouched(g)
        BY <1>1, <2>1, <2>5, OneConnection
  <2>7. ASSUME Clean(f)'
        PROVE  Held(f)'
    <3>1. Clean(f) /\ Held(f)
      <4>1. sock[f] # None => sock[f] \in Conns
            BY <1>1, <2>1 DEF TypeOK
      <4> QED BY <1>3, <2>1, <2>5, <2>7, <4>1 DEF Clean, Hands
    <3>2. ~AtWork(f)' /\ \A e \in events' : e.fd # f
          BY <1>0, <1>4, <2>3, <3>1 DEF Held, AtWork
    <3> QED BY <2>1, <2>3, <3>1, <3>2 DEF Held, NoTaskFor, Busy
  <2> QED BY <1>3, <1>4, <2>1, <2>3, <2>4, <2>6, <2>7, TouchOne
<1> QED BY <1>3, <1>6, <1>7, <1>8, <1>9, <1>10, ProactorWorker

\* What read_once() and write() do on fd f, whose object goes by f or by no fd.
LEMMA ReadWriteOwn ==
    ASSUME TypeOK, NEW f \in FDs, users[f].m_sockfd \in {f, -1}
    PROVE  /\ \A c \in Conns : /\ ReadNet(f)[c].interest = net[c].interest
                               /\ ReadNet(f)[c].heir = net[c].heir
           /\ \A r : \A c \in Conns :
                  /\ WriteNet(f, r)[c].heir = net[c].heir
                  /\ c # sock[f] => WriteNet(f, r)[c] = net[c]
           /\ ReadObject(f).m_sockfd = users[f].m_sockfd
           /\ \A r : WriteObject(f, r).m_sockfd = users[f].m_sockfd
           /\ \A o, s : Reset(o, s).m_sockfd = s
<1>1. net \in [Conns -> ConnStates] /\ users[f] \in Objects
      BY DEF TypeOK
<1>2. Peer(users[f].m_sockfd) \in {sock[f], None} /\ \A c \in Conns : c # None
  <2>1. -1 \notin FDs
        BY WebServerAssumption DEF FDs
  <2> QED BY <2>1, WebServerAssumption DEF Peer
<1>3. \A c \in Conns : ReadNet(f)[c].interest = net[c].interest /\ ReadNet(f)[c].heir = net[c].heir
  <2>1. \A k \in ConnStates : /\ [k EXCEPT !.inbox = <<>>].interest = k.interest
                              /\ [k EXCEPT !.inbox = <<>>].heir = k.heir
        BY DEF ConnStates
  <2> QED BY <1>1, <2>1 DEF ReadNet
<1>4. ASSUME NEW r, NEW c \in Conns
      PROVE  /\ WriteNet(f, r)[c].heir = net[c].heir
             /\ c # sock[f] => WriteNet(f, r)[c] = net[c]
  <2> DEFINE s == users[f].m_sockfd
             After(k) == IF r = "again" THEN [k EXCEPT !.full = "yes"]
                         ELSE IF r = "sent"
                         THEN [k EXCEPT !.got = @ \cup {users[f].resp.file}, !.full = "no"]
                         ELSE k
             n == [d \in Conns |-> IF d = Peer(s) THEN After(net[d]) ELSE net[d]]
             ev == IF r = "again" THEN "out" ELSE "in"
  <2>1. \A k \in ConnStates : [After(k) EXCEPT !.interest = ev].heir = k.heir
        BY DEF ConnStates
  <2>2. WriteNet(f, r)[c] =
            IF r # "error" /\ c = Peer(s) THEN [After(net[c]) EXCEPT !.interest = ev]
            ELSE net[c]
        BY DEF WriteNet, Modfd
  <2> HIDE DEF After, ev
  <2> QED BY <1>1, <1>2, <2>1, <2>2
<1>5. ReadObject(f).m_sockfd = users[f].m_sockfd
  <2>1. \A x : [users[f] EXCEPT !.rbuf = x].m_sockfd = users[f].m_sockfd
        BY <1>1 DEF Objects
  <2> QED BY <2>1 DEF ReadObject
<1>6. \A r : WriteObject(f, r).m_sockfd = users[f].m_sockfd
  <2>1. /\ [users[f] EXCEPT !.resp = None, !.file = None].m_sockfd = users[f].m_sockfd
        /\ [users[f] EXCEPT !.file = None].m_sockfd = users[f].m_sockfd
        BY <1>1 DEF Objects
  <2> QED BY <2>1 DEF WriteObject
<1>7. \A o, s : Reset(o, s).m_sockfd = s
      BY DEF Reset, NewObject
<1> QED BY <1>3, <1>4, <1>5, <1>6, <1>7

\* What close() leaves of the connections, on fd f.
LEMMA CloseOwn ==
    ASSUME NEW n \in [Conns -> ConnStates], NEW f \in FDs
    PROVE  \A c \in Conns : c # sock[f] => CloseFd(n, f)[c] = n[c]
BY DEF CloseFd, Peer

\* Handling event e of the batch in Proactor: with it the main thread has the object of
\* e.fd, which a read gives to the one task it appends.
LEMMA HandlerHands ==
    ASSUME TimerInv, Hands, NEW e \in events, e.fd \in FDs, worker' = worker,
           events' = events \ {e}, ProactorPcs',
           \/ deal_timer(net, e.fd) /\ UNCHANGED <<users, m_queue>>
           \/ ReadHere(e.fd) \/ WriteHere(e.fd)
    PROVE  Hands'
<1>0. PICK f \in FDs : f = e.fd
      OBVIOUS
<1>1. /\ TypeOK /\ net \in [Conns -> ConnStates] /\ users \in [FDs -> Objects]
      /\ sock \in [FDs -> Conns \cup {None}] /\ users[f].m_sockfd \in {f, -1}
      /\ events' \subseteq events
      BY DEF TimerInv, TypeOK, Hands
<1>2. \A d \in events' : d.fd # f
      BY <1>0, WebServerAssumption DEF TimerInv, EventInv, FDs
<1>3. Clean(f) => Held(f) /\ ~AtWork(f) /\ ~Armed(f)
      BY <1>0 DEF Hands, Held, Busy
<1>4. ASSUME NEW n \in [Conns -> ConnStates], deal_timer(n, f), m_queue' = m_queue,
             \A c \in Conns : c # sock[f] => n[c] = net[c],
             \A g \in FDs \ {f} : users'[g] = users[g], users'[f].m_sockfd \in {f, -1}
      PROVE  Hands'
  <2>1. sock' = [sock EXCEPT ![f] = None] /\ net' = CloseFd(n, f)
        BY <1>4 DEF deal_timer, Callback
  <2>2. sock'[f] = None /\ \A g \in FDs \ {f} : sock'[g] = sock[g]
        BY <1>1, <2>1
  <2>3. \A c \in Conns : c # sock[f] => net'[c] = net[c]
        BY <1>4, <2>1, CloseOwn
  <2>4. \A g \in FDs \ {f} : Untouched(g)
        BY <1>4, <2>2, <2>3, OneConnection
  <2>5. \A g \in FDs : NoTaskFor(g)
        BY <1>4, SameTasks
  <2>6. ~Clean(f)'
        BY <2>2 DEF Clean
  <2> QED BY <1>1, <1>4, <2>4, <2>5, <2>6, TouchOne
<1>5. CASE deal_timer(net, f) /\ UNCHANGED <<users, m_queue>>
      BY <1>1, <1>4, <1>5
<1>6. CASE ReadHere(f)
  <2>1. users' = [users EXCEPT ![f] = ReadObject(f)]
        BY <1>6 DEF ReadHere
  <2>2. users'[f].m_sockfd = users[f].m_sockfd /\ \A g \in FDs \ {f} : users'[g] = users[g]
        BY <1>1, <2>1, ReadWriteOwn
  <2>3. CASE ReadOK(f)
    <3>1. net' = ReadNet(f) /\ sock' = sock /\ m_queue' = Appended(f)
          BY <1>6, <2>3 DEF ReadHere
    <3>2. \A c \in Conns : net'[c].interest = net[c].interest /\ net'[c].heir = net[c].heir
          BY <1>1, <3>1, ReadWriteOwn
    <3>3. \A g \in FDs : Untouched(g)
          BY <1>1, <2>2, <3>1, <3>2 DEF Untouched
    <3>4. (\A g \in FDs \ {f} : NoTaskFor(g)) /\ (~AtWork(f) => OneTask(f)')
          BY <1>1, <3>1, AppendTask
    <3>5. ASSUME Clean(f)'
          PROVE  Held(f)'
      <4>1. Held(f) /\ ~AtWork(f) /\ ~Armed(f)
            BY <1>3, <3>3, <3>5 DEF Clean, Untouched
      <4>2. ~Armed(f)'
            BY <3>3, <4>1 DEF Armed, Untouched
      <4> QED BY <1>2, <2>2, <3>4, <4>1, <4>2 DEF Held
    <3> QED BY <1>1, <2>2, <3>3, <3>4, <3>5, TouchOne
  <2>4. CASE ~ReadOK(f)
    <3>1. deal_timer(net, f) /\ m_queue' = m_queue
          BY <1>6, <2>4 DEF ReadHere
    <3> QED BY <1>1, <1>4, <2>2, <3>1
  <2> QED BY <2>3, <2>4
<1>7. CASE WriteHere(f)
  <2>1. PICK r \in WriteResults(f) :
           /\ users' = [users EXCEPT ![f] =
                           IF WriteInits(f, r) THEN Reset(WriteObject(f, r), @.m_sockfd)
                           ELSE WriteObject(f, r)]
           /\ IF WriteTrue(f, r)
              THEN /\ net' = WriteNet(f, r)
                   /\ timers' = Adjusted(f)
                   /\ UNCHANGED <<sock, user_timer, m_user_count>>
              ELSE deal_timer(WriteNet(f, r), f)
        BY <1>7 DEF WriteHere
  <2>2. users'[f].m_sockfd = users[f].m_sockfd /\ \A g \in FDs \ {f} : users'[g] = users[g]
    <3>1. /\ users'[f] \in {WriteObject(f, r), Reset(WriteObject(f, r), users[f].m_sockfd)}
          /\ \A g \in FDs \ {f} : users'[g] = users[g]
          BY <1>1, <2>1
    <3> QED BY <1>1, <3>1, ReadWriteOwn
  <2>3. /\ m_queue' = m_queue /\ WriteNet(f, r) \in [Conns -> ConnStates]
        /\ \A c \in Conns : /\ WriteNet(f, r)[c].heir = net[c].heir
                            /\ c # sock[f] => WriteNet(f, r)[c] = net[c]
        BY <1>1, <1>7, WriteNetType, ReadWriteOwn DEF WriteHere
  <2>4. CASE WriteTrue(f, r)
    <3>1. net' = WriteNet(f, r) /\ sock' = sock
          BY <2>1, <2>4
    <3>2. \A g \in FDs \ {f} : Untouched(g)
          BY <2>2, <2>3, <3>1, OneConnection
    <3>3. \A g \in FDs : NoTaskFor(g)
          BY <2>3, SameTasks
    <3>4. ASSUME Clean(f)'
          PROVE  Held(f)'
      <4>1. Clean(f)
            BY <1>1, <2>3, <3>1, <3>4 DEF Clean
      <4>2. ~Busy(f)'
            BY <1>2, <1>3, <3>3, <4>1 DEF Busy, NoTaskFor
      <4> QED BY <1>2, <1>3, <2>2, <3>3, <4>1, <4>2 DEF Held, NoTaskFor
    <3> QED BY <1>1, <2>2, <3>2, <3>3, <3>4, TouchOne
  <2>5. CASE ~WriteTrue(f, r)
    <3>1. deal_timer(WriteNet(f, r), f)
          BY <2>1, <2>5
    <3> QED BY <1>1, <1>4, <2>2, <2>3, <3>1
  <2> QED BY <2>4, <2>5
<1> QED BY <1>0, <1>5, <1>6, <1>7

\* What a batch holds, the main thread has in hand: its events are of different fds, and
\* their registrations are switched off.
LEMMA EpollWaitHands ==
    ASSUME TimerInv, Hands, EpollWait
    PROVE  Hands'
<1>1. /\ TypeOK /\ Hands /\ ProactorPcs /\ net \in [Conns -> ConnStates]
      /\ sock \in [FDs -> Conns \cup {None}]
      BY DEF TimerInv, TypeOK, Hands
<1>2. /\ UNCHANGED <<sock, users, m_queue, worker>> /\ events' = Ready /\ events = {}
      /\ net' = [c \in Conns |-> IF \E e \in Ready : e.fd # 0 /\ sock[e.fd] = c
                                 THEN [net[c] EXCEPT !.interest = "off"] ELSE net[c]]
      BY DEF EpollWait, TimerInv, EventInv
<1>3. ProactorPcs'
      BY <1>1, <1>2 DEF EpollWait, Goto, ProactorPcs
<1>4. \A k \in ConnStates : /\ [k EXCEPT !.interest = "off"].interest = "off"
                            /\ [k EXCEPT !.interest = "off"].heir = k.heir
      BY DEF ConnStates
<1>5. \A c \in Conns : /\ net'[c].heir = net[c].heir
                       /\ net'[c].interest \in {net[c].interest, "off"}
      BY <1>1, <1>2, <1>4
<1>6. ASSUME NEW f \in FDs, NEW e \in Ready, e.fd = f
      PROVE  Armed(f) /\ ~Armed(f)'
  <2>1. f # 0
        BY WebServerAssumption DEF FDs
  <2>2. sock[f] \in Conns /\ e.ev = Report(sock[f]) /\ e.ev \in {"hup", "in", "out"}
    <3>1. /\ e \in [fd : FDs, ev : {"hup", "in", "out"}]
          /\ sock[e.fd] # None /\ e.ev = Report(sock[e.fd])
          BY <1>6, <2>1 DEF Ready
    <3>2. e.ev \in {"hup", "in", "out"}
      <4>1. \A x \in [fd : FDs, ev : {"hup", "in", "out"}] : x.ev \in {"hup", "in", "out"}
            OBVIOUS
      <4> QED BY <3>1, <4>1
    <3> QED BY <1>1, <1>6, <3>1, <3>2
  <2>3. Armed(f)
    <3>1. net[sock[f]].interest \notin {"in", "out"} => Report(sock[f]) = "none"
          BY DEF Report
    <3>2. sock[f] # None /\ Report(sock[f]) # "none"
          BY <2>2, WebServerAssumption
    <3> QED BY <3>1, <3>2 DEF Armed
  <2>4. net'[sock[f]].interest = "off"
        BY <1>1, <1>2, <1>4, <1>6, <2>1, <2>2
  <2> QED BY <1>2, <2>3, <2>4 DEF Armed
<1>7. ASSUME NEW f \in FDs, Clean(f)'
      PROVE  Held(f)'
  <2>1. Held(f)
        BY <1>1, <1>2, <1>5, <1>7 DEF Clean, Hands
  <2>2. Armed(f)' => Armed(f)
        BY <1>1, <1>2, <1>5 DEF Armed
  <2>3. AtWork(f)' = AtWork(f) /\ OneTask(f)'
        BY <1>2, <2>1 DEF AtWork, OneTask, Held
  <2>4. AtWork(f) => ~Armed(f)
        BY <2>1 DEF Held, Busy
  <2> QED BY <1>2, <1>6, <2>1, <2>2, <2>3, <2>4 DEF Held, Busy
<1> QED BY <1>1, <1>2, <1>3, <1>7 DEF Hands

\* A connection that takes over an fd nobody has still to handle is held from the start.
LEMMA AcceptHands ==
    ASSUME TimerInv, Hands, deal_clentdata
    PROVE  Hands'
<1>1. /\ TypeOK /\ Hands /\ ProactorPcs /\ net \in [Conns -> ConnStates]
      /\ users \in [FDs -> Objects] /\ sock \in [FDs -> Conns \cup {None}]
      BY DEF TimerInv, TypeOK, Hands
<1>2. UNCHANGED <<m_queue, worker, events>> /\ \A g \in FDs : NoTaskFor(g)
      BY SameTasks DEF deal_clentdata
<1>3. ProactorPcs'
      BY <1>1, <1>2 DEF deal_clentdata, Accepted, Goto, ProactorPcs
<1>4. CASE UNCHANGED <<net, sock, users>>
      BY <1>1, <1>2, <1>3, <1>4, TouchNone DEF Untouched
<1>5. CASE ~(Backlog = {} \/ FreeFDs = {})
  <2>1. PICK c \in Backlog, f \in FreeFDs : Accepted(c, f)
        BY <1>5 DEF deal_clentdata
  <2>2. /\ c \in Conns /\ f \in FDs /\ sock[f] = None /\ c # None
        /\ \A g \in FDs : sock[g] # c
        BY <2>1, WebServerAssumption DEF Backlog, FreeFDs, TimerInv, FreshInv, Fresh
  <2>3. CASE m_user_count >= MaxUsers
    <3>1. UNCHANGED <<sock, users>> /\ net' = [net EXCEPT ![c] = Shut(net[c])]
          BY <2>1, <2>3 DEF Accepted
    <3>2. \A g \in FDs : Untouched(g)
          BY <1>1, <2>2, <3>1 DEF Untouched
    <3> QED BY <1>1, <1>2, <1>3, <3>2, TouchNone
  <2>4. CASE ~(m_user_count >= MaxUsers)
    <3>1. /\ net' = [net EXCEPT ![c] = Opened(net[c], f)]
          /\ sock' = [sock EXCEPT ![f] = c]
          /\ users' = [users EXCEPT ![f] = Reset(users[f], f)]
          BY <2>1, <2>4 DEF Accepted
    <3>2. /\ sock'[f] = c /\ users'[f].m_sockfd = f
          /\ \A g \in FDs \ {f} : sock'[g] = sock[g] /\ users'[g] = users[g]
          BY <1>1, <2>2, <3>1 DEF Reset, NewObject
    <3>3. Busy(f) => net'[c].heir
      <4>1. \A k \in ConnStates : Busy(f) => Opened(k, f).heir
            BY DEF ConnStates, Opened
      <4> QED BY <1>1, <2>2, <3>1, <4>1
    <3>4. \A g \in FDs \ {f} : Untouched(g)
          BY <1>1, <2>2, <3>1, <3>2 DEF Untouched
    <3>5. ASSUME Clean(f)'
          PROVE  Held(f)'
      <4>1. ~Busy(f)
            BY <3>2, <3>3, <3>5 DEF Clean
      <4>2. ~Busy(f)' /\ ~AtWork(f)'
            BY <1>2, <4>1 DEF Busy, AtWork
      <4> QED BY <3>2, <4>2 DEF Held, OneTask, AtWork, ToSet
    <3> QED BY <1>1, <1>2, <1>3, <2>2, <3>2, <3>4, <3>5, TouchOne
  <2> QED BY <2>3, <2>4
<1>6. Backlog = {} \/ FreeFDs = {} => UNCHANGED <<net, sock, users>>
      BY DEF deal_clentdata
<1> QED BY <1>4, <1>5, <1>6

LEMMA MainHandInv ==
    ASSUME HandInv, Main
    PROVE  HandInv'
<1>1. TimerInv /\ TimerInv' /\ TypeOK /\ mode' = mode
      BY MainTimerInv
         DEF HandInv, TimerInv, Main, EpollWait, deal_clentdata, Look, ClearImprov, Dispatch,
             BatchDone, TickDone, TickOne
<1> SUFFICES ASSUME mode.actor = 0 PROVE Hands'
    BY <1>1 DEF HandInv
<1>2. Hands /\ ProactorPcs
      BY DEF HandInv, Hands
<1>3. worker' = worker
      BY DEF Main, EpollWait, deal_clentdata, Look, ClearImprov, Dispatch, BatchDone,
             TickDone, TickOne
<1>4. ~Look /\ ~ClearImprov
      BY <1>2 DEF ProactorPcs, Look, ClearImprov
<1>5. ASSUME UNCHANGED <<net, sock, users, m_queue>>, events' \subseteq events,
             main'.pc \in {"wait", "next", "accept", "tick"}
      PROVE  Hands'
  <2>1. ProactorPcs' /\ \A g \in FDs : Untouched(g) /\ NoTaskFor(g)
        BY <1>2, <1>3, <1>5, SameTasks DEF ProactorPcs, Untouched
  <2> QED BY <1>2, <1>5, <2>1, TouchNone
<1>6. CASE BatchDone \/ TickDone
      BY <1>5, <1>6 DEF BatchDone, TickDone, Goto
<1>7. CASE Dispatch
  <2>1. PICK e \in events :
         /\ events' = events \ {e}
         /\ \/ /\ e.ev \in {"listen", "signal"} /\ main'.pc \in {"next", "accept"}
               /\ UNCHANGED <<net, sock, users, m_queue>>
            \/ /\ e.ev \in {"hup", "in", "out"} /\ main'.pc = "next"
               /\ \/ deal_timer(net, e.fd) /\ UNCHANGED <<users, m_queue>>
                  \/ ReadHere(e.fd)
                  \/ WriteHere(e.fd)
        BY <1>7 DEF Dispatch, Goto, deal_read, deal_write, ReadHere, WriteHere
  <2>2. CASE UNCHANGED <<net, sock, users, m_queue>> /\ main'.pc \in {"next", "accept"}
        BY <1>5, <2>1, <2>2
  <2>3. CASE e.ev \in {"hup", "in", "out"}
    <3>1. e.fd \in FDs
          BY <1>1, <2>3 DEF TypeOK, Events
    <3>2. ProactorPcs'
          BY <1>2, <1>3, <2>1, <2>3 DEF ProactorPcs
    <3> QED BY <1>1, <1>2, <1>3, <2>1, <2>3, <3>1, <3>2, HandlerHands
  <2> QED BY <2>1, <2>2, <2>3
<1>8. ASSUME NEW i \in Conns, TickOne(i)
      PROVE  Hands'
  <2>1. i \in DOMAIN timers /\ timers[i].fd \in FDs
        BY <1>1, <1>8 DEF TickOne, Due, TypeOK
  <2>2. PICK f \in FDs : f = timers[i].fd
        BY <2>1
  <2>3. /\ net' = CloseFd(net, f) /\ sock' = [sock EXCEPT ![f] = None]
        /\ UNCHANGED <<users, m_queue, main, events>>
        BY <1>8, <2>2 DEF TickOne, Callback
  <2>4. sock'[f] = None /\ \A g \in FDs \ {f} : sock'[g] = sock[g]
        BY <1>1, <2>3 DEF TypeOK
  <2>5. \A c \in Conns : c # sock[f] => net'[c] = net[c]
        BY <1>1, <2>3, CloseOwn DEF TypeOK
  <2>6. \A g \in FDs \ {f} : Untouched(g)
        BY <1>1, <2>3, <2>4, <2>5, OneConnection
  <2>7. ProactorPcs' /\ \A g \in FDs : NoTaskFor(g)
        BY <1>2, <1>3, <2>3, SameTasks DEF ProactorPcs
  <2>8. ~Clean(f)'
        BY <2>4 DEF Clean
  <2> QED BY <1>2, <2>3, <2>6, <2>7, <2>8, TouchOne DEF Hands
<1> QED BY <1>1, <1>2, <1>4, <1>6, <1>7, <1>8, EpollWaitHands, AcceptHands DEF Main

LEMMA NextHandInv == HandInv /\ [Next]_vars => HandInv'
<1> SUFFICES ASSUME HandInv, [Next]_vars PROVE HandInv'
    OBVIOUS
<1>1. CASE Next
      BY <1>1, EnvironmentHandInv, MainHandInv, WorkerHandInv DEF Next
<1>2. CASE UNCHANGED vars
  <2>1. TimerInv'
        BY <1>2, NextTimerInv DEF HandInv
  <2>2. mode.actor = 0 => Hands'
    <3> SUFFICES ASSUME mode.actor = 0 PROVE Hands'
        OBVIOUS
    <3>1. Hands /\ ProactorPcs' /\ \A g \in FDs : Untouched(g) /\ NoTaskFor(g)
          BY <1>2, SameTasks DEF vars, HandInv, Hands, ProactorPcs, Untouched
    <3> QED BY <1>2, <3>1, TouchNone DEF vars
  <2> QED BY <1>2, <2>1, <2>2 DEF vars, HandInv
<1> QED BY <1>1, <1>2

\* The tasks for f, counted.
LEMMA CountTasks ==
    ASSUME NEW f, OneTask(f)
    PROVE  TaskCount(f) <= 1 /\ (TaskCount(f) = 1 => AtWork(f))
<1> DEFINE Q == {i \in DOMAIN m_queue : m_queue[i] = f}
           W == {w \in Workers : worker[w].fd = f}
<1>1. TaskCount(f) = Cardinality(Q) + Cardinality(W)
      BY DEF TaskCount
<1>2. Q = {} \/ \E i : Q = {i}
      BY DEF OneTask
<1>3. W = {} \/ \E w : W = {w}
      BY DEF OneTask
<1>4. Q = {} \/ W = {}
      BY DEF OneTask
<1>5. Q # {} \/ W # {} => AtWork(f)
      BY DEF AtWork, ToSet
<1>6. Cardinality({}) = 0 /\ \A x : Cardinality({x}) = 1
      BY FS_EmptySet, FS_Singleton
<1>7. /\ Q = {} => Cardinality(Q) = 0
      /\ Q # {} => Cardinality(Q) = 1
      /\ W = {} => Cardinality(W) = 0
      /\ W # {} => Cardinality(W) = 1
  <2> HIDE DEF Q, W
  <2> QED BY <1>2, <1>3, <1>6
<1> HIDE DEF Q, W
<1> QED BY <1>1, <1>4, <1>5, <1>7

\* In Proactor the http_conn object of a connection that took over an fd which nobody had
\* still to handle is in one hand, whatever files are asked for and however long tasks
\* wait: EPOLLONESHOT, the batch of events and the queue hand it over.
THEOREM OneHand == Spec => []ProactorOneHandler
<1>1. HandInv => ProactorOneHandler
  <2> SUFFICES ASSUME HandInv, mode.actor = 0, NEW f \in FDs, Clean(f)
               PROVE  OneHandler(f)
      BY DEF ProactorOneHandler
  <2>1. Held(f)
        BY DEF HandInv, Hands
  <2> QED BY <2>1, CountTasks DEF OneHandler, Held, Busy
<1> QED BY <1>1, InitHandInv, NextHandInv, PTL DEF Spec

-----------------------------------------------------------------------------
(* In both actor models no client but an heir gets the answer of another.   *)

\* What object o holds is of connection c.
Holds(o, c) == /\ \A i \in DOMAIN o.rbuf : o.rbuf[i].conn = c
               /\ o.resp # None => o.resp.file \in {c, None}

\* What the object of fd f holds, and what workers are about to answer with it, is of
\* the connection behind f.
Answers(f) ==
    /\ users[f].m_sockfd = f
    /\ Holds(users[f], sock[f])
    /\ \A w \in Workers : worker[w].fd = f =>
           /\ worker[w].pc # "forget"
           /\ worker[w].pc = "answer" => users[f].file \in {sock[f], None}

OwnGot(k, c) == k.got \subseteq {c} \/ k.heir

Answering == /\ \A f \in FDs : users[f].m_sockfd \in {f, -1}
             /\ \A f \in FDs : Clean(f) => Answers(f)
             /\ \A c \in Conns : OwnGot(net[c], c)

AnswerInv == TimerInv /\ Answering

LEMMA InitAnswerInv == Init => AnswerInv
<1> SUFFICES ASSUME Init PROVE AnswerInv
    OBVIOUS
<1>1. /\ \A f \in FDs : sock[f] = None /\ users[f].m_sockfd = -1
      /\ \A c \in Conns : net[c].got = {}
      BY DEF Init, NewConn, NewObject
<1> QED BY <1>1, InitTimerInv DEF AnswerInv, Answering, Clean, OwnGot

\* Objects that differ in flags only.
SameData(o, p) == o.m_sockfd = p.m_sockfd /\ o.rbuf = p.rbuf /\ o.file = p.file
                  /\ o.resp = p.resp

\* A step that leaves the data of fd g's object alone, gives g to nobody, and brings no
\* worker to an answer for it or into close_conn().
Kept(g) ==
    /\ SameData(users'[g], users[g]) /\ sock'[g] \in {sock[g], None}
    /\ sock[g] # None => net'[sock[g]].heir = net[sock[g]].heir
    /\ \A w \in Workers : worker'[w].fd = g /\ worker'[w].pc \in {"answer", "forget"}
                              => worker[w].fd = g /\ worker[w].pc = worker'[w].pc

LEMMA KeepAnswers ==
    ASSUME Answering, NEW f, \A g \in FDs \ {f} : Kept(g),
           f \in FDs => users'[f].m_sockfd \in {f, -1} /\ (Clean(f)' => Answers(f)'),
           \A c \in Conns : OwnGot(net'[c], c)
    PROVE  Answering'
<1>1. ASSUME NEW g \in FDs \ {f}, Clean(g)'
      PROVE  Answers(g)'
  <2>1. Clean(g) /\ sock'[g] = sock[g]
        BY <1>1 DEF Kept, Clean
  <2>2. Answers(g) /\ Kept(g)
        BY <1>1, <2>1 DEF Answering
  <2>3. users'[g].m_sockfd = g /\ Holds(users[g], sock[g])' /\ users'[g].file = users[g].file
        BY <2>1, <2>2 DEF Kept, SameData, Answers, Holds
  <2>4. ASSUME NEW w \in Workers, worker'[w].fd = g, worker'[w].pc \in {"answer", "forget"}
        PROVE  worker[w].fd = g /\ worker[w].pc = worker'[w].pc
        BY <2>2, <2>4 DEF Kept
  <2> QED BY <2>1, <2>2, <2>3, <2>4 DEF Answers
<1>2. \A g \in FDs \ {f} : users'[g].m_sockfd \in {g, -1}
      BY DEF Answering, Kept, SameData
<1> QED BY <1>1, <1>2 DEF Answering

\* Nobody has fd 0.
LEMMA KeepObjects ==
    ASSUME Answering, \A g \in FDs : Kept(g), \A c \in Conns : OwnGot(net'[c], c)
    PROVE  Answering'
<1>1. 0 \notin FDs
      BY WebServerAssumption DEF FDs
<1> QED BY <1>1, KeepAnswers

\* epoll_ctl, close() and read() are nothing a client gets.
Level(k, l) == k.got = l.got /\ k.heir = l.heir

LEMMA KeepGot ==
    ASSUME TypeOK
    PROVE  /\ \A n \in [Conns -> ConnStates] : \A s, ev : \A c \in Conns :
                  /\ Level(Modfd(n, s, ev)[c], n[c])
                  /\ Level(CloseFd(n, s)[c], n[c])
           /\ \A f \in FDs : \A c \in Conns : Level(ReadNet(f)[c], net[c])
<1>1. \A k \in ConnStates : /\ \A ev : Level([k EXCEPT !.interest = ev], k)
                            /\ Level([k EXCEPT !.inbox = <<>>], k)
                            /\ Level(Shut(k), k) /\ Level(k, k)
      BY DEF ConnStates, Shut, NewConn, Level
<1>2. net \in [Conns -> ConnStates]
      BY DEF TypeOK
<1>3. \A n \in [Conns -> ConnStates] : \A s, ev : \A c \in Conns :
          Level(Modfd(n, s, ev)[c], n[c]) /\ Level(CloseFd(n, s)[c], n[c])
      BY <1>1 DEF Modfd, CloseFd
<1>4. \A f \in FDs : \A c \in Conns : Level(ReadNet(f)[c], net[c])
      BY <1>1, <1>2 DEF ReadNet
<1> QED BY <1>3, <1>4

\* A step that gives no client anything, and no fd to anybody.
LEMMA SameGot ==
    ASSUME TypeOK, Answering, \A c \in Conns : Level(net'[c], net[c])
    PROVE  /\ \A c \in Conns : OwnGot(net'[c], c)
           /\ \A g \in FDs : sock[g] # None => net'[sock[g]].heir = net[sock[g]].heir
BY DEF TypeOK, Answering, OwnGot, Level

LEMMA EnvironmentAnswers ==
    ASSUME TypeOK, Answering,
           Pass \/ \E c \in Conns : Connect(c) \/ Send(c) \/ Hangup(c) \/ Drain(c)
    PROVE  Answering'
<1>1. UNCHANGED <<users, worker, sock>>
      BY DEF Pass, Connect, Send, Hangup, Drain, Client
<1>2. \A c \in Conns : Level(net'[c], net[c])
      BY EnvironmentNet DEF Alike, Level
<1> QED BY <1>1, <1>2, SameGot, KeepObjects DEF Kept, SameData

\* What read_once() and write() leave in the object and give to the client, if the object
\* holds what is of the connection behind the fd.
LEMMA ReadWriteHolds ==
    ASSUME TypeOK, NEW f \in FDs, users[f].m_sockfd = f, sock[f] # None,
           Holds(users[f], sock[f])
    PROVE  /\ Holds(ReadObject(f), sock[f])
           /\ \A r \in WriteResults(f) :
                  /\ Holds(WriteObject(f, r), sock[f])
                  /\ \A c \in Conns : net[c].got \subseteq {c} =>
                                          WriteNet(f, r)[c].got \subseteq {c}
           /\ \A o, s : Holds(Reset(o, s), sock[f])
<1> DEFINE c == sock[f]
<1>1. users[f] \in Objects /\ net \in [Conns -> ConnStates] /\ Peer(f) = c /\ c \in Conns
      BY DEF TypeOK, Peer
<1>2. Holds(ReadObject(f), c)
  <2> DEFINE q == [i \in DOMAIN net[c].inbox |-> [conn |-> c, kind |-> net[c].inbox[i]]]
  <2>1. q \in Seq(Pieces) /\ users[f].rbuf \in Seq(Pieces) /\ \A i \in DOMAIN q : q[i].conn = c
    <3>1. net[c].inbox \in Seq(Kinds)
          BY <1>1 DEF ConnStates
    <3>2. \A k \in Kinds : [conn |-> c, kind |-> k] \in Pieces
          BY <1>1 DEF Pieces
    <3> QED BY <1>1, <3>1, <3>2 DEF Objects
  <2>2. ReadObject(f) = [users[f] EXCEPT !.rbuf = users[f].rbuf \o q]
        BY <1>1 DEF ReadObject
  <2>3. /\ ReadObject(f).rbuf = users[f].rbuf \o q
        /\ ReadObject(f).resp = users[f].resp
    <3> HIDE DEF q
    <3>1. \A o \in Objects : \A x : /\ [o EXCEPT !.rbuf = x].rbuf = x
                                    /\ [o EXCEPT !.rbuf = x].resp = o.resp
          BY DEF Objects
    <3> QED BY <1>1, <2>2, <3>1
  <2>4. \A i \in DOMAIN (users[f].rbuf \o q) : (users[f].rbuf \o q)[i].conn = c
    <3> HIDE DEF q
    <3> QED BY <2>1 DEF Holds
  <2> QED BY <2>3, <2>4 DEF Holds
<1>3. ASSUME NEW r \in WriteResults(f)
      PROVE  Holds(WriteObject(f, r), c)
  <2>1. \A o \in Objects :
            /\ [o EXCEPT !.resp = None, !.file = None].rbuf = o.rbuf
            /\ [o EXCEPT !.resp = None, !.file = None].resp = None
            /\ [o EXCEPT !.file = None].rbuf = o.rbuf
            /\ [o EXCEPT !.file = None].resp = o.resp
        BY DEF Objects
  <2> QED BY <1>1, <2>1 DEF WriteObject, Holds
<1>4. ASSUME NEW r \in WriteResults(f), NEW d \in Conns, net[d].got \subseteq {d}
      PROVE  WriteNet(f, r)[d].got \subseteq {d}
  <2>1. CASE d # c
        BY <1>1, <1>4, <2>1 DEF WriteNet, Modfd
  <2>2. CASE d = c
    <3>1. r = "sent" => users[f].resp.file = c
          BY <1>1, <1>4 DEF WriteResults, Holds
    <3>2. \A k \in ConnStates : \A x, ev :
              /\ [k EXCEPT !.interest = ev].got = k.got
              /\ [[k EXCEPT !.full = "yes"] EXCEPT !.interest = ev].got = k.got
              /\ [[k EXCEPT !.got = k.got \cup {x}, !.full = "no"] EXCEPT !.interest = ev].got
                     = k.got \cup {x}
          BY DEF ConnStates
    <3>3. CASE r = "sent"
      <4>1. WriteNet(f, r)[c] =
                [[net[c] EXCEPT !.got = net[c].got \cup {users[f].resp.file}, !.full = "no"]
                     EXCEPT !.interest = "in"]
            BY <1>1, <3>3 DEF WriteNet, Modfd
      <4>2. WriteNet(f, r)[c].got = net[c].got \cup {users[f].resp.file}
            BY <1>1, <3>2, <4>1
      <4> QED BY <1>4, <2>2, <3>1, <3>3, <4>2
    <3>4. CASE r = "again"
      <4>1. WriteNet(f, r)[c] = [[net[c] EXCEPT !.full = "yes"] EXCEPT !.interest = "out"]
            BY <1>1, <3>4 DEF WriteNet, Modfd
      <4> QED BY <1>1, <1>4, <2>2, <3>2, <4>1
    <3>5. CASE r = "nothing"
      <4>1. WriteNet(f, r)[c] = [net[c] EXCEPT !.interest = "in"]
            BY <1>1, <3>5 DEF WriteNet, Modfd
      <4> QED BY <1>1, <1>4, <2>2, <3>2, <4>1
    <3>6. CASE r = "error"
          BY <1>4, <3>6 DEF WriteNet
    <3>7. r \in {"sent", "again", "nothing", "error"}
          BY <1>4 DEF WriteResults
    <3> QED BY <3>3, <3>4, <3>5, <3>6, <3>7
  <2> QED BY <2>1, <2>2
<1>5. \A o, s : Holds(Reset(o, s), c)
      BY DEF Reset, NewObject, Holds
<1> QED BY <1>2, <1>3, <1>4, <1>5

\* What they do to the file, and to what clients got.
LEMMA ReadWriteFile ==
    ASSUME TypeOK, NEW f \in FDs
    PROVE  /\ ReadObject(f).file = users[f].file
           /\ \A r : WriteObject(f, r).file \in {users[f].file, None}
           /\ \A o, s : Reset(o, s).file = o.file
<1>1. users[f] \in Objects
      BY DEF TypeOK
<1>2. \A o \in Objects : /\ \A x : [o EXCEPT !.rbuf = x].file = o.file
                         /\ [o EXCEPT !.resp = None, !.file = None].file = None
                         /\ [o EXCEPT !.file = None].file = None
      BY DEF Objects
<1>3. ReadObject(f).file = users[f].file
      BY <1>1, <1>2 DEF ReadObject
<1>4. \A r : WriteObject(f, r).file \in {users[f].file, None}
      BY <1>1, <1>2 DEF WriteObject
<1>5. \A o, s : Reset(o, s).file = o.file
      BY DEF Reset, NewObject
<1> QED BY <1>3, <1>4, <1>5

LEMMA WriteGot ==
    ASSUME TypeOK, Answering, NEW f \in FDs, NEW r \in WriteResults(f)
    PROVE  \A c \in Conns : /\ WriteNet(f, r)[c].heir = net[c].heir
                            /\ OwnGot(WriteNet(f, r)[c], c)
<1>1. users[f].m_sockfd \in {f, -1} /\ \A c \in Conns : OwnGot(net[c], c)
      BY DEF Answering
<1>2. \A c \in Conns : /\ WriteNet(f, r)[c].heir = net[c].heir
                       /\ c # sock[f] => WriteNet(f, r)[c] = net[c]
      BY <1>1, ReadWriteOwn
<1>3. ASSUME NEW c \in Conns, ~net[c].heir
      PROVE  WriteNet(f, r)[c].got \subseteq {c}
  <2>1. net[c].got \subseteq {c}
        BY <1>1, <1>3 DEF OwnGot
  <2>2. CASE c = sock[f]
    <3>1. sock[f] # None /\ Clean(f)
          BY <1>3, <2>2, WebServerAssumption DEF Clean
    <3>2. users[f].m_sockfd = f /\ Holds(users[f], sock[f])
          BY <3>1 DEF Answering, Answers
    <3> QED BY <2>1, <3>1, <3>2, ReadWriteHolds
  <2>3. CASE c # sock[f]
        BY <1>2, <2>1, <2>3
  <2> QED BY <2>2, <2>3
<1> QED BY <1>2, <1>3 DEF OwnGot

LEMMA WorkerAnswers ==
    ASSUME TimerInv, Answering, NEW w \in Workers, Worker(w)
    PROVE  Answering'
<1>0. PICK f : f = worker[w].fd
      OBVIOUS
<1>1. /\ TypeOK /\ net \in [Conns -> ConnStates]
      /\ users \in [FDs -> Objects] /\ sock \in [FDs -> Conns \cup {None}]
      /\ \A g \in FDs : users[g].m_sockfd \in {g, -1}
      /\ 0 \notin FDs
      BY WebServerAssumption DEF TimerInv, TypeOK, Answering, FDs
<1>2. ASSUME \A v \in Workers : v # w => worker'[v] = worker[v],
             worker'[w].pc \notin {"answer", "forget"},
             users' = users, sock' = sock, \A c \in Conns : Level(net'[c], net[c])
      PROVE  Answering'
  <2>1. \A g \in FDs : Kept(g)
        BY <1>1, <1>2, SameGot DEF Kept, SameData
  <2> QED BY <1>1, <1>2, <2>1, SameGot, KeepObjects
<1>3. \A c \in Conns : Level(net[c], net[c])
      BY DEF Level
<1>4. ASSUME worker[w].pc # "idle"
      PROVE  /\ f \in FDs /\ Object(w) = users[f] /\ users[f] \in Objects
             /\ \A pc : Step(w, pc) => /\ worker'[w].fd = f /\ worker'[w].pc = pc
                                       /\ \A v \in Workers : v # w => worker'[v] = worker[v]
             /\ Finish(w) => /\ worker'[w].fd = 0 /\ worker'[w].pc = "idle"
                             /\ \A v \in Workers : v # w => worker'[v] = worker[v]
             /\ \A o : Set(w, o) => /\ users'[f] = o
                                    /\ \A g \in FDs \ {f} : users'[g] = users[g]
  <2>1. f \in FDs /\ Object(w) = users[f] /\ users[f] \in Objects
        BY <1>0, <1>1, <1>4, JobType DEF Object
  <2>2. ASSUME NEW pc, Step(w, pc)
        PROVE  /\ worker'[w].fd = f /\ worker'[w].pc = pc
               /\ \A v \in Workers : v # w => worker'[v] = worker[v]
    <3>1. \A v \in Workers : v # w => worker'[v] = worker[v]
          BY <1>1, <2>2 DEF Step, TypeOK
    <3> QED BY <1>0, <1>1, <1>4, <2>2, <3>1, StepTask
  <2>3. Finish(w) => /\ worker'[w].fd = 0 /\ worker'[w].pc = "idle"
                     /\ \A v \in Workers : v # w => worker'[v] = worker[v]
        BY <1>1 DEF Finish, NoTask, TypeOK
  <2>4. \A o : Set(w, o) => users'[f] = o /\ \A g \in FDs \ {f} : users'[g] = users[g]
        BY <1>0, <1>1, <2>1 DEF Set
  <2> QED BY <2>1, <2>2, <2>3, <2>4
<1>5. ASSUME worker[w].pc # "idle", sock' = sock, NEW pc, NEW o,
             Step(w, pc) \/ (pc = "idle" /\ Finish(w)), Set(w, o),
             \A c \in Conns : net'[c].heir = net[c].heir /\ OwnGot(net'[c], c),
             o.m_sockfd \in {f, -1},
             Clean(f) => /\ o.m_sockfd = f /\ Holds(o, sock[f]) /\ pc # "forget"
                         /\ o.file \in {users[f].file, sock[f], None}
                         /\ pc = "answer" => o.file \in {sock[f], None}
      PROVE  Answering'
  <2>1. /\ f \in FDs /\ worker'[w].fd \in {f, 0} /\ worker'[w].pc = pc
        /\ \A v \in Workers : v # w => worker'[v] = worker[v]
        /\ users'[f] = o /\ \A g \in FDs \ {f} : users'[g] = users[g]
        BY <1>4, <1>5
  <2>2. \A g \in FDs \ {f} : Kept(g)
        BY <1>1, <1>5, <2>1 DEF Kept, SameData
  <2>3. ASSUME Clean(f)'
        PROVE  Answers(f)'
    <3>1. Clean(f) /\ sock'[f] = sock[f]
          BY <1>1, <1>5, <2>1, <2>3 DEF Clean
    <3>2. Answers(f)
          BY <2>1, <3>1 DEF Answering
    <3>3. users'[f].m_sockfd = f /\ Holds(users'[f], sock'[f])
          BY <1>5, <2>1, <3>1
    <3>4. ASSUME NEW v \in Workers, worker'[v].fd = f
          PROVE  /\ worker'[v].pc # "forget"
                 /\ worker'[v].pc = "answer" => users'[f].file \in {sock[f], None}
      <4>1. CASE v = w
            BY <1>5, <2>1, <3>1, <4>1
      <4>2. CASE v # w
        <5>1. worker'[v] = worker[v]
              BY <2>1, <4>2
        <5> QED BY <1>5, <2>1, <3>1, <3>2, <3>4, <5>1 DEF Answers
      <4> QED BY <4>1, <4>2
    <3> QED BY <3>1, <3>3, <3>4 DEF Answers
  <2> QED BY <1>5, <2>1, <2>2, <2>3, KeepAnswers
<1>6. ASSUME UNCHANGED net
      PROVE  \A c \in Conns : net'[c].heir = net[c].heir /\ OwnGot(net'[c], c)
      BY <1>6 DEF Answering
<1>7. f \in FDs /\ Clean(f) => /\ users[f].m_sockfd = f /\ Holds(users[f], sock[f])
                               /\ sock[f] # None
      BY DEF Answering, Answers, Clean
<1>8. CASE Take(w)
  <2>1. /\ \A v \in Workers : v # w => worker'[v] = worker[v]
        /\ worker'[w].pc = "task" /\ UNCHANGED <<users, sock, net>>
        BY <1>1, <1>8 DEF Take, TypeOK
  <2> QED BY <1>2, <1>3, <2>1
<1>9. CASE WorkerRead(w)
  <2>1. PICK pc \in {"read", "failed"} : Step(w, pc)
        BY <1>9 DEF WorkerRead
  <2>2. /\ worker[w].pc # "idle" /\ sock' = sock /\ net' = ReadNet(f)
        /\ Set(w, ReadObject(f))
        BY <1>0, <1>9 DEF WorkerRead
  <2>3. f \in FDs
        BY <1>4, <2>2
  <2>4. \A c \in Conns : net'[c].heir = net[c].heir /\ OwnGot(net'[c], c)
        BY <1>1, <2>2, <2>3, KeepGot DEF Level, Answering, OwnGot
  <2>5. ReadObject(f).m_sockfd = users[f].m_sockfd /\ ReadObject(f).file = users[f].file
        BY <1>1, <2>3, ReadWriteOwn, ReadWriteFile
  <2>6. Clean(f) => Holds(ReadObject(f), sock[f])
        BY <1>1, <1>7, <2>3, ReadWriteHolds
  <2> QED BY <1>1, <1>5, <1>7, <2>1, <2>2, <2>3, <2>4, <2>5, <2>6
<1>10. CASE WorkerWrite(w)
  <2>1. PICK r \in WriteResults(f) :
            /\ net' = WriteNet(f, r) /\ Set(w, WriteObject(f, r))
            /\ Step(w, IF WriteInits(f, r) THEN "init"
                       ELSE IF WriteTrue(f, r) THEN "written" ELSE "failed")
        BY <1>0, <1>10 DEF WorkerWrite
  <2>2. PICK pc \in {"init", "written", "failed"} : Step(w, pc)
        BY <2>1
  <2>3. worker[w].pc # "idle" /\ sock' = sock
        BY <1>10 DEF WorkerWrite
  <2>4. f \in FDs
        BY <1>4, <2>3
  <2>5. \A c \in Conns : net'[c].heir = net[c].heir /\ OwnGot(net'[c], c)
        BY <1>1, <2>1, <2>4, WriteGot
  <2>6. /\ WriteObject(f, r).m_sockfd = users[f].m_sockfd
        /\ WriteObject(f, r).file \in {users[f].file, None}
        BY <1>1, <2>4, ReadWriteOwn, ReadWriteFile
  <2>7. Clean(f) => Holds(WriteObject(f, r), sock[f])
        BY <1>1, <1>7, <2>1, <2>4, ReadWriteHolds
  <2> QED BY <1>1, <1>5, <1>7, <2>1, <2>2, <2>3, <2>4, <2>5, <2>6, <2>7
<1>11. CASE WorkerInit(w)
  <2> DEFINE o == Reset(users[f], users[f].m_sockfd)
  <2>1. worker[w].pc # "idle" /\ UNCHANGED <<net, sock>> /\ Step(w, "written")
        BY <1>11 DEF WorkerInit
  <2>2. f \in FDs /\ Set(w, o)
        BY <1>4, <1>11, <2>1 DEF WorkerInit
  <2>3. o.m_sockfd = users[f].m_sockfd /\ o.file = users[f].file
        BY <1>1, <2>2, ReadWriteOwn, ReadWriteFile
  <2>4. Clean(f) => Holds(o, sock[f])
        BY <1>1, <1>7, <2>2, ReadWriteHolds
  <2> HIDE DEF o
  <2> QED BY <1>1, <1>5, <1>6, <1>7, <2>1, <2>2, <2>3, <2>4
<1>12. CASE SetImprov(w) \/ SetTimerFlag(w)
  <2>1. PICK o : /\ Set(w, o)
                 /\ \/ o = [Object(w) EXCEPT !.improv = 1]
                    \/ o = [Object(w) EXCEPT !.timer_flag = 1]
        BY <1>12 DEF SetImprov, SetTimerFlag
  <2>2. PICK pc \in {"process", "flag", "idle"} : Step(w, pc) \/ (pc = "idle" /\ Finish(w))
        BY <1>12 DEF SetImprov, SetTimerFlag
  <2>3. worker[w].pc # "idle" /\ UNCHANGED <<net, sock>>
        BY <1>12 DEF SetImprov, SetTimerFlag
  <2>4. f \in FDs /\ SameData(o, users[f])
    <3>1. \A x \in Objects : /\ SameData([x EXCEPT !.improv = 1], x)
                             /\ SameData([x EXCEPT !.timer_flag = 1], x)
          BY DEF Objects, SameData
    <3>2. f \in FDs /\ Object(w) = users[f] /\ users[f] \in Objects
          BY <1>4, <2>3
    <3> QED BY <2>1, <3>1, <3>2
  <2>5. /\ o.m_sockfd = users[f].m_sockfd /\ o.file = users[f].file
        /\ Clean(f) => Holds(o, sock[f])
        BY <1>7, <2>4 DEF SameData, Holds
  <2> QED BY <1>1, <1>5, <1>6, <1>7, <2>1, <2>2, <2>3, <2>4, <2>5
<1>13. CASE CloseConn(w)
  <2>1. worker[w].pc # "idle" /\ users' = users /\ f \in FDs /\ Object(w) = users[f]
        BY <1>4, <1>13 DEF CloseConn
  <2>2. CASE users[f].m_sockfd = -1
    <3>1. Step(w, "rearm_out") /\ UNCHANGED <<net, sock>>
          BY <1>13, <2>1, <2>2 DEF CloseConn
    <3> QED BY <1>2, <1>3, <1>4, <2>1, <3>1
  <2>3. CASE users[f].m_sockfd = f /\ f # -1
    <3>1. /\ Step(w, "forget") /\ net' = CloseFd(net, f)
          /\ sock' = [sock EXCEPT ![f] = None]
          BY <1>13, <2>1, <2>3 DEF CloseConn
    <3>2. sock'[f] = None /\ \A g \in FDs \ {f} : sock'[g] = sock[g]
          BY <1>1, <2>1, <3>1
    <3>3. /\ worker'[w].fd = f /\ \A v \in Workers : v # w => worker'[v] = worker[v]
          /\ \A c \in Conns : Level(net'[c], net[c])
          BY <1>1, <1>4, <2>1, <3>1, KeepGot
    <3>4. \A g \in FDs \ {f} : Kept(g)
          BY <1>1, <2>1, <3>2, <3>3, SameGot DEF Kept, SameData
    <3> QED BY <1>1, <2>1, <3>2, <3>3, <3>4, SameGot, KeepAnswers DEF Clean
  <2>4. f # -1
        BY <2>1, WebServerAssumption DEF FDs
  <2> QED BY <1>1, <2>1, <2>2, <2>3, <2>4
<1>14. CASE ForgetSocket(w)
  <2> DEFINE o == [users[f] EXCEPT !.m_sockfd = -1]
  <2>1. /\ worker[w].pc = "forget" /\ UNCHANGED <<net, sock>> /\ Step(w, "rearm_out")
        /\ f \in FDs /\ Set(w, o) /\ o.m_sockfd = -1
    <3>1. \A x \in Objects : [x EXCEPT !.m_sockfd = -1].m_sockfd = -1
          BY DEF Objects
    <3> QED BY <1>4, <1>14, <3>1 DEF ForgetSocket
  <2>2. ~Clean(f)
        BY <1>0, <2>1 DEF Answering, Answers
  <2> HIDE DEF o
  <2> QED BY <1>5, <1>6, <2>1, <2>2
<1>15. CASE ProcessWrite(w)
  <2> DEFINE o == [users[f] EXCEPT !.resp = [file |-> users[f].file]]
  <2>1. worker[w].pc = "answer" /\ Step(w, "rearm_out") /\ UNCHANGED <<net, sock>>
        BY <1>15 DEF ProcessWrite
  <2>2. f \in FDs /\ users[f] \in Objects /\ Set(w, o)
        BY <1>4, <1>15, <2>1 DEF ProcessWrite
  <2>3. /\ o.rbuf = users[f].rbuf /\ o.resp.file = users[f].file
        /\ o.file = users[f].file /\ o.m_sockfd = users[f].m_sockfd
    <3>1. \A x \in Objects : \A r : /\ [x EXCEPT !.resp = r].rbuf = x.rbuf
                                    /\ [x EXCEPT !.resp = r].resp = r
                                    /\ [x EXCEPT !.resp = r].file = x.file
                                    /\ [x EXCEPT !.resp = r].m_sockfd = x.m_sockfd
          BY DEF Objects
    <3> QED BY <2>2, <3>1
  <2> HIDE DEF o
  <2>4. Clean(f) => Holds(o, sock[f])
    <3>1. Clean(f) => users[f].file \in {sock[f], None}
          BY <1>0, <2>1, <2>2 DEF Answering, Answers
    <3> QED BY <1>7, <2>2, <2>3, <3>1 DEF Holds
  <2> QED BY <1>1, <1>5, <1>6, <1>7, <2>1, <2>2, <2>3, <2>4
<1>16. CASE Process(w)
  <2>1. worker[w].pc = "task" \/ worker[w].pc = "process"
        BY <1>16 DEF Process
  <2>2. /\ worker[w].pc # "idle" /\ UNCHANGED <<net, sock>>
        /\ f \in FDs /\ Object(w) = users[f] /\ users[f] \in Objects
        BY <1>4, <1>16, <2>1 DEF Process
  <2>3. CASE Complete(users[f].rbuf) = {}
    <3>1. Step(w, "rearm_in") /\ users' = users
          BY <1>16, <2>2, <2>3 DEF Process
    <3>2. Set(w, users[f])
          BY <1>0, <1>1, <2>2, <3>1 DEF Set
    <3> QED BY <1>1, <1>5, <1>6, <1>7, <2>2, <3>1, <3>2
  <2>4. CASE Complete(users[f].rbuf) # {}
    <3>1. PICK i \in Complete(Object(w).rbuf) : Parsed(w, Object(w).rbuf[i].kind)
          BY <1>16, <2>2, <2>4 DEF Process
    <3>2. 1 \in DOMAIN users[f].rbuf
      <4>1. users[f].rbuf \in Seq(Pieces) /\ i \in DOMAIN users[f].rbuf
            BY <2>2, <3>1 DEF Complete, Objects
      <4> QED BY <4>1
    <3> DEFINE c == Object(w).rbuf[1].conn
               l == Object(w).m_linger \/ Object(w).rbuf[i].kind = "keep"
               p == [Object(w) EXCEPT !.rbuf = <<>>, !.m_linger = l]
               o == [p EXCEPT !.file = c]
    <3>3. (Step(w, "answer") /\ Set(w, o)) \/ (Step(w, "close") /\ Set(w, p))
          BY <3>1 DEF Parsed
    <3>4. /\ o.rbuf = <<>> /\ o.resp = users[f].resp /\ o.file = c
          /\ p.rbuf = <<>> /\ p.resp = users[f].resp /\ p.file = users[f].file
          /\ o.m_sockfd = users[f].m_sockfd /\ p.m_sockfd = users[f].m_sockfd
      <4>1. \A x \in Objects : \A m, d :
                LET y == [x EXCEPT !.rbuf = <<>>, !.m_linger = m]
                IN  /\ y.rbuf = <<>> /\ y.resp = x.resp /\ y.file = x.file
                    /\ y.m_sockfd = x.m_sockfd
                    /\ [y EXCEPT !.file = d].rbuf = <<>>
                    /\ [y EXCEPT !.file = d].resp = x.resp
                    /\ [y EXCEPT !.file = d].file = d
                    /\ [y EXCEPT !.file = d].m_sockfd = x.m_sockfd
            BY DEF Objects
      <4> HIDE DEF c, l
      <4> QED BY <2>2, <4>1
    <3>5. Clean(f) => Holds(users[f], sock[f]) /\ c = sock[f]
          BY <1>7, <2>2, <3>2 DEF Holds
    <3> HIDE DEF o, c, p
    <3>6. Clean(f) => Holds(o, sock[f]) /\ Holds(p, sock[f]) /\ o.file = sock[f]
          BY <3>4, <3>5 DEF Holds
    <3>7. CASE Step(w, "answer") /\ Set(w, o)
          BY <1>1, <1>5, <1>6, <1>7, <2>2, <3>4, <3>6, <3>7
    <3>8. CASE Step(w, "close") /\ Set(w, p)
          BY <1>1, <1>5, <1>6, <1>7, <2>2, <3>4, <3>6, <3>8
    <3> QED BY <3>3, <3>7, <3>8
  <2> QED BY <2>3, <2>4
<1>17. CASE Rearm(w)
  <2>1. worker[w].pc # "idle" /\ Finish(w) /\ UNCHANGED <<users, sock>>
        BY <1>17 DEF Rearm
  <2>2. \A c \in Conns : Level(net'[c], net[c])
        BY <1>1, <1>17, KeepGot DEF Rearm
  <2> QED BY <1>2, <1>4, <2>1, <2>2
<1> QED BY <1>8, <1>9, <1>10, <1>11, <1>12, <1>13, <1>14, <1>15, <1>16, <1>17 DEF Worker

\* Handling an event for fd f, or the flags a worker has set in f's object.
LEMMA HandlerAnswers ==
    ASSUME TimerInv, Answering, NEW f \in FDs, worker' = worker,
           \/ /\ deal_timer(net, f)
              /\ users' \in {users, [users EXCEPT ![f].timer_flag = 0]}
           \/ ReadHere(f) \/ WriteHere(f)
    PROVE  Answering'
<1>1. /\ TypeOK /\ net \in [Conns -> ConnStates] /\ users \in [FDs -> Objects]
      /\ sock \in [FDs -> Conns \cup {None}] /\ users[f].m_sockfd \in {f, -1}
      /\ \A c \in Conns : OwnGot(net[c], c) /\ Level(net[c], net[c])
      BY DEF TimerInv, TypeOK, Answering, Level
<1>2. Clean(f) => users[f].m_sockfd = f /\ sock[f] # None /\ Holds(users[f], sock[f])
      BY DEF Clean, Answering, Answers
<1>3. ASSUME NEW n \in [Conns -> ConnStates], \A c \in Conns : n[c].heir = net[c].heir,
             \A c \in Conns : OwnGot(n[c], c), \A g \in FDs \ {f} : users'[g] = users[g],
             users'[f].m_sockfd = users[f].m_sockfd, deal_timer(n, f)
      PROVE  Answering'
  <2>1. sock' = [sock EXCEPT ![f] = None] /\ net' = CloseFd(n, f)
        BY <1>3 DEF deal_timer, Callback
  <2>2. sock'[f] = None /\ \A g \in FDs \ {f} : sock'[g] = sock[g]
        BY <1>1, <2>1
  <2>3. \A c \in Conns : Level(net'[c], n[c])
        BY <1>1, <2>1, KeepGot
  <2>4. \A c \in Conns : OwnGot(net'[c], c)
        BY <1>3, <2>3 DEF OwnGot, Level
  <2>5. \A g \in FDs \ {f} : Kept(g)
        BY <1>1, <1>3, <2>2, <2>3 DEF Kept, SameData, Level
  <2>6. ~Clean(f)'
        BY <2>2 DEF Clean
  <2> QED BY <1>1, <1>3, <2>4, <2>5, <2>6, KeepAnswers
<1>4. ASSUME \A c \in Conns : net'[c].heir = net[c].heir /\ OwnGot(net'[c], c),
             \A g \in FDs \ {f} : users'[g] = users[g], sock' = sock,
             users'[f].m_sockfd = users[f].m_sockfd,
             Clean(f) => Holds(users'[f], sock[f]) /\ users'[f].file \in {users[f].file, None}
      PROVE  Answering'
  <2>1. \A g \in FDs \ {f} : Kept(g)
        BY <1>1, <1>4 DEF Kept, SameData
  <2>2. Clean(f)' => Clean(f)
        BY <1>1, <1>4 DEF Clean
  <2>3. Clean(f)' => Answers(f)'
        BY <1>4, <2>2 DEF Answering, Answers
  <2> QED BY <1>1, <1>4, <2>1, <2>3, KeepAnswers
<1>5. CASE deal_timer(net, f) /\ users' \in {users, [users EXCEPT ![f].timer_flag = 0]}
  <2>1. \A o \in Objects : [o EXCEPT !.timer_flag = 0].m_sockfd = o.m_sockfd
        BY DEF Objects
  <2>2. /\ users'[f].m_sockfd = users[f].m_sockfd
        /\ \A g \in FDs \ {f} : users'[g] = users[g]
        BY <1>1, <1>5, <2>1
  <2> QED BY <1>1, <1>3, <1>5, <2>2
<1>6. CASE ReadHere(f)
  <2>1. users' = [users EXCEPT ![f] = ReadObject(f)]
        BY <1>6 DEF ReadHere
  <2>2. /\ users'[f] = ReadObject(f) /\ \A g \in FDs \ {f} : users'[g] = users[g]
        /\ users'[f].m_sockfd = users[f].m_sockfd /\ users'[f].file = users[f].file
        BY <1>1, <2>1, ReadWriteOwn, ReadWriteFile
  <2>3. CASE ReadOK(f)
    <3>1. net' = ReadNet(f) /\ sock' = sock
          BY <1>6, <2>3 DEF ReadHere
    <3>2. \A c \in Conns : Level(net'[c], net[c])
          BY <1>1, <3>1, KeepGot
    <3>3. \A c \in Conns : net'[c].heir = net[c].heir /\ OwnGot(net'[c], c)
          BY <1>1, <3>2 DEF Level, OwnGot
    <3>4. Clean(f) => Holds(users'[f], sock[f])
          BY <1>1, <1>2, <2>2, ReadWriteHolds
    <3> QED BY <1>4, <2>2, <3>1, <3>3, <3>4
  <2>4. CASE ~ReadOK(f)
    <3>1. deal_timer(net, f)
          BY <1>6, <2>4 DEF ReadHere
    <3> QED BY <1>1, <1>3, <2>2, <3>1
  <2> QED BY <2>3, <2>4
<1>7. CASE WriteHere(f)
  <2>1. PICK r \in WriteResults(f) :
           /\ users' = [users EXCEPT ![f] =
                           IF WriteInits(f, r) THEN Reset(WriteObject(f, r), @.m_sockfd)
                           ELSE WriteObject(f, r)]
           /\ IF WriteTrue(f, r)
              THEN /\ net' = WriteNet(f, r)
                   /\ timers' = Adjusted(f)
                   /\ UNCHANGED <<sock, user_timer, m_user_count>>
              ELSE deal_timer(WriteNet(f, r), f)
        BY <1>7 DEF WriteHere
  <2>2. /\ Clean(f) => Holds(users'[f], sock[f])
        /\ users'[f].file \in {users[f].file, None}
        /\ users'[f].m_sockfd = users[f].m_sockfd
        /\ \A g \in FDs \ {f} : users'[g] = users[g]
    <3>1. Clean(f) => /\ Holds(WriteObject(f, r), sock[f])
                      /\ Holds(Reset(WriteObject(f, r), users[f].m_sockfd), sock[f])
          BY <1>1, <1>2, ReadWriteHolds
    <3>2. /\ \/ users'[f] = WriteObject(f, r)
             \/ users'[f] = Reset(WriteObject(f, r), users[f].m_sockfd)
          /\ \A g \in FDs \ {f} : users'[g] = users[g]
          BY <1>1, <2>1
    <3> QED BY <1>1, <3>1, <3>2, ReadWriteOwn, ReadWriteFile
  <2>3. WriteNet(f, r) \in [Conns -> ConnStates]
        BY <1>1, WriteNetType
  <2>4. \A c \in Conns : WriteNet(f, r)[c].heir = net[c].heir /\ OwnGot(WriteNet(f, r)[c], c)
        BY <1>1, WriteGot
  <2>5. CASE WriteTrue(f, r)
    <3>1. net' = WriteNet(f, r) /\ sock' = sock
          BY <2>1, <2>5
    <3> QED BY <1>4, <2>2, <2>4, <3>1
  <2>6. CASE ~WriteTrue(f, r)
    <3>1. deal_timer(WriteNet(f, r), f)
          BY <2>1, <2>6
    <3> QED BY <1>3, <2>2, <2>3, <2>4, <3>1
  <2> QED BY <2>5, <2>6
<1> QED BY <1>5, <1>6, <1>7

LEMMA MainAnswers ==
    ASSUME TimerInv, Answering, Main
    PROVE  Answering'
<1>1. /\ TypeOK /\ net \in [Conns -> ConnStates]
      /\ users \in [FDs -> Objects] /\ sock \in [FDs -> Conns \cup {None}]
      BY DEF TimerInv, TypeOK
<1>2. worker' = worker
      BY DEF Main, EpollWait, deal_clentdata, Look, ClearImprov, Dispatch, BatchDone,
             TickDone, TickOne
<1>3. ASSUME \A g \in FDs : SameData(users'[g], users[g]),
             \A g \in FDs : sock'[g] \in {sock[g], None},
             \A c \in Conns : Level(net'[c], net[c])
      PROVE  Answering'
  <2>1. \A g \in FDs : Kept(g)
        BY <1>1, <1>2, <1>3, SameGot DEF Kept
  <2> QED BY <1>1, <1>3, <2>1, SameGot, KeepObjects
<1>4. ASSUME users' = users, \A g \in FDs : sock'[g] \in {sock[g], None},
             \A c \in Conns : Level(net'[c], net[c])
      PROVE  Answering'
      BY <1>3, <1>4 DEF SameData
<1>5. ASSUME UNCHANGED <<net, sock>>, NEW g \in FDs, NEW o,
             users' = users \/ (users' = [users EXCEPT ![g] = o] /\ SameData(o, users[g]))
      PROVE  Answering'
  <2>1. \A h \in FDs : SameData(users'[h], users[h])
        BY <1>1, <1>5 DEF SameData
  <2> QED BY <1>3, <1>5, <2>1 DEF Level
<1>6. \A o \in Objects : /\ \A s : SameData([o EXCEPT !.m_state = s], o)
                         /\ SameData([o EXCEPT !.improv = 0], o)
      BY DEF Objects, SameData
<1>7. CASE BatchDone \/ TickDone
      BY <1>4, <1>7 DEF BatchDone, TickDone, Level
<1>8. CASE EpollWait
  <2>1. /\ UNCHANGED <<sock, users>>
        /\ net' = [c \in Conns |-> IF \E e \in Ready : e.fd # 0 /\ sock[e.fd] = c
                                   THEN [net[c] EXCEPT !.interest = "off"] ELSE net[c]]
        BY <1>8 DEF EpollWait
  <2>2. \A k \in ConnStates : Level([k EXCEPT !.interest = "off"], k) /\ Level(k, k)
        BY DEF ConnStates, Level
  <2>3. \A c \in Conns : Level(net'[c], net[c])
        BY <1>1, <2>1, <2>2
  <2> QED BY <1>4, <2>1, <2>3
<1>9. CASE Look
  <2>1. main.fd \in FDs
        BY <1>1, <1>9 DEF Look, TypeOK, MainStates
  <2>2. \/ deal_timer(net, main.fd) /\ users' = [users EXCEPT ![main.fd].timer_flag = 0]
        \/ UNCHANGED <<net, sock, users>>
        BY <1>9 DEF Look
  <2> QED BY <1>2, <1>5, <2>1, <2>2, HandlerAnswers
<1>10. CASE ClearImprov
  <2>1. main.fd \in FDs
        BY <1>1, <1>10 DEF ClearImprov, TypeOK, MainStates
  <2>2. /\ UNCHANGED <<net, sock>>
        /\ users' = [users EXCEPT ![main.fd] = [users[main.fd] EXCEPT !.improv = 0]]
        BY <1>10 DEF ClearImprov
  <2> QED BY <1>1, <1>5, <1>6, <2>1, <2>2
<1>11. CASE Dispatch
  <2>1. PICK e \in events :
         \/ e.ev \in {"listen", "signal"} /\ UNCHANGED <<net, sock, users>>
         \/ /\ e.ev \in {"hup", "in", "out"}
            /\ \/ deal_timer(net, e.fd) /\ UNCHANGED users
               \/ ReadHere(e.fd)
               \/ WriteHere(e.fd)
               \/ \E s, pc : Delegate(e.fd, s, pc)
        BY <1>11 DEF Dispatch, deal_read, deal_write
  <2>2. CASE UNCHANGED <<net, sock, users>>
        BY <1>4, <2>2 DEF Level
  <2>3. CASE e.ev \in {"hup", "in", "out"}
    <3>1. e.fd \in FDs
          BY <1>1, <2>3 DEF TypeOK, Events
    <3>2. ASSUME NEW s, NEW pc, Delegate(e.fd, s, pc)
          PROVE  Answering'
      <4>1. /\ UNCHANGED <<net, sock>>
            /\ \/ users' = users
               \/ users' = [users EXCEPT ![e.fd] = [users[e.fd] EXCEPT !.m_state = s]]
            BY <3>2 DEF Delegate
      <4> QED BY <1>1, <1>5, <1>6, <3>1, <4>1
    <3> QED BY <1>2, <2>1, <2>3, <3>1, <3>2, HandlerAnswers
  <2> QED BY <2>1, <2>2, <2>3
<1>12. CASE deal_clentdata
  <2>1. CASE Backlog = {} \/ FreeFDs = {}
        BY <1>4, <1>12, <2>1 DEF deal_clentdata, Level
  <2>2. CASE ~(Backlog = {} \/ FreeFDs = {})
    <3>1. PICK c \in Backlog, f \in FreeFDs : Accepted(c, f)
          BY <1>12, <2>2 DEF deal_clentdata
    <3>2. /\ c \in Conns /\ f \in FDs /\ \A g \in FDs : sock[g] # c
          BY <3>1 DEF Backlog, FreeFDs, TimerInv, FreshInv, Fresh
    <3>3. CASE m_user_count >= MaxUsers
      <4>1. UNCHANGED <<sock, users>> /\ net' = [net EXCEPT ![c] = Shut(net[c])]
            BY <3>1, <3>3 DEF Accepted
      <4>2. \A k \in ConnStates : Level(Shut(k), k) /\ Level(k, k)
            BY DEF ConnStates, Shut, NewConn, Level
      <4>3. \A d \in Conns : Level(net'[d], net[d])
            BY <1>1, <3>2, <4>1, <4>2
      <4> QED BY <1>4, <4>1, <4>3
    <3>4. CASE ~(m_user_count >= MaxUsers)
      <4>1. /\ net' = [net EXCEPT ![c] = Opened(net[c], f)]
            /\ sock' = [sock EXCEPT ![f] = c]
            /\ users' = [users EXCEPT ![f] = Reset(users[f], f)]
            BY <3>1, <3>4 DEF Accepted
      <4>2. /\ sock'[f] = c /\ users'[f] = Reset(users[f], f) /\ users'[f].m_sockfd = f
            /\ \A g \in FDs \ {f} : sock'[g] = sock[g] /\ users'[g] = users[g]
        <5>1. Reset(users[f], f).m_sockfd = f
              BY DEF Reset, NewObject
        <5> QED BY <1>1, <3>2, <4>1, <5>1
      <4>3. /\ net'[c].got = net[c].got /\ (net[c].heir \/ Busy(f) => net'[c].heir)
            /\ \A d \in Conns \ {c} : net'[d] = net[d]
        <5>1. \A k \in ConnStates : /\ Opened(k, f).got = k.got
                                    /\ k.heir \/ Busy(f) => Opened(k, f).heir
              BY DEF ConnStates, Opened
        <5> QED BY <1>1, <3>2, <4>1, <5>1
      <4>4. \A d \in Conns : OwnGot(net'[d], d)
            BY <4>3 DEF Answering, OwnGot
      <4>5. \A g \in FDs \ {f} : Kept(g)
            BY <1>1, <1>2, <3>2, <4>2, <4>3 DEF Kept, SameData
      <4>6. ASSUME Clean(f)'
            PROVE  Answers(f)'
        <5>1. \A w \in Workers : worker'[w].fd # f
              BY <1>2, <4>2, <4>3, <4>6 DEF Clean, Busy, AtWork
        <5>2. \A o, s, d : Holds(Reset(o, s), d)
              BY DEF Reset, NewObject, Holds
        <5> QED BY <4>2, <5>1, <5>2 DEF Answers
      <4> QED BY <4>2, <4>4, <4>5, <4>6, KeepAnswers
    <3> QED BY <3>3, <3>4
  <2> QED BY <2>1, <2>2
<1>13. ASSUME NEW i \in Conns, TickOne(i)
       PROVE  Answering'
  <2>1. /\ sock' = [sock EXCEPT ![timers[i].fd] = None] /\ net' = CloseFd(net, timers[i].fd)
        /\ users' = users
        BY <1>13 DEF TickOne, Callback
  <2>2. \A g \in FDs : sock'[g] \in {sock[g], None}
        BY <1>1, <2>1
  <2>3. \A c \in Conns : Level(net'[c], net[c])
        BY <1>1, <2>1, KeepGot
  <2> QED BY <1>4, <2>1, <2>2, <2>3
<1> QED BY <1>7, <1>8, <1>9, <1>10, <1>11, <1>12, <1>13 DEF Main

LEMMA NextAnswerInv == AnswerInv /\ [Next]_vars => AnswerInv'
<1> SUFFICES ASSUME AnswerInv, [Next]_vars PROVE AnswerInv'
    OBVIOUS
<1>1. TimerInv /\ TimerInv' /\ Answering /\ TypeOK
      BY NextTimerInv DEF AnswerInv, TimerInv
<1>2. CASE Next
  <2>1. CASE Pass \/ \E c \in Conns : Connect(c) \/ Send(c) \/ Hangup(c) \/ Drain(c)
        BY <1>1, <2>1, EnvironmentAnswers DEF AnswerInv
  <2>2. CASE Main
        BY <1>1, <2>2, MainAnswers DEF AnswerInv
  <2>3. CASE \E w \in Workers : Worker(w)
        BY <1>1, <2>3, WorkerAnswers DEF AnswerInv
  <2> QED BY <1>2, <2>1, <2>2, <2>3 DEF Next
<1>3. CASE UNCHANGED vars
      BY <1>1, <1>3, KeepObjects DEF vars, Kept, SameData, Answering, AnswerInv
<1> QED BY <1>2, <1>3

\* A client that did not take over an fd somebody had still to handle gets answers to its
\* own requests only, in Proactor and in Reactor, whoever had its fd and its http_conn
\* object before, and however many threads are at the object.
THEOREM OwnAnswers == Spec => []RightClient
<1>1. AnswerInv => RightClient
      BY DEF AnswerInv, Answering, OwnGot, RightClient
<1> QED BY <1>1, InitAnswerInv, NextAnswerInv, PTL DEF Spec
=============================================================================
