------------------------- MODULE KumaConnectionProofs -------------------------
(***************************************************************************)
(* Proofs about KumaConnection, for any number of callers, connections and *)
(* outside events.  IInv says what the holder of mu is doing and what is   *)
(* known of the connection a call runs on; the safety properties follow.   *)
(***************************************************************************)
EXTENDS KumaConnection, TLAPS

(* Only the holder of mu dials or marks the connection down, and while it  *)
(* does there is no connection.                                            *)
LockInv ==
    /\ \A p \in Callers : pc[p] \in {"dial", "mark"} => mu = p /\ current = 0
    /\ mu \in Callers => pc[mu] \in {"dial", "mark"}

(* What callers run on, discard or hold was dialled once; what they        *)
(* discard has failed a call.                                              *)
ConnInv ==
    /\ \A c \in faulted : conns[c] # "unused"
    /\ current # 0 => conns[current] # "unused"
    /\ \A p \in Callers :
          /\ used[p] # 0 => conns[used[p]] # "unused"
          /\ pc[p] \in {"check", "mark"} => used[p] \in faulted

(* As DownAgrees, but while the prober holds mu, too: it only looks.       *)
DownInv == mu \in {Free, Prober} => (down = "none" <=> current # 0)

(* While a connection is down there is none, also under mu.                *)
IInv == TypeOK /\ LockInv /\ ConnInv /\ DownInv /\ ClosedOnce

LEMMA InitInv == Init => IInv
<1> SUFFICES ASSUME Init PROVE IInv
  OBVIOUS
<1>1. TypeOK
  <2>1. server \in BOOLEAN /\ ctxDone \in BOOLEAN /\ answer \in BOOLEAN
    BY DEF Init
  <2>2. 1 \in Conns
    BY BoundAssumption DEF Conns
  <2>3. /\ conns \in [Conns -> {"unused", "open", "broken"}]
        /\ closes \in [Conns -> Nat] /\ left \in [Events -> Nat]
    BY BoundAssumption DEF Init
  <2>4. /\ pc \in [Callers -> {"idle", "get", "dial", "call", "check", "mark"}]
        /\ used \in [Callers -> Conns \cup {0}]
        /\ \A p \in Callers : pc[p] \in {"call", "check", "mark"} => used[p] # 0
    BY DEF Init
  <2>5. /\ faulted \in SUBSET Conns /\ current \in Conns \cup {0}
        /\ mu \in Holders \cup {Free} /\ down \in {"none", "dial", "lost"}
        /\ probe \in {"idle", "try"}
    BY <2>2 DEF Init
  <2> QED
    BY <2>1, <2>3, <2>4, <2>5 DEF TypeOK
<1>2. LockInv
  BY HolderAssumption DEF Init, LockInv
<1>3. ConnInv /\ DownInv
  BY BoundAssumption DEF Init, ConnInv, DownInv, Conns
<1>4. ClosedOnce
  BY BoundAssumption DEF Init, ClosedOnce, Closing, Conns
<1> QED
  BY <1>1, <1>2, <1>3, <1>4 DEF IInv

LEMMA StutterInv == ASSUME IInv, UNCHANGED vars PROVE IInv'
BY DEF IInv, TypeOK, LockInv, ConnInv, DownInv, ClosedOnce, Closing, vars,
       client, world

(* Steps that only move a caller from one stage to another outside mu.     *)
LEMMA StartInv == ASSUME IInv, NEW p \in Callers, Start(p) PROVE IInv'
BY HolderAssumption DEF IInv, TypeOK, LockInv, ConnInv, DownInv, ClosedOnce,
   Closing, Start, Goto, world

LEMMA AnsweredInv == ASSUME IInv, NEW p \in Callers, CallAnswered(p) PROVE IInv'
BY HolderAssumption DEF IInv, TypeOK, LockInv, ConnInv, DownInv, ClosedOnce,
   Closing, CallAnswered, Goto, world

LEMMA StaleInv == ASSUME IInv, NEW p \in Callers, CheckStale(p) PROVE IInv'
BY HolderAssumption DEF IInv, TypeOK, LockInv, ConnInv, DownInv, ClosedOnce,
   Closing, CheckStale, Goto, world

LEMMA GetInv == ASSUME IInv, NEW p \in Callers, Get(p) PROVE IInv'
BY HolderAssumption DEF IInv, TypeOK, LockInv, ConnInv, DownInv, ClosedOnce,
   Closing, Get, Available, Goto, world

LEMMA DialBeginInv == ASSUME IInv, NEW p \in Callers, DialBegin(p) PROVE IInv'
BY HolderAssumption DEF IInv, TypeOK, LockInv, ConnInv, DownInv, ClosedOnce,
   Closing, DialBegin, Available, Goto, world, Holders

(* A call that reports its connection lost ran on one that failed.         *)
LEMMA CallFailsInv == ASSUME IInv, NEW p \in Callers, CallFails(p) PROVE IInv'
<1>1. PICK kind \in {"transport", "cancelled", "timeout", "rejected"} :
         /\ \/ conns[used[p]] = "broken" /\ faulted' = faulted \cup {used[p]}
               /\ UNCHANGED left
            \/ conns[used[p]] = "open" /\ kind = "timeout"
               /\ faulted' = faulted \cup {used[p]} /\ Spend("slow")
            \/ conns[used[p]] = "open" /\ kind = "cancelled" /\ ctxDone
               /\ UNCHANGED <<faulted, left>>
            \/ conns[used[p]] = "open" /\ kind = "rejected"
               /\ UNCHANGED <<faulted, left>>
         /\ Goto(p, IF ConnectionLost(kind) THEN "check" ELSE "idle")
  BY DEF CallFails
<1>2. /\ pc[p] = "call" /\ used[p] \in Conns
      /\ UNCHANGED <<current, mu, down, used, probe, answer, closes, server,
                     conns, ctxDone>>
  BY DEF CallFails, IInv, TypeOK
<1>3. left' \in [Events -> Nat]
  BY <1>1 DEF Spend, IInv, TypeOK, Events
<1>4. /\ faulted' \in SUBSET Conns /\ faulted \subseteq faulted'
      /\ \A c \in faulted' : c \in faulted \/ c = used[p]
      /\ conns[used[p]] # "unused"
  BY <1>1, <1>2 DEF IInv, TypeOK
<1>5. pc' = [pc EXCEPT ![p] = "check"] \/ pc' = [pc EXCEPT ![p] = "idle"]
  BY <1>1 DEF Goto
<1>6. pc'[p] = "check" => used[p] \in faulted'
  BY <1>1, <1>2 DEF Goto, ConnectionLost, IInv, TypeOK
<1>7. TypeOK'
  BY <1>2, <1>3, <1>4, <1>5 DEF IInv, TypeOK
<1>8. LockInv' /\ DownInv'
  BY <1>2, <1>5, HolderAssumption DEF IInv, TypeOK, LockInv, DownInv
<1>9. ConnInv'
  BY <1>2, <1>4, <1>5, <1>6 DEF IInv, TypeOK, ConnInv
<1>10. ClosedOnce'
  BY <1>2, <1>5 DEF IInv, TypeOK, ClosedOnce, Closing
<1> QED
  BY <1>7, <1>8, <1>9, <1>10 DEF IInv

(* The discarded connection moves from "in use" to "being closed".         *)
LEMMA DiscardInv == ASSUME IInv, NEW p \in Callers, Discard(p) PROVE IInv'
<1>1. /\ pc[p] = "check" /\ mu = Free /\ current = used[p] /\ current' = 0
      /\ mu' = p /\ pc' = [pc EXCEPT ![p] = "mark"]
      /\ UNCHANGED <<down, used, probe, answer, closes, world>>
  BY DEF Discard, IsCurrent, KeepLock, Goto
<1>2. TypeOK'
  BY <1>1 DEF IInv, TypeOK, world, Holders
<1>3. LockInv' /\ DownInv'
  BY <1>1, HolderAssumption DEF IInv, TypeOK, LockInv, DownInv
<1>4. ConnInv'
  BY <1>1 DEF IInv, TypeOK, ConnInv, world
<1>5. ASSUME NEW c \in Conns
      PROVE  closes'[c] = IF conns'[c] = "unused" \/ current' = c
                             \/ \E q \in Callers : pc'[q] = "mark" /\ used'[q] = c
                          THEN 0 ELSE 1
  <2>1. c # 0 /\ closes[c] = IF conns[c] = "unused" \/ current = c \/ Closing(c)
                             THEN 0 ELSE 1
    BY DEF IInv, ClosedOnce, Conns
  <2>2. (\E q \in Callers : pc'[q] = "mark" /\ used'[q] = c)
           <=> current = c \/ Closing(c)
    BY <1>1 DEF IInv, TypeOK, Closing
  <2> QED
    BY <1>1, <2>1, <2>2 DEF world
<1> QED
  BY <1>2, <1>3, <1>4, <1>5 DEF IInv, ClosedOnce, Closing

(* Nobody else is closing: marking needs mu.                               *)
LEMMA MarkDownInv == ASSUME IInv, NEW p \in Callers, MarkDown(p) PROVE IInv'
<1>1. /\ pc[p] = "mark" /\ mu = p /\ current = 0 /\ mu' = Free
      /\ down' = "lost" /\ closes' = [closes EXCEPT ![used[p]] = @ + 1]
      /\ pc' = [pc EXCEPT ![p] = "idle"]
      /\ UNCHANGED <<current, used, probe, answer, world>>
  BY DEF MarkDown, Unlock, Goto, IInv, LockInv
<1>2. used[p] \in Conns /\ conns[used[p]] # "unused"
  BY <1>1 DEF IInv, TypeOK, ConnInv
<1>3. \A q \in Callers : pc[q] = "mark" => q = p
  BY <1>1 DEF IInv, LockInv
<1>4. TypeOK'
  <2>1. closes' \in [Conns -> Nat]
    <3>1. closes \in [Conns -> Nat] /\ closes[used[p]] + 1 \in Nat
      BY <1>2 DEF IInv, TypeOK
    <3> QED
      BY <1>1, <3>1
  <2>2. /\ pc' \in [Callers -> {"idle", "get", "dial", "call", "check", "mark"}]
        /\ \A q \in Callers : pc'[q] \in {"call", "check", "mark"} => used'[q] # 0
    BY <1>1 DEF IInv, TypeOK
  <2> QED
    BY <1>1, <2>1, <2>2 DEF IInv, TypeOK, world
<1>5. LockInv' /\ DownInv'
  BY <1>1, <1>3, HolderAssumption DEF IInv, TypeOK, LockInv, DownInv
<1>6. ConnInv'
  BY <1>1 DEF IInv, TypeOK, ConnInv, world
<1>7. ASSUME NEW c \in Conns
      PROVE  closes'[c] = IF conns'[c] = "unused" \/ current' = c
                             \/ \E q \in Callers : pc'[q] = "mark" /\ used'[q] = c
                          THEN 0 ELSE 1
  <2>1. ~\E q \in Callers : pc'[q] = "mark" /\ used'[q] = c
    BY <1>1, <1>3 DEF IInv, TypeOK
  <2>2. c # 0 /\ closes[c] = IF conns[c] = "unused" \/ current = c \/ Closing(c)
                             THEN 0 ELSE 1
    BY DEF IInv, ClosedOnce, Conns
  <2>3. Closing(c) <=> c = used[p]
    BY <1>1, <1>3 DEF Closing
  <2>4. closes'[c] = IF c = used[p] THEN closes[c] + 1 ELSE closes[c]
    BY <1>1 DEF IInv, TypeOK
  <2> QED
    BY <1>1, <1>2, <2>1, <2>2, <2>3, <2>4 DEF world
<1> QED
  BY <1>4, <1>5, <1>6, <1>7 DEF IInv, ClosedOnce, Closing

(* Whoever dials has mu, so nobody else is dialling or marking.            *)
LEMMA DialerAlone ==
  ASSUME IInv, NEW h \in Holders, Dialing(h)
  PROVE  /\ mu = h /\ current = 0 /\ h # Free
         /\ \A q \in Callers : pc[q] \in {"dial", "mark"} => q = h /\ pc[q] = "dial"
         /\ h \in Callers => pc[h] = "dial"
BY HolderAssumption DEF Dialing, Available, IInv, LockInv, Holders

LEMMA DialSucceedsInv ==
  ASSUME IInv, NEW h \in Holders, DialSucceeds(h) PROVE IInv'
<1>1. Dialing(h)
  BY DEF DialSucceeds
<1>2. PICK c \in Conns :
         /\ conns[c] = "unused" /\ conns' = [conns EXCEPT ![c] = "open"]
         /\ current' = c /\ Proceed(h, c)
  BY DEF DialSucceeds
<1>3. /\ down' = "none" /\ mu' = Free
      /\ UNCHANGED <<probe, answer, closes, server, faulted, ctxDone, left>>
  BY DEF DialSucceeds
<1>4. c # 0 /\ c \notin faulted /\ \A q \in Callers : used[q] # c
  BY <1>2 DEF IInv, ConnInv, Conns
<1>5. \/ h \notin Callers /\ pc' = pc /\ used' = used
      \/ h \in Callers /\ pc' = [pc EXCEPT ![h] = "call"]
         /\ used' = [used EXCEPT ![h] = c]
  BY <1>2, <1>4, HolderAssumption DEF Proceed, Goto, Holders
<1>6. \A q \in Callers : pc'[q] \notin {"dial", "mark"}
  BY <1>1, <1>5, DialerAlone DEF IInv, TypeOK
<1>7. \A d \in Conns : conns'[d] = IF d = c THEN "open" ELSE conns[d]
  BY <1>2 DEF IInv, TypeOK
<1>8. TypeOK'
  BY <1>2, <1>3, <1>4, <1>5 DEF IInv, TypeOK
<1>9. LockInv' /\ DownInv'
  BY <1>2, <1>3, <1>4, <1>6, HolderAssumption DEF LockInv, DownInv
<1>10. ConnInv'
  BY <1>2, <1>3, <1>4, <1>5, <1>6, <1>7 DEF IInv, TypeOK, ConnInv
<1>11. ASSUME NEW d \in Conns
       PROVE  closes'[d] = IF conns'[d] = "unused" \/ current' = d
                              \/ \E q \in Callers : pc'[q] = "mark" /\ used'[q] = d
                           THEN 0 ELSE 1
  <2>1. closes[d] = IF conns[d] = "unused" \/ current = d \/ Closing(d)
                    THEN 0 ELSE 1
    BY DEF IInv, ClosedOnce
  <2>2. ~Closing(d) /\ current # d
    BY <1>1, DialerAlone DEF Closing, Conns
  <2> QED
    BY <1>2, <1>3, <1>6, <1>7, <2>1, <2>2
<1> QED
  BY <1>8, <1>9, <1>10, <1>11 DEF IInv, ClosedOnce, Closing

LEMMA DialFailsInv ==
  ASSUME IInv, NEW h \in Holders, DialFails(h) PROVE IInv'
<1>1. Dialing(h) /\ Proceed(h, 0) /\ down' = "dial" /\ mu' = Free
  BY DEF DialFails
<1>2. UNCHANGED <<current, probe, answer, closes, server, conns, faulted,
                  ctxDone>>
  BY DEF DialFails
<1>3. left' \in [Events -> Nat]
  BY DEF DialFails, Spend, IInv, TypeOK, Events
<1>4. \/ h \notin Callers /\ pc' = pc /\ used' = used
      \/ h \in Callers /\ pc' = [pc EXCEPT ![h] = "idle"]
         /\ used' = [used EXCEPT ![h] = 0]
  BY <1>1, HolderAssumption DEF Proceed, Goto, Holders
<1>5. \A q \in Callers : pc'[q] \notin {"dial", "mark"}
  BY <1>1, <1>4, DialerAlone DEF IInv, TypeOK
<1>6. TypeOK'
  BY <1>1, <1>2, <1>3, <1>4 DEF IInv, TypeOK
<1>7. LockInv' /\ DownInv'
  BY <1>1, <1>2, <1>5, DialerAlone, HolderAssumption DEF LockInv, DownInv
<1>8. ConnInv'
  BY <1>1, <1>2, <1>4 DEF IInv, TypeOK, ConnInv
<1>9. ClosedOnce'
  <2>1. ASSUME NEW c \in Conns
        PROVE  ~Closing(c) /\ ~\E q \in Callers : pc'[q] = "mark" /\ used'[q] = c
    BY <1>1, <1>5, DialerAlone DEF Closing
  <2> QED
    BY <1>2, <2>1 DEF IInv, ClosedOnce, Closing
<1> QED
  BY <1>6, <1>7, <1>8, <1>9 DEF IInv

(* The probe and its goroutine change nothing but mu and the answer.       *)
LEMMA ProbeInv == ASSUME IInv, Probes \/ ProberFinds PROVE IInv'
<1>1. CASE ProbeUp
  BY <1>1 DEF IInv, TypeOK, LockInv, ConnInv, DownInv, ClosedOnce, Closing,
     ProbeUp, world
<1>2. CASE ProbeDown
  BY <1>2 DEF IInv, TypeOK, LockInv, ConnInv, DownInv, ClosedOnce, Closing,
     ProbeDown, world
<1>3. CASE ProbeTry
  BY <1>3, HolderAssumption DEF IInv, TypeOK, LockInv, ConnInv, DownInv,
     ClosedOnce, Closing, ProbeTry, TryLock, world, Holders
<1>4. CASE ProberFinds
  BY <1>4, HolderAssumption DEF IInv, TypeOK, LockInv, ConnInv, DownInv,
     ClosedOnce, Closing, ProberFinds, world, Holders
<1> QED
  BY <1>1, <1>2, <1>3, <1>4 DEF Probes

(* A broken transport stays a connection that was dialled.                 *)
LEMMA WorldInv ==
  ASSUME IInv, (\E c \in Conns : Break(c)) \/ KumaDown \/ KumaUp \/ Shutdown
  PROVE  IInv'
<1>1. UNCHANGED <<client, faulted>>
  BY DEF Break, KumaDown, KumaUp, Shutdown
<1>2. /\ conns' \in [Conns -> {"unused", "open", "broken"}]
      /\ \A c \in Conns : conns'[c] = "unused" <=> conns[c] = "unused"
  BY DEF Break, KumaDown, KumaUp, Shutdown, client, IInv, TypeOK
<1>3. /\ left' \in [Events -> Nat] /\ server' \in BOOLEAN
      /\ ctxDone' \in BOOLEAN
  <2> USE DEF IInv, TypeOK, Events, Spend
  <2>1. CASE \E c \in Conns : Break(c)
    <3>1. UNCHANGED <<server, ctxDone>>
      BY <2>1 DEF Break
    <3>2. left' = [left EXCEPT !["break"] = @ - 1] /\ left["break"] > 0
      BY <2>1 DEF Break
    <3> QED
      BY <3>1, <3>2
  <2>2. CASE KumaDown
    <3>1. server' = FALSE /\ UNCHANGED ctxDone
      BY <2>2 DEF KumaDown
    <3>2. left' = [left EXCEPT !["outage"] = @ - 1] /\ left["outage"] > 0
      BY <2>2 DEF KumaDown
    <3>3. left' \in [Events -> Nat]
      BY <3>2
    <3> QED
      BY <3>1, <3>3
  <2>3. CASE KumaUp
    <3>1. server' = TRUE /\ UNCHANGED <<ctxDone, left>>
      BY <2>3 DEF KumaUp
    <3> QED
      BY <3>1
  <2>4. CASE Shutdown
    <3>1. ctxDone' = TRUE /\ UNCHANGED server
      BY <2>4 DEF Shutdown
    <3>2. left' = [left EXCEPT !["shutdown"] = @ - 1] /\ left["shutdown"] > 0
      BY <2>4 DEF Shutdown
    <3>3. left' \in [Events -> Nat]
      BY <3>2
    <3> QED
      BY <3>1, <3>3
  <2> QED
    BY <2>1, <2>2, <2>3, <2>4
<1>4. TypeOK'
  BY <1>1, <1>2, <1>3 DEF IInv, TypeOK, client
<1>5. LockInv' /\ DownInv' /\ ConnInv'
  BY <1>1, <1>2 DEF IInv, TypeOK, LockInv, DownInv, ConnInv, client
<1>6. ClosedOnce'
  BY <1>1, <1>2 DEF IInv, ClosedOnce, Closing, client
<1> QED
  BY <1>4, <1>5, <1>6 DEF IInv

LEMMA NextInv == ASSUME IInv, [Next]_vars PROVE IInv'
<1>1. ASSUME NEW p \in Callers, Locks(p) PROVE IInv'
  BY <1>1, GetInv, DialBeginInv, StaleInv, DiscardInv DEF Locks
<1>2. ASSUME NEW p \in Callers, Works(p) PROVE IInv'
  BY <1>2, AnsweredInv, CallFailsInv, MarkDownInv DEF Works
<1>3. ASSUME NEW h \in Holders, Dials(h) PROVE IInv'
  BY <1>3, DialSucceedsInv, DialFailsInv DEF Dials
<1> QED
  BY <1>1, <1>2, <1>3, StartInv, ProbeInv, WorldInv, StutterInv DEF Next

THEOREM Inductive == Spec => []IInv
<1>1. Init => IInv
  BY InitInv
<1>2. IInv /\ [Next]_vars => IInv'
  BY NextInv
<1> QED
  BY <1>1, <1>2, PTL DEF Spec

(* Every variable keeps its type, and no call ever runs on a nil           *)
(* connection (get).                                                       *)
THEOREM TypeCorrect == Spec => []TypeOK
<1>1. IInv => TypeOK
  BY DEF IInv
<1> QED
  BY <1>1, Inductive, PTL

(* What the readiness probe reads agrees with the connection whenever mu   *)
(* is free (check, getLocked).                                             *)
THEOREM DownCorrect == Spec => []DownAgrees
<1>1. IInv => DownAgrees
  BY DEF IInv, DownInv, DownAgrees
<1> QED
  BY <1>1, Inductive, PTL

(* Every connection that is not in use has been closed exactly once, by    *)
(* the call that discarded it (check).                                     *)
THEOREM CloseCorrect == Spec => []ClosedOnce
<1>1. IInv => ClosedOnce
  BY DEF IInv
<1> QED
  BY <1>1, Inductive, PTL

(* A connection is only given up after a call on it failed (check,         *)
(* connectionLost).                                                        *)
THEOREM DropCorrect == Spec => OnlyFaultedDropped
<1>1. ASSUME IInv, Next, current' # current
      PROVE  current \in faulted \cup {0}
  <2>1. ASSUME NEW p \in Callers, Discard(p) PROVE current \in faulted
    BY <1>1, <2>1 DEF Discard, IsCurrent, IInv, ConnInv
  <2>2. ASSUME NEW h \in Holders, Dials(h) PROVE current = 0
    <3>1. Dialing(h)
      BY <2>2 DEF Dials, DialSucceeds, DialFails
    <3> QED
      BY <1>1, <3>1, DialerAlone
  <2>3. CASE \E p \in Callers : Start(p) \/ Locks(p) \/ Works(p)
    BY <1>1, <2>1, <2>3 DEF Start, Locks, Works, Get, DialBegin, CheckStale,
       CallAnswered, CallFails, MarkDown
  <2>4. CASE Probes \/ ProberFinds
    BY <1>1, <2>4 DEF Probes, ProbeUp, ProbeDown, ProbeTry, ProberFinds
  <2>5. CASE (\E c \in Conns : Break(c)) \/ KumaDown \/ KumaUp \/ Shutdown
    BY <1>1, <2>5 DEF Break, KumaDown, KumaUp, Shutdown, client
  <2> QED
    BY <1>1, <2>2, <2>3, <2>4, <2>5 DEF Next
<1>2. IInv /\ [Next]_vars => [current' # current => current \in faulted \cup {0}]_vars
  BY <1>1
<1> QED
  BY <1>2, Inductive, PTL DEF Spec, OnlyFaultedDropped
=============================================================================
