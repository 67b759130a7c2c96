------------------------ MODULE DatagramSessionProofs ------------------------
(***************************************************************************)
(* Proofs about what a QUIC connection carries in datagrams: the UDP       *)
(* sessions (module DatagramSession), for any sets of sessions and of IDs, *)
(* and pings (module ICMPProxy), for any sources and number of echo IDs.   *)
(*                                                                         *)
(* That a closeChan has room is not inductive: one must count who has      *)
(* written to it.  The reader has when it is done, the manager has when it *)
(* no longer tracks the session, and neither writes twice.                 *)
(***************************************************************************)
EXTENDS DatagramSession, ICMPProxy, FiniteSetTheorems, WellFoundedInduction, TLAPS

IsTracked(s) == \E x \in IDs : tracked[x] = s

(* The map holds registered sessions, under their own IDs.                 *)
OwnerInv ==
    \A x \in IDs : tracked[x] # Nil =>
        id[tracked[x]] = x /\ pc[tracked[x]] \in {"serving", "unregistering", "done"}

(* Nothing happened yet to a session that is not registered.               *)
FreshInv ==
    \A s \in Sessions : pc[s] \in {"unused", "registering", "refused"} =>
        reader[s] = "none" /\ closeChan[s] = <<>>

IdInv == \A s \in Sessions : pc[s] # "unused" => id[s] \in IDs

(* The manager has not written to the channel of a session it tracks, nor  *)
(* the reader to its own before it is done.                                *)
ManagerMayWrite(s) == manager = "serving" /\ IsTracked(s)

WritesInv ==
    \A s \in Sessions :
        /\ Len(closeChan[s]) <= CloseChanCapacity
        /\ ManagerMayWrite(s) \/ reader[s] # "done" => Len(closeChan[s]) < CloseChanCapacity
        /\ ManagerMayWrite(s) /\ reader[s] # "done" => Len(closeChan[s]) = 0

(* A serving manager has stopped tracking what it told to close.           *)
RemoteInv ==
    manager = "serving" =>
        \A s \in Sessions : \A i \in 1 .. Len(closeChan[s]) :
            closeChan[s][i] = "remote" => ~IsTracked(s)

IInv ==
    SessionTypes /\ OwnerInv /\ FreshInv /\ IdInv /\ WritesInv /\ RemoteInv /\ NoStaleEntry

-----------------------------------------------------------------------------
(* The two writes and the read of a channel.                               *)
LEMMA AppendFacts ==
    ASSUME NEW q \in Seq(Reasons), NEW e \in Reasons
    PROVE  /\ Append(q, e) \in Seq(Reasons)
           /\ Len(Append(q, e)) = Len(q) + 1
           /\ \A i \in 1 .. Len(Append(q, e)) :
                Append(q, e)[i] = e \/ (i \in 1 .. Len(q) /\ Append(q, e)[i] = q[i])
  OBVIOUS

LEMMA TailFacts ==
    ASSUME NEW q \in Seq(Reasons), q # <<>>
    PROVE  /\ Tail(q) \in Seq(Reasons)
           /\ Len(Tail(q)) <= Len(q)
           /\ \A i \in 1 .. Len(Tail(q)) : i + 1 \in 1 .. Len(q) /\ Tail(q)[i] = q[i + 1]
           /\ 1 \in 1 .. Len(q) /\ Head(q) = q[1]
  OBVIOUS

(* Nothing is registered at first.                                         *)
LEMMA InitInv == Init => IInv
<1> SUFFICES ASSUME Init PROVE IInv
  OBVIOUS
<1> USE SessionAssumption DEF Init
<1>1. SessionTypes
  <2>1. closeChan \in [Sessions -> Seq(Reasons)]
    <3>1. <<>> \in Seq(Reasons)
      OBVIOUS
    <3> QED  BY <3>1
  <2>2. pc \in [Sessions -> PCs] /\ id \in [Sessions -> IDs \cup {Nil}]
        /\ tracked \in [IDs -> Sessions \cup {Nil}] /\ gaveUp \subseteq Sessions
    BY DEF PCs
  <2>3. reader \in [Sessions -> {"none", "reading", "done"}]
        /\ socket \in [Sessions -> {"none", "open", "closed"}]
    OBVIOUS
  <2> QED  BY <2>1, <2>2, <2>3 DEF SessionTypes
<1>2. OwnerInv /\ FreshInv /\ IdInv /\ NoStaleEntry
  BY DEF OwnerInv, FreshInv, IdInv, NoStaleEntry
<1>3. \A s \in Sessions : Len(closeChan[s]) = 0
  OBVIOUS
<1>4. WritesInv /\ RemoteInv
  BY <1>3 DEF WritesInv, RemoteInv, CloseChanCapacity
<1> QED  BY <1>1, <1>2, <1>4 DEF IInv

(* What unregisterSession does to the map and to the channels.             *)
LEMMA UnregisterFacts ==
    ASSUME NEW x \in IDs, NEW reason \in Reasons, IInv, Unregister(x, reason)
    PROVE  /\ tracked' \in [IDs -> Sessions \cup {Nil}]
           /\ closeChan' \in [Sessions -> Seq(Reasons)]
           /\ tracked'[x] = Nil
           /\ \A y \in IDs : y # x => tracked'[y] = tracked[y]
           /\ \A t \in Sessions :
                \/ closeChan'[t] = closeChan[t]
                \/ t = tracked[x] /\ closeChan'[t] = Append(closeChan[t], reason)
<1> USE SessionAssumption DEF IInv, SessionTypes
<1>1. CASE tracked[x] = Nil
  BY <1>1 DEF Unregister
<1>2. CASE tracked[x] # Nil
  <2>1. tracked[x] \in Sessions
    BY <1>2
  <2>2. Append(closeChan[tracked[x]], reason) \in Seq(Reasons)
    BY <2>1, AppendFacts
  <2>3. tracked' = [tracked EXCEPT ![x] = Nil]
        /\ closeChan' = [closeChan EXCEPT ![tracked[x]] = Append(@, reason)]
    BY <1>2 DEF Unregister
  <2> QED  BY <2>1, <2>2, <2>3
<1> QED  BY <1>1, <1>2

(* A session is dialled; it is in no map and in no channel.                *)
LEMMA RegisterUdpSessionInv ==
    ASSUME NEW s \in Sessions, NEW x \in IDs, IInv, RegisterUdpSession(s, x)
    PROVE  IInv'
<1> USE SessionAssumption DEF IInv, SessionTypes, RegisterUdpSession, connVars
<1>1. SessionTypes'
  BY AppendFacts, TailFacts DEF PCs, Reasons
<1>2. OwnerInv'
  BY DEF OwnerInv, PCs
<1>3. FreshInv' /\ IdInv'
  BY DEF FreshInv, IdInv, PCs, OwnerInv
<1>4. WritesInv'
  BY AppendFacts, TailFacts DEF WritesInv, ManagerMayWrite, CloseChanCapacity, IsTracked,
                                OwnerInv, FreshInv, Reasons
<1>5. RemoteInv'
  BY AppendFacts, TailFacts DEF RemoteInv, IsTracked, OwnerInv, FreshInv, Reasons
<1>6. NoStaleEntry'
  BY TailFacts DEF NoStaleEntry, RemoteInv, IsTracked, OwnerInv, IdInv
<1> QED  BY <1>1, <1>2, <1>3, <1>4, <1>5, <1>6

(* A refused session stays fresh.                                          *)
LEMMA RegisterSessionFailsInv ==
    ASSUME NEW s \in Sessions, IInv, RegisterSessionFails(s)
    PROVE  IInv'
<1> USE SessionAssumption DEF IInv, SessionTypes, RegisterSessionFails, connVars
<1>1. SessionTypes'
  BY AppendFacts, TailFacts DEF PCs, Reasons
<1>2. OwnerInv'
  BY DEF OwnerInv, PCs
<1>3. FreshInv' /\ IdInv'
  BY DEF FreshInv, IdInv, PCs, OwnerInv
<1>4. WritesInv'
  BY AppendFacts, TailFacts DEF WritesInv, ManagerMayWrite, CloseChanCapacity, IsTracked,
                                OwnerInv, FreshInv, Reasons
<1>5. RemoteInv'
  BY AppendFacts, TailFacts DEF RemoteInv, IsTracked, OwnerInv, FreshInv, Reasons
<1>6. NoStaleEntry'
  BY TailFacts DEF NoStaleEntry, RemoteInv, IsTracked, OwnerInv, IdInv
<1> QED  BY <1>1, <1>2, <1>3, <1>4, <1>5, <1>6

(* The registered session is new; one it displaces is no longer tracked.   *)
LEMMA RegisterSessionInv ==
    ASSUME NEW s \in Sessions, IInv, RegisterSession(s)
    PROVE  IInv'
<1> USE SessionAssumption DEF IInv, SessionTypes, RegisterSession, connVars
<1>1. SessionTypes'
  BY AppendFacts, TailFacts DEF PCs, Reasons
<1>2. OwnerInv'
  BY DEF OwnerInv, PCs
<1>3. FreshInv' /\ IdInv'
  BY DEF FreshInv, IdInv, PCs, OwnerInv
<1>4. WritesInv'
  BY AppendFacts, TailFacts DEF WritesInv, ManagerMayWrite, CloseChanCapacity, IsTracked,
                                OwnerInv, FreshInv, Reasons
<1>5. RemoteInv'
  BY AppendFacts, TailFacts DEF RemoteInv, IsTracked, OwnerInv, FreshInv, Reasons
<1>6. NoStaleEntry'
  BY TailFacts DEF NoStaleEntry, RemoteInv, IsTracked, OwnerInv, IdInv
<1> QED  BY <1>1, <1>2, <1>3, <1>4, <1>5, <1>6

(* The reader's one write.                                                 *)
LEMMA ReaderEndsInv ==
    ASSUME NEW s \in Sessions, IInv, ReaderEnds(s)
    PROVE  IInv'
<1> USE SessionAssumption DEF IInv, SessionTypes, ReaderEnds, connVars, HasRoom
<1>1. SessionTypes'
  BY AppendFacts, TailFacts DEF PCs, Reasons
<1>2. OwnerInv'
  BY DEF OwnerInv, PCs
<1>3. FreshInv' /\ IdInv'
  BY DEF FreshInv, IdInv, PCs, OwnerInv
<1>4. WritesInv'
  BY AppendFacts, TailFacts DEF WritesInv, ManagerMayWrite, CloseChanCapacity, IsTracked,
                                OwnerInv, FreshInv, Reasons
<1>5. RemoteInv'
  BY AppendFacts, TailFacts DEF RemoteInv, IsTracked, OwnerInv, FreshInv, Reasons
<1>6. NoStaleEntry'
  BY TailFacts DEF NoStaleEntry, RemoteInv, IsTracked, OwnerInv, IdInv
<1> QED  BY <1>1, <1>2, <1>3, <1>4, <1>5, <1>6

(* A session told to close by the remote is no longer tracked.             *)
LEMMA ServeClosesInv ==
    ASSUME NEW s \in Sessions, IInv, ServeCloses(s)
    PROVE  IInv'
<1> USE SessionAssumption DEF IInv, SessionTypes, ServeCloses, Ends, AfterServe, connVars
<1>1. SessionTypes'
  BY AppendFacts, TailFacts DEF PCs, Reasons
<1>2. OwnerInv'
  BY DEF OwnerInv, PCs
<1>3. FreshInv' /\ IdInv'
  BY DEF FreshInv, IdInv, PCs, OwnerInv
<1>4. WritesInv'
  BY AppendFacts, TailFacts DEF WritesInv, ManagerMayWrite, CloseChanCapacity, IsTracked,
                                OwnerInv, FreshInv, Reasons
<1>5. RemoteInv'
  BY AppendFacts, TailFacts DEF RemoteInv, IsTracked, OwnerInv, FreshInv, Reasons
<1>6. NoStaleEntry'
  BY TailFacts DEF NoStaleEntry, RemoteInv, IsTracked, OwnerInv, IdInv
<1> QED  BY <1>1, <1>2, <1>3, <1>4, <1>5, <1>6

(* An idle session goes on to unregister.                                  *)
LEMMA ServeIdlesInv ==
    ASSUME NEW s \in Sessions, IInv, ServeIdles(s)
    PROVE  IInv'
<1> USE SessionAssumption DEF IInv, SessionTypes, ServeIdles, Ends, AfterServe, connVars
<1>1. SessionTypes'
  BY AppendFacts, TailFacts DEF PCs, Reasons
<1>2. OwnerInv'
  BY DEF OwnerInv, PCs
<1>3. FreshInv' /\ IdInv'
  BY DEF FreshInv, IdInv, PCs, OwnerInv
<1>4. WritesInv'
  BY AppendFacts, TailFacts DEF WritesInv, ManagerMayWrite, CloseChanCapacity, IsTracked,
                                OwnerInv, FreshInv, Reasons
<1>5. RemoteInv'
  BY AppendFacts, TailFacts DEF RemoteInv, IsTracked, OwnerInv, FreshInv, Reasons
<1>6. NoStaleEntry'
  BY TailFacts DEF NoStaleEntry, RemoteInv, IsTracked, OwnerInv, IdInv
<1> QED  BY <1>1, <1>2, <1>3, <1>4, <1>5, <1>6

(* So does one that lost the connection.                                   *)
LEMMA ServeLosesConnectionInv ==
    ASSUME NEW s \in Sessions, IInv, ServeLosesConnection(s)
    PROVE  IInv'
<1> USE SessionAssumption DEF IInv, SessionTypes, ServeLosesConnection, Ends, AfterServe, connVars
<1>1. SessionTypes'
  BY AppendFacts, TailFacts DEF PCs, Reasons
<1>2. OwnerInv'
  BY DEF OwnerInv, PCs
<1>3. FreshInv' /\ IdInv'
  BY DEF FreshInv, IdInv, PCs, OwnerInv
<1>4. WritesInv'
  BY AppendFacts, TailFacts DEF WritesInv, ManagerMayWrite, CloseChanCapacity, IsTracked,
                                OwnerInv, FreshInv, Reasons
<1>5. RemoteInv'
  BY AppendFacts, TailFacts DEF RemoteInv, IsTracked, OwnerInv, FreshInv, Reasons
<1>6. NoStaleEntry'
  BY TailFacts DEF NoStaleEntry, RemoteInv, IsTracked, OwnerInv, IdInv
<1> QED  BY <1>1, <1>2, <1>3, <1>4, <1>5, <1>6

(* unregisterSession, on behalf of a session that has ended or of the      *)
(* edge: it is the manager's one write, and the only session that may have *)
(* ended with it is the one the ID belongs to.                             *)
LEMMA UnregisterInv ==
    ASSUME NEW x \in IDs, NEW reason \in {"remote", "local"}, IInv, Unregister(x, reason),
           manager = "serving", UNCHANGED <<id, reader, socket, gaveUp, connVars>>,
           \/ UNCHANGED pc
           \/ \E s \in Sessions :
                /\ id[s] = x /\ pc[s] = "unregistering"
                /\ pc' = [pc EXCEPT ![s] = "done"]
    PROVE  IInv'
<1> DEFINE Kept(t)  == closeChan'[t] = closeChan[t]
           Wrote(t) == t = tracked[x] /\ closeChan'[t] = Append(closeChan[t], reason)
<1>r. reason \in Reasons
  BY DEF Reasons
<1>0. /\ reason \in Reasons
      /\ tracked' \in [IDs -> Sessions \cup {Nil}]
      /\ closeChan' \in [Sessions -> Seq(Reasons)]
      /\ tracked'[x] = Nil
      /\ \A y \in IDs : y # x => tracked'[y] = tracked[y]
      /\ \A t \in Sessions : Kept(t) \/ Wrote(t)
  BY <1>r, UnregisterFacts
<1> USE SessionAssumption DEF IInv, SessionTypes, connVars
<1>1. SessionTypes'
  BY <1>0 DEF PCs
<1>2. OwnerInv'
  <2>1. \A t \in Sessions : pc'[t] = pc[t] \/ (pc[t] = "unregistering" /\ pc'[t] = "done")
    OBVIOUS
  <2>2. \A y \in IDs : tracked'[y] # Nil => tracked'[y] = tracked[y] /\ tracked[y] \in Sessions
    BY <1>0
  <2> QED  BY <2>1, <2>2 DEF OwnerInv
<1>3. FreshInv' /\ IdInv'
  <2>1. ASSUME NEW t \in Sessions, Wrote(t)
        PROVE  pc[t] \notin {"unused", "registering", "refused"}
    BY <2>1 DEF OwnerInv
  <2> QED  BY <1>0, <2>1 DEF FreshInv, IdInv
<1>w. ASSUME NEW t \in Sessions, Wrote(t) PROVE IsTracked(t) /\ ~IsTracked(t)'
  <2>1. \A y \in IDs : tracked[y] = t => y = id[t]
    BY DEF OwnerInv
  <2>2. tracked[x] = t
    BY <1>w
  <2>3. ASSUME NEW y \in IDs PROVE tracked'[y] # t
    <3>1. CASE y = x
      <4>1. tracked'[y] = Nil
        BY <1>0, <3>1
      <4> QED  BY <4>1
    <3>2. CASE y # x
      <4>1. tracked'[y] = tracked[y]
        BY <1>0, <3>2
      <4> QED  BY <4>1, <2>1, <2>2, <3>2
    <3> QED  BY <3>1, <3>2
  <2> QED  BY <2>2, <2>3 DEF IsTracked
<1>4. WritesInv'
  <2> SUFFICES ASSUME NEW t \in Sessions
               PROVE  /\ Len(closeChan'[t]) <= CloseChanCapacity
                      /\ ManagerMayWrite(t)' \/ reader'[t] # "done" =>
                           Len(closeChan'[t]) < CloseChanCapacity
                      /\ ManagerMayWrite(t)' /\ reader'[t] # "done" => Len(closeChan'[t]) = 0
    BY DEF WritesInv
  <2>1. IsTracked(t)' => IsTracked(t)
    BY <1>0 DEF IsTracked
  <2>2. CASE Kept(t)
    BY <2>1, <2>2 DEF WritesInv, ManagerMayWrite
  <2>3. CASE Wrote(t)
    <3>1. IsTracked(t) /\ ~IsTracked(t)'
      BY <1>w, <2>3
    <3>2. Len(closeChan'[t]) = Len(closeChan[t]) + 1
      BY <1>0, <2>3, AppendFacts
    <3> QED  BY <3>1, <3>2 DEF WritesInv, ManagerMayWrite, CloseChanCapacity
  <2> QED  BY <1>0, <2>2, <2>3
<1>5. RemoteInv'
  <2> SUFFICES ASSUME NEW t \in Sessions, NEW i \in 1 .. Len(closeChan'[t]),
                      closeChan'[t][i] = "remote"
               PROVE  ~IsTracked(t)'
    BY DEF RemoteInv
  <2>1. CASE Kept(t)
    BY <1>0, <2>1 DEF RemoteInv, IsTracked
  <2>2. CASE Wrote(t)
    BY <1>w, <2>2
  <2> QED  BY <1>0, <2>1, <2>2
<1>6. NoStaleEntry'
  BY <1>0 DEF NoStaleEntry, OwnerInv
<1> QED  BY <1>1, <1>2, <1>3, <1>4, <1>5, <1>6

(* closeUDPSession: the manager answers, or the call gives up.             *)
LEMMA CloseUDPSessionInv ==
    ASSUME NEW s \in Sessions, IInv, CloseUDPSession(s)
    PROVE  IInv'
<1>1. CASE manager = "serving" /\ Unregister(id[s], "local") /\ UNCHANGED gaveUp
  <2>1. id[s] \in IDs
    BY DEF CloseUDPSession, IInv, IdInv
  <2> QED
    BY <1>1, <2>1, UnregisterInv DEF CloseUDPSession
<1>2. CASE gaveUp' = gaveUp \cup {s} /\ UNCHANGED <<tracked, closeChan, active>>
  <2> USE <1>2, SessionAssumption DEF IInv, SessionTypes, CloseUDPSession, connVars
  <2>1. SessionTypes'
    BY DEF PCs
  <2>2. OwnerInv' /\ FreshInv' /\ IdInv'
    BY DEF OwnerInv, FreshInv, IdInv
  <2>3. WritesInv' /\ RemoteInv'
    BY DEF WritesInv, RemoteInv, ManagerMayWrite, IsTracked
  <2>4. NoStaleEntry'
    BY DEF NoStaleEntry
  <2> QED  BY <2>1, <2>2, <2>3, <2>4
<1> QED  BY <1>1, <1>2 DEF CloseUDPSession

(* UnregisterUdpSession                                                    *)
LEMMA UnregisterUdpSessionInv ==
    ASSUME NEW x \in IDs, IInv, UnregisterUdpSession(x)
    PROVE  IInv'
  BY UnregisterInv DEF UnregisterUdpSession, RemoteReason, sessionVars

(* The manager's last write, to everything it still tracks.                *)
LEMMA ManagerStopsInv ==
    ASSUME IInv, ManagerStops
    PROVE  IInv'
<1> USE SessionAssumption DEF IInv, SessionTypes, ManagerStops, ToShutDown, HasRoom, sessionVars
<1>1. SessionTypes'
  BY AppendFacts, TailFacts DEF PCs, Reasons
<1>2. OwnerInv'
  BY DEF OwnerInv, PCs
<1>3. FreshInv' /\ IdInv'
  <2>1. ASSUME NEW s \in ToShutDown PROVE pc[s] \notin {"unused", "registering", "refused"}
    <3>1. PICK x \in IDs : tracked[x] = s /\ s # Nil
      BY <2>1
    <3> QED  BY <3>1 DEF OwnerInv
  <2> QED  BY <2>1 DEF FreshInv, IdInv
<1>4. WritesInv'
  BY AppendFacts, TailFacts DEF WritesInv, ManagerMayWrite, CloseChanCapacity, IsTracked,
                                OwnerInv, FreshInv, Reasons
<1>5. RemoteInv'
  BY AppendFacts, TailFacts DEF RemoteInv, IsTracked, OwnerInv, FreshInv, Reasons
<1>6. NoStaleEntry'
  BY TailFacts DEF NoStaleEntry, RemoteInv, IsTracked, OwnerInv, IdInv
<1> QED  BY <1>1, <1>2, <1>3, <1>4, <1>5, <1>6

(* Cancellation alone changes nothing.                                     *)
LEMMA ContextDoneInv ==
    ASSUME IInv, ContextDone
    PROVE  IInv'
<1> USE SessionAssumption DEF IInv, SessionTypes, ContextDone, sessionVars
<1>1. SessionTypes'
  BY AppendFacts, TailFacts DEF PCs, Reasons
<1>2. OwnerInv'
  BY DEF OwnerInv, PCs
<1>3. FreshInv' /\ IdInv'
  BY DEF FreshInv, IdInv, PCs, OwnerInv
<1>4. WritesInv'
  BY AppendFacts, TailFacts DEF WritesInv, ManagerMayWrite, CloseChanCapacity, IsTracked,
                                OwnerInv, FreshInv, Reasons
<1>5. RemoteInv'
  BY AppendFacts, TailFacts DEF RemoteInv, IsTracked, OwnerInv, FreshInv, Reasons
<1>6. NoStaleEntry'
  BY TailFacts DEF NoStaleEntry, RemoteInv, IsTracked, OwnerInv, IdInv
<1> QED  BY <1>1, <1>2, <1>3, <1>4, <1>5, <1>6

(* Nor does the loss of the connection.                                    *)
LEMMA ConnectionDoneInv ==
    ASSUME IInv, ConnectionDone
    PROVE  IInv'
<1> USE SessionAssumption DEF IInv, SessionTypes, ConnectionDone, sessionVars
<1>1. SessionTypes'
  BY AppendFacts, TailFacts DEF PCs, Reasons
<1>2. OwnerInv'
  BY DEF OwnerInv, PCs
<1>3. FreshInv' /\ IdInv'
  BY DEF FreshInv, IdInv, PCs, OwnerInv
<1>4. WritesInv'
  BY AppendFacts, TailFacts DEF WritesInv, ManagerMayWrite, CloseChanCapacity, IsTracked,
                                OwnerInv, FreshInv, Reasons
<1>5. RemoteInv'
  BY AppendFacts, TailFacts DEF RemoteInv, IsTracked, OwnerInv, FreshInv, Reasons
<1>6. NoStaleEntry'
  BY TailFacts DEF NoStaleEntry, RemoteInv, IsTracked, OwnerInv, IdInv
<1> QED  BY <1>1, <1>2, <1>3, <1>4, <1>5, <1>6

(* Every step preserves the invariant.                                     *)
LEMMA StepInv == IInv /\ [Next]_vars => IInv'
<1> SUFFICES ASSUME IInv, [Next]_vars PROVE IInv'
  OBVIOUS
<1>1. ASSUME NEW s \in Sessions, NEW x \in IDs, RegisterUdpSession(s, x) PROVE IInv'
  BY <1>1, RegisterUdpSessionInv
<1>2. ASSUME NEW s \in Sessions,
             \/ RegisterSessionFails(s) \/ RegisterSession(s)
             \/ ReaderEnds(s) \/ ServeCloses(s) \/ ServeIdles(s) \/ ServeLosesConnection(s)
             \/ CloseUDPSession(s)
      PROVE  IInv'
  BY <1>2, RegisterSessionFailsInv, RegisterSessionInv, ReaderEndsInv, ServeClosesInv,
     ServeIdlesInv, ServeLosesConnectionInv, CloseUDPSessionInv
<1>3. ASSUME NEW x \in IDs, UnregisterUdpSession(x) PROVE IInv'
  BY <1>3, UnregisterUdpSessionInv
<1>4. CASE ManagerStops \/ ContextDone \/ ConnectionDone
  BY <1>4, ManagerStopsInv, ContextDoneInv, ConnectionDoneInv
<1>5. CASE UNCHANGED vars
  BY <1>5 DEF vars, sessionVars, connVars, IInv, SessionTypes, OwnerInv, FreshInv, IdInv,
              WritesInv, RemoteInv, NoStaleEntry, ManagerMayWrite, IsTracked
<1> QED  BY <1>1, <1>2, <1>3, <1>4, <1>5 DEF Next

(* The invariant holds in every reachable state.                           *)
LEMMA Invariant == Spec => []IInv
  BY InitInv, StepInv, PTL DEF Spec

(* CloseChanHasRoom: the event loop and the readers never block on a       *)
(* closeChan, however the edge and the origins time their calls.           *)
THEOREM NeverBlocks == Spec => []CloseChanHasRoom
<1>1. IInv => CloseChanHasRoom
  <2> SUFFICES ASSUME IInv PROVE CloseChanHasRoom
    OBVIOUS
  <2>1. ASSUME NEW x \in IDs, manager = "serving", tracked[x] # Nil
        PROVE  HasRoom(tracked[x])
    <3>1. tracked[x] \in Sessions /\ ManagerMayWrite(tracked[x])
      BY <2>1 DEF IInv, SessionTypes, ManagerMayWrite, IsTracked
    <3> QED  BY <3>1 DEF IInv, WritesInv, HasRoom
  <2>2. ASSUME NEW s \in Sessions, reader[s] = "reading"
        PROVE  HasRoom(s)
    BY <2>2 DEF IInv, WritesInv, HasRoom
  <2> QED  BY <2>1, <2>2 DEF CloseChanHasRoom
<1> QED  BY <1>1, Invariant, PTL

(* NoStaleEntry: the manager does not keep a session that has ended.       *)
THEOREM NothingStale == Spec => []NoStaleEntry
<1>1. IInv => NoStaleEntry
  BY DEF IInv
<1> QED  BY <1>1, Invariant, PTL

-----------------------------------------------------------------------------
(* The gauge.  It counts at least the entries of the map, since a          *)
(* registration that displaces another is counted too; hence it is never   *)
(* negative.                                                               *)
TrackedIDs == {x \in IDs : tracked[x] # Nil}

GaugeInv == active \in Nat /\ active >= Cardinality(TrackedIDs)

LEMMA TrackedFinite == IsFiniteSet(TrackedIDs) /\ Cardinality(TrackedIDs) \in Nat
<1>1. TrackedIDs \subseteq IDs
  BY DEF TrackedIDs
<1> QED  BY <1>1, IDsAssumption, FS_Subset, FS_CardinalityType

(* The map gains one entry at most, and one is counted.                    *)
LEMMA RegisterGauge ==
    ASSUME NEW s \in Sessions, IInv, GaugeInv, RegisterSession(s)
    PROVE  GaugeInv'
<1>1. id[s] \in IDs
  BY DEF RegisterSession, IInv, IdInv
<1>2. TrackedIDs' = TrackedIDs \cup {id[s]}
  BY <1>1, SessionAssumption DEF RegisterSession, TrackedIDs, IInv, SessionTypes
<1>3. Cardinality(TrackedIDs') <= Cardinality(TrackedIDs) + 1
  <2>1. Cardinality(TrackedIDs') =
          IF id[s] \in TrackedIDs THEN Cardinality(TrackedIDs) ELSE Cardinality(TrackedIDs) + 1
    BY <1>2, TrackedFinite, FS_AddElement
  <2> QED  BY <2>1, TrackedFinite
<1>4. active' = active + 1
  BY DEF RegisterSession
<1>5. Cardinality(TrackedIDs') \in Nat
  BY <1>2, TrackedFinite, FS_AddElement, FS_CardinalityType
<1> QED  BY <1>3, <1>4, <1>5, TrackedFinite DEF GaugeInv

(* unregisterSession takes one entry out and one off the gauge.            *)
LEMMA UnregisterGauge ==
    ASSUME NEW x \in IDs, NEW reason, IInv, GaugeInv, Unregister(x, reason)
    PROVE  GaugeInv'
<1>1. CASE tracked[x] = Nil
  BY <1>1 DEF Unregister, GaugeInv, TrackedIDs
<1>2. CASE tracked[x] # Nil
  <2>1. x \in TrackedIDs
    BY <1>2 DEF TrackedIDs
  <2>2. TrackedIDs' = TrackedIDs \ {x}
    BY <1>2 DEF Unregister, TrackedIDs, IInv, SessionTypes
  <2>3. Cardinality(TrackedIDs') = Cardinality(TrackedIDs) - 1
    BY <2>1, <2>2, TrackedFinite, FS_RemoveElement
  <2>4. active' = active - 1
    BY <1>2 DEF Unregister
  <2>5. Cardinality(TrackedIDs') \in Nat
    BY <2>2, TrackedFinite, FS_RemoveElement, FS_CardinalityType
  <2> QED  BY <2>3, <2>4, <2>5, TrackedFinite DEF GaugeInv
<1> QED  BY <1>1, <1>2

LEMMA StepGauge == IInv /\ GaugeInv /\ [Next]_vars => GaugeInv'
<1> SUFFICES ASSUME IInv, GaugeInv, [Next]_vars PROVE GaugeInv'
  OBVIOUS
<1>1. CASE UNCHANGED <<tracked, active>>
  BY <1>1 DEF GaugeInv, TrackedIDs
<1>2. ASSUME NEW s \in Sessions, CloseUDPSession(s) PROVE GaugeInv'
  <2>1. id[s] \in IDs
    BY <1>2 DEF CloseUDPSession, IInv, IdInv
  <2> QED  BY <1>1, <1>2, <2>1, UnregisterGauge DEF CloseUDPSession
<1>3. ASSUME NEW x \in IDs, UnregisterUdpSession(x) PROVE GaugeInv'
  BY <1>3, UnregisterGauge DEF UnregisterUdpSession
<1>4. ASSUME NEW s \in Sessions,
             \/ \E x \in IDs : RegisterUdpSession(s, x)
             \/ RegisterSessionFails(s)
             \/ ReaderEnds(s) \/ ServeCloses(s) \/ ServeIdles(s) \/ ServeLosesConnection(s)
      PROVE  UNCHANGED <<tracked, active>>
  BY <1>4 DEF RegisterUdpSession, RegisterSessionFails, ReaderEnds, ServeCloses, ServeIdles,
              ServeLosesConnection, Ends
<1>5. CASE ManagerStops \/ ContextDone \/ ConnectionDone \/ UNCHANGED vars
  BY <1>1, <1>5 DEF ManagerStops, ContextDone, ConnectionDone, vars
<1> QED  BY <1>1, <1>2, <1>3, <1>4, <1>5, RegisterGauge DEF Next

(* TypeOK: the manager's state keeps its types and the gauge never goes    *)
(* below zero.                                                             *)
THEOREM TypeCorrect == Spec => []TypeOK
<1>1. Init => GaugeInv
  <2> SUFFICES ASSUME Init PROVE GaugeInv
    OBVIOUS
  <2>1. TrackedIDs = {} /\ active = 0
    BY DEF Init, TrackedIDs
  <2> QED  BY <2>1, FS_EmptySet DEF GaugeInv
<1>2. IInv /\ GaugeInv => TypeOK
  BY DEF IInv, GaugeInv, TypeOK, WritesInv
<1> QED  BY <1>1, <1>2, Invariant, StepGauge, PTL DEF Spec

-----------------------------------------------------------------------------
(* Who may be told "local".  A session that is not registered has no ID to *)
(* share.                                                                  *)
UnusedInv == \A s \in Sessions : pc[s] = "unused" => id[s] = Nil

ToldLocal(s) == \E i \in 1 .. Len(closeChan[s]) : closeChan[s][i] = "local"

LocalInv == UnusedInv /\ LocalCloseIsOwn

(* Telling "remote" is not telling "local".                                *)
LEMMA RemoteTellsNoLocal ==
    ASSUME IInv,
           \A t \in Sessions : \/ closeChan'[t] = closeChan[t]
                               \/ closeChan'[t] = Append(closeChan[t], "remote")
    PROVE  \A t \in Sessions : ToldLocal(t)' => ToldLocal(t)
<1> SUFFICES ASSUME NEW t \in Sessions, ToldLocal(t)' PROVE ToldLocal(t)
  OBVIOUS
<1>1. PICK i \in 1 .. Len(closeChan'[t]) : closeChan'[t][i] = "local"
  BY DEF ToldLocal
<1>2. CASE closeChan'[t] = closeChan[t]
  BY <1>1, <1>2 DEF ToldLocal
<1>3. CASE closeChan'[t] = Append(closeChan[t], "remote")
  <2>1. closeChan[t] \in Seq(Reasons) /\ "remote" \in Reasons
    BY DEF IInv, SessionTypes, Reasons
  <2>2. i \in 1 .. Len(closeChan[t]) /\ closeChan[t][i] = "local"
    BY <1>1, <1>3, <2>1, AppendFacts
  <2> QED  BY <2>2 DEF ToldLocal
<1> QED  BY <1>2, <1>3

(* A step that gives no session an ID, tells none "local" and lets none    *)
(* that was told serve keeps the invariant.                                *)
LEMMA QuietLocal ==
    ASSUME LocalInv, id' = id,
           \A s \in Sessions : ToldLocal(s)' => ToldLocal(s),
           \A s \in Sessions : pc'[s] = "unused" => pc[s] = "unused",
           \A s \in Sessions : pc'[s] = "serving" => pc[s] = "serving" \/ ~ToldLocal(s)
    PROVE  LocalInv'
  BY DEF LocalInv, UnusedInv, LocalCloseIsOwn, ToldLocal, OwnsID

(* A new session has an empty channel, and makes an ID shared, not owned.  *)
LEMMA RegisterUdpSessionLocal ==
    ASSUME NEW s \in Sessions, NEW x \in IDs, IInv, LocalInv, RegisterUdpSession(s, x)
    PROVE  LocalInv'
<1> USE DEF IInv, SessionTypes, RegisterUdpSession
<1>1. UnusedInv'
  BY DEF LocalInv, UnusedInv
<1>2. ASSUME NEW t \in Sessions, OwnsID(t)', ToldLocal(t)' PROVE pc'[t] # "serving"
  <2>1. closeChan[t] # <<>>
    BY <1>2 DEF ToldLocal
  <2>2. pc[t] \notin {"unused", "registering", "refused"} /\ t # s
    BY <2>1 DEF FreshInv
  <2>3. id[t] \in IDs /\ id[s] = Nil
    BY <2>2 DEF IdInv, LocalInv, UnusedInv
  <2>4. OwnsID(t)
    BY <1>2, <2>2, <2>3, IDsAssumption DEF OwnsID
  <2> QED  BY <1>2, <2>2, <2>4 DEF LocalInv, LocalCloseIsOwn, ToldLocal
<1> QED  BY <1>1, <1>2 DEF LocalInv, LocalCloseIsOwn, ToldLocal

(* The manager tells "local" only to the session it tracks for the ID of   *)
(* the one that closes: itself, if the ID is its own.                      *)
LEMMA CloseUDPSessionLocal ==
    ASSUME NEW s \in Sessions, IInv, LocalInv, CloseUDPSession(s)
    PROVE  LocalInv'
<1> USE DEF IInv, SessionTypes
<1>1. pc' = [pc EXCEPT ![s] = "done"] /\ id' = id /\ id[s] \in IDs
  BY DEF CloseUDPSession, IdInv
<1>2. UnusedInv'
  BY <1>1 DEF LocalInv, UnusedInv
<1>3. ASSUME NEW t \in Sessions, OwnsID(t)', ToldLocal(t)' PROVE pc'[t] # "serving"
  <2>1. CASE t = s
    BY <1>1, <2>1
  <2>2. CASE t # s
    <3>1. id[t] # id[s] /\ OwnsID(t)
      BY <1>1, <1>3, <2>2 DEF OwnsID
    <3>2. closeChan'[t] = closeChan[t]
      <4>1. CASE UNCHANGED closeChan
        BY <4>1
      <4>2. CASE Unregister(id[s], "local")
        <5>1. t # tracked[id[s]]
          BY <1>1, <3>1, SessionAssumption DEF OwnerInv
        <5> QED  BY <1>1, <4>2, <5>1, UnregisterFacts DEF Reasons
      <4> QED  BY <4>1, <4>2 DEF CloseUDPSession
    <3> QED  BY <1>1, <1>3, <2>2, <3>1, <3>2 DEF LocalInv, LocalCloseIsOwn, ToldLocal
  <2> QED  BY <2>1, <2>2
<1> QED  BY <1>2, <1>3 DEF LocalInv, LocalCloseIsOwn, ToldLocal

LEMMA StepLocal == IInv /\ LocalInv /\ [Next]_vars => LocalInv'
<1> SUFFICES ASSUME IInv, LocalInv, [Next]_vars PROVE LocalInv'
  OBVIOUS
<1> USE DEF IInv, SessionTypes
<1>1. ASSUME NEW s \in Sessions, RegisterSessionFails(s) \/ RegisterSession(s) PROVE LocalInv'
  <2>1. closeChan[s] = <<>> /\ ~ToldLocal(s)
    BY <1>1 DEF RegisterSessionFails, RegisterSession, FreshInv, ToldLocal
  <2> QED
    BY <1>1, <2>1, QuietLocal DEF RegisterSessionFails, RegisterSession, ToldLocal
<1>2. ASSUME NEW s \in Sessions, ReaderEnds(s) PROVE LocalInv'
  <2>1. \A t \in Sessions : ToldLocal(t)' => ToldLocal(t)
    BY <1>2, AppendFacts DEF ReaderEnds, ToldLocal, Reasons
  <2> QED  BY <1>2, <2>1, QuietLocal DEF ReaderEnds
<1>3. ASSUME NEW s \in Sessions, ServeCloses(s) PROVE LocalInv'
  <2>1. \A t \in Sessions : ToldLocal(t)' => ToldLocal(t)
    BY <1>3, TailFacts DEF ServeCloses, ToldLocal
  <2> QED  BY <1>3, <2>1, QuietLocal DEF ServeCloses, Ends, AfterServe
<1>4. ASSUME NEW s \in Sessions, ServeIdles(s) \/ ServeLosesConnection(s) PROVE LocalInv'
  BY <1>4, QuietLocal DEF ServeIdles, ServeLosesConnection, Ends, AfterServe, ToldLocal
<1>5. ASSUME NEW x \in IDs, UnregisterUdpSession(x) PROVE LocalInv'
  <2>1. Unregister(x, "remote") /\ UNCHANGED <<pc, id>>
    BY <1>5 DEF UnregisterUdpSession, RemoteReason, sessionVars
  <2>2. \A t \in Sessions : \/ closeChan'[t] = closeChan[t]
                            \/ closeChan'[t] = Append(closeChan[t], "remote")
    BY <2>1, UnregisterFacts DEF Reasons
  <2>3. \A t \in Sessions : ToldLocal(t)' => ToldLocal(t)
    BY <2>2, RemoteTellsNoLocal
  <2> QED  BY <2>1, <2>3, QuietLocal
<1>6. CASE ManagerStops
  <2>1. \A t \in Sessions : \/ closeChan'[t] = closeChan[t]
                            \/ closeChan'[t] = Append(closeChan[t], "remote")
    BY <1>6 DEF ManagerStops
  <2>2. \A t \in Sessions : ToldLocal(t)' => ToldLocal(t)
    BY <2>1, RemoteTellsNoLocal
  <2> QED  BY <1>6, <2>2, QuietLocal DEF ManagerStops, sessionVars
<1>7. CASE ContextDone \/ ConnectionDone \/ UNCHANGED vars
  BY <1>7, QuietLocal DEF ContextDone, ConnectionDone, vars, sessionVars, ToldLocal
<1> QED
  BY <1>1, <1>2, <1>3, <1>4, <1>5, <1>6, <1>7, RegisterUdpSessionLocal, CloseUDPSessionLocal
     DEF Next

(* LocalCloseIsOwn: a session with an ID of its own is never told, while   *)
(* it serves, that this side closed it.                                    *)
THEOREM OwnClose == Spec => []LocalCloseIsOwn
<1>1. Init => LocalInv
  BY DEF Init, LocalInv, UnusedInv, LocalCloseIsOwn
<1>2. LocalInv => LocalCloseIsOwn
  BY DEF LocalInv
<1> QED  BY <1>1, <1>2, Invariant, StepLocal, PTL DEF Spec

(* SessionsSound: all of the above, for any sessions and IDs.              *)
THEOREM SoundSessions == Spec => []SessionsSound
  BY TypeCorrect, NeverBlocks, NothingStale, OwnClose, PTL DEF SessionsSound

-----------------------------------------------------------------------------
(***************************************************************************)
(* The other datagrams: ICMPProxy.  Who uses an echo ID of macOS is a      *)
(* relation between IDs and keys.  Only GetOrAssign adds to it, and        *)
(* outside revisited it makes the ID one key's alone; every other step     *)
(* passes a use on or ends it.  A port of Linux is never given out twice,  *)
(* so that whoever listens on it, registered it or was sent through it has *)
(* the key it was opened for.                                              *)
(***************************************************************************)
Flows == [id: Keys \cup EchoIDs, key: Keys, mux: Conns, echo: Int, fresh: BOOLEAN]
RouterStates == [pc: {"idle", "assign", "register", "send", "roundtrip"},
                 key: Keys \cup {NoKey}, echo: Int]

ICMPTypeOK ==
    /\ os \in {"linux", "darwin", "windows"}
    /\ router \in [Conns -> RouterStates]
    /\ mapping \in [Keys -> EchoIDs \cup {NoID}]
    /\ assignment \in [EchoIDs -> BOOLEAN] /\ nextAssignment \in 0 .. NumEchoIDs
    /\ funnels \subseteq Flows
    /\ wire \subseteq [echo: Int, asker: Keys]
    /\ listeners \subseteq [id: Keys, key: Keys, mux: Conns, echo: Int]
    /\ sockets \subseteq Int /\ rover \in Nat

ChannelsOK == packetDemuxChan \in [Conns -> Seq(Datagrams)]

Busy(c) == router[c].pc # "idle"

(* Where a router can be, by platform, and what it then holds.             *)
RouterInv ==
    \A c \in Conns :
        /\ Busy(c) => router[c].key \in Keys
        /\ router[c].pc = "assign" => os = "darwin" /\ router[c].echo = NoID
        /\ router[c].pc = "register" =>
              \/ os = "linux" /\ router[c].echo = NoID
              \/ os = "darwin" /\ router[c].echo \in EchoIDs
        /\ router[c].pc = "send" =>
              \/ os = "linux" /\ router[c].echo \in 1 .. rover
              \/ os = "darwin" /\ router[c].echo \in EchoIDs
        /\ router[c].pc = "roundtrip" => os = "windows" /\ router[c].echo = NoID
        /\ router[c].pc = "idle" => router[c].echo = NoID

(* Which flows there can be, by platform.                                  *)
PlatformInv ==
    /\ os = "linux" => /\ \A f \in funnels : f.id = f.key /\ f.echo \in 1 .. rover
                       /\ \A l \in listeners : l.id = l.key /\ l.echo \in 1 .. rover
                       /\ \A w \in wire : w.echo \in 1 .. rover
    /\ os = "darwin" => /\ \A f \in funnels : f.id = f.echo /\ f.echo \in EchoIDs
                        /\ \A w \in wire : w.echo \in EchoIDs
                        /\ sockets = {} /\ listeners = {}
    /\ os = "windows" => funnels = {} /\ wire = {} /\ sockets = {} /\ listeners = {}

(* Linux: what refers to a port refers to its listener's key.              *)
PortInv ==
    \A l \in listeners :
        /\ \A f \in funnels : f.echo = l.echo => f.key = l.key
        /\ \A w \in wire : w.echo = l.echo => w.asker = l.key
        /\ \A c \in Conns : router[c].pc = "send" /\ router[c].echo = l.echo => router[c].key = l.key

(* An echo ID is assigned to one key.                                      *)
MapInv ==
    \A k \in Keys : mapping[k] # NoID =>
        /\ assignment[mapping[k]]
        /\ \A j \in Keys : mapping[j] = mapping[k] => j = k

Uses(i, k) ==
    \/ \E f \in funnels : f.echo = i /\ f.key = k
    \/ \E w \in wire : w.echo = i /\ w.asker = k
    \/ \E c \in Conns : router[c].echo = i /\ router[c].key = k
    \/ mapping[k] = i

OneUser ==
    os = "darwin" => \A i \in EchoIDs \ revisited : \A j, k \in Keys : Uses(i, j) /\ Uses(i, k) => j = k

ICMPInv ==
    /\ ICMPTypeOK /\ ChannelsOK /\ RouterInv /\ PlatformInv /\ PortInv /\ MapInv /\ OneUser
    /\ ReplyFindsItsAsker /\ NoFlowLeak

-----------------------------------------------------------------------------
LEMMA EchoIDsFact == EchoIDs \subseteq Int /\ NoID \in Int /\ NoID \notin EchoIDs
BY EchoIDsAssumption DEF EchoIDs, NoID

(* The loops of getOrAssign find a free ID when there is one.              *)
LEMMA SmallestExists ==
    ASSUME NEW T, T \subseteq Nat, T # {} PROVE \E x \in T : \A y \in T : x <= y
<1> DEFINE R == {ss \in Nat \X Nat : ss[1] < ss[2]}
<1>1. IsWellFoundedOn(R, Nat) BY NatLessThanWellFounded, Zenon DEF OpToRel
<1> HIDE DEF R
<1>2. PICK x \in T : \A y \in T : ~(<<y, x>> \in R) BY <1>1, WFMin
<1>3. ASSUME NEW y \in T PROVE x <= y
  <2>1. <<y, x>> \in Nat \X Nat OBVIOUS
  <2>2. ~(y < x) BY <1>2, <2>1 DEF R
  <2> QED BY <2>2
<1> QED BY <1>3

LEMMA FirstFreeFact ==
    ASSUME ICMPTypeOK, NEW start \in 0 .. NumEchoIDs, FirstFree(start) # NoID
    PROVE  FirstFree(start) \in EchoIDs /\ ~assignment[FirstFree(start)]
<1> DEFINE free == {i \in EchoIDs : ~assignment[i]}
           dist(i) == (i - start) % NumEchoIDs
           T == {dist(i) : i \in free}
<1>1. free # {} BY DEF FirstFree
<1>2. \A i \in free : dist(i) \in Nat BY EchoIDsAssumption DEF EchoIDs
<1>3. T \subseteq Nat /\ T # {} BY <1>1, <1>2
<1> HIDE DEF T
<1>4. PICK d \in T : \A e \in T : d <= e BY <1>3, SmallestExists
<1>5. PICK i \in free : d = dist(i) BY <1>4 DEF T
<1>6. \A j \in free : dist(i) <= dist(j) BY <1>4, <1>5 DEF T
<1>7. FirstFree(start) = CHOOSE x \in free : \A j \in free : dist(x) <= dist(j)
  BY <1>1 DEF FirstFree
<1> HIDE DEF dist
<1>8. FirstFree(start) \in free BY <1>5, <1>6, <1>7
<1> QED BY <1>8

(* G has the flows of F, but for when they were last active.               *)
Same(f, g) == f.id = g.id /\ f.key = g.key /\ f.mux = g.mux /\ f.echo = g.echo
SameFlows(F, G) == /\ \A g \in G : \E f \in F : Same(f, g)
                   /\ \A f \in F : \E g \in G : Same(f, g)

LEMMA FreshFact ==
    ASSUME NEW f \in Flows, NEW b \in BOOLEAN
    PROVE  [f EXCEPT !.fresh = b] \in Flows /\ Same(f, [f EXCEPT !.fresh = b])
BY DEF Flows, Same

LEMMA TouchFact ==
    ASSUME NEW F \in SUBSET Flows, NEW i
    PROVE  Touch(F, i) \subseteq Flows /\ SameFlows(F, Touch(F, i))
<1> DEFINE t(f) == IF f.id = i THEN [f EXCEPT !.fresh = TRUE] ELSE f
<1>1. ASSUME NEW f \in F PROVE t(f) \in Flows /\ Same(f, t(f))
  BY FreshFact DEF Same
<1>2. Touch(F, i) = {t(f) : f \in F} BY DEF Touch
<1> HIDE DEF t
<1> QED BY <1>1, <1>2 DEF SameFlows

LEMMA CloseFact ==
    ASSUME ICMPTypeOK, MapInv, NEW F \in SUBSET funnels, CloseFunnels(F)
    PROVE  /\ mapping' \in [Keys -> EchoIDs \cup {NoID}]
           /\ assignment' \in [EchoIDs -> BOOLEAN]
           /\ MapInv'
           /\ \A k \in Keys, i \in EchoIDs : mapping'[k] = i => mapping[k] = i
           /\ \A k \in Keys, i \in EchoIDs : assignment'[i] /\ mapping[k] = i =>
                 /\ mapping'[k] = i
                 /\ ~\E f \in F : f.key = k /\ f.echo = i
           /\ \A i \in EchoIDs : assignment'[i] => assignment[i]
           /\ sockets' \subseteq sockets /\ \A f \in F : f.echo \notin sockets'
<1> DEFINE released == {f \in F : mapping[f.key] = f.echo}
<1>1. /\ sockets' = sockets \ {f.echo : f \in F}
      /\ mapping' = [k \in Keys |-> IF \E f \in released : f.key = k THEN NoID ELSE mapping[k]]
      /\ assignment' = [i \in EchoIDs |-> assignment[i] /\ ~\E f \in released : f.echo = i]
  BY DEF CloseFunnels
<1> HIDE DEF released
<1>2. /\ mapping \in [Keys -> EchoIDs \cup {NoID}] /\ assignment \in [EchoIDs -> BOOLEAN]
      /\ \A f \in F : f.key \in Keys
  BY DEF ICMPTypeOK, Flows
<1>3. mapping' \in [Keys -> EchoIDs \cup {NoID}] BY <1>1, <1>2
<1>4. assignment' \in [EchoIDs -> BOOLEAN] BY <1>1
<1>5. ASSUME NEW k \in Keys, mapping'[k] # NoID PROVE mapping'[k] = mapping[k] BY <1>1, <1>5
<1>6. ASSUME NEW k \in Keys, NEW i \in EchoIDs, assignment'[i], mapping[k] = i
      PROVE  mapping'[k] = i /\ ~\E f \in F : f.key = k /\ f.echo = i
  <2>1. ~\E f \in released : f.echo = i BY <1>1, <1>6
  <2>2. ~\E f \in F : f.key = k /\ f.echo = i BY <1>6, <2>1 DEF released
  <2>3. ~\E f \in released : f.key = k BY <1>6, <2>1 DEF released
  <2> QED BY <1>1, <1>6, <2>2, <2>3
<1>7. ASSUME NEW k \in Keys, mapping'[k] # NoID PROVE assignment'[mapping'[k]]
  <2>1. mapping[k] # NoID /\ mapping[k] \in EchoIDs /\ mapping'[k] = mapping[k]
    BY <1>2, <1>5, <1>7
  <2>2. assignment[mapping[k]] /\ \A j \in Keys : mapping[j] = mapping[k] => j = k
    BY <2>1 DEF MapInv
  <2>3. ~\E f \in released : f.key = k BY <1>1, <1>7
  <2>4. ~\E f \in released : f.echo = mapping[k]
    BY <1>2, <2>2, <2>3 DEF released
  <2> QED BY <1>1, <2>1, <2>2, <2>4
<1>8. MapInv' BY <1>5, <1>7 DEF MapInv
<1>9. \A i \in EchoIDs : assignment'[i] => assignment[i] BY <1>1
<1>10. \A k \in Keys, i \in EchoIDs : mapping'[k] = i => mapping[k] = i
  BY <1>5, EchoIDsFact
<1>11. sockets' \subseteq sockets /\ \A f \in F : f.echo \notin sockets' BY <1>1
<1> QED BY <1>3, <1>4, <1>6, <1>8, <1>9, <1>10, <1>11

LEMMA UsesShrink ==
    ASSUME OneUser, os' = os, revisited' = revisited,
           \A i \in EchoIDs, k \in Keys : Uses(i, k)' => Uses(i, k)
    PROVE  OneUser'
BY DEF OneUser

-----------------------------------------------------------------------------
LEMMA ICMPInitInv == ICMPInit => ICMPInv
<1> SUFFICES ASSUME ICMPInit PROVE ICMPInv OBVIOUS
<1> USE DEF ICMPInit
<1>1. ChannelsOK BY DEF ChannelsOK
<1>2. Idle \in RouterStates /\ Idle.pc = "idle" /\ Idle.echo = NoID
  BY EchoIDsFact DEF Idle, RouterStates
<1>3. ICMPTypeOK BY <1>2, EchoIDsAssumption DEF ICMPTypeOK
<1>4. RouterInv BY <1>2 DEF RouterInv, Busy
<1>5. PlatformInv /\ PortInv /\ MapInv BY DEF PlatformInv, PortInv, MapInv
<1>6. ASSUME NEW i \in EchoIDs, NEW k \in Keys PROVE ~Uses(i, k)
  BY <1>2, EchoIDsFact DEF Uses
<1>7. OneUser BY <1>6 DEF OneUser
<1>8. ReplyFindsItsAsker BY DEF ReplyFindsItsAsker, NoReply, Reply
<1>9. NoFlowLeak BY DEF NoFlowLeak
<1> QED BY <1>1, <1>3, <1>4, <1>5, <1>7, <1>8, <1>9 DEF ICMPInv

(* Packets come, connections end, nothing happens.                         *)
LEMMA QuietInv ==
    ASSUME ICMPInv, UNCHANGED <<os, router, flowVars, wire, got>>, ChannelsOK'
    PROVE  ICMPInv'
<1> USE DEF flowVars, trackerVars
<1>1. ICMPTypeOK' BY DEF ICMPInv, ICMPTypeOK
<1>2. RouterInv' BY DEF ICMPInv, RouterInv, Busy
<1>3. PlatformInv' BY DEF ICMPInv, PlatformInv
<1>4. PortInv' /\ MapInv' BY DEF ICMPInv, PortInv, MapInv
<1>5. OneUser' BY DEF ICMPInv, OneUser, Uses
<1>6. ReplyFindsItsAsker' BY DEF ICMPInv, ReplyFindsItsAsker
<1>7. NoFlowLeak' BY DEF ICMPInv, NoFlowLeak
<1> QED BY <1>1, <1>2, <1>3, <1>4, <1>5, <1>6, <1>7 DEF ICMPInv

LEMMA DemuxInv == ASSUME ICMPInv, NEW c \in Conns, Demux(c) PROVE ICMPInv'
<1>1. PICK d \in Datagrams : packetDemuxChan' = [packetDemuxChan EXCEPT ![c] = Append(@, d)]
  BY DEF Demux
<1>2. packetDemuxChan \in [Conns -> Seq(Datagrams)] BY DEF ICMPInv, ChannelsOK
<1>3. ChannelsOK' BY <1>1, <1>2 DEF ChannelsOK
<1>4. UNCHANGED <<os, router, flowVars, wire, got>> BY DEF Demux
<1> QED BY <1>3, <1>4, QuietInv

LEMMA ConnectionEndsInv == ASSUME ICMPInv, NEW c \in Conns, ConnectionEnds(c) PROVE ICMPInv'
<1>1. UNCHANGED <<os, router, flowVars, wire, got>> /\ ChannelsOK'
  BY DEF ConnectionEnds, ICMPInv, ChannelsOK
<1> QED BY <1>1, QuietInv

(* A step of the router of c that leaves flows and requests alone, when it *)
(* neither gives up an echo ID nor takes one.                              *)
LEMMA RouterStepInv ==
    ASSUME ICMPInv, NEW c \in Conns, NEW r \in RouterStates,
           router' = [router EXCEPT ![c] = r], r.echo = NoID,
           r.pc \in {"idle", "assign", "register", "roundtrip"},
           r.pc # "idle" => r.key \in Keys,
           r.pc = "assign" => os = "darwin", r.pc = "register" => os = "linux",
           r.pc = "roundtrip" => os = "windows",
           router[c].pc # "register",
           UNCHANGED <<os, flowVars, wire>>, ChannelsOK', ReplyFindsItsAsker'
    PROVE  ICMPInv'
<1> USE DEF flowVars, trackerVars
<1>1. ICMPTypeOK /\ RouterInv /\ PortInv BY DEF ICMPInv
<1>2. router'[c] = r /\ \A d \in Conns : d # c => router'[d] = router[d]
  BY <1>1 DEF ICMPTypeOK
<1>3. ICMPTypeOK' BY <1>1 DEF ICMPTypeOK
<1>4. RouterInv' BY <1>1, <1>2 DEF RouterInv, Busy
<1>5. PlatformInv' BY DEF ICMPInv, PlatformInv
<1>6. PortInv' BY <1>1, <1>2 DEF PortInv
<1>7. MapInv' BY DEF ICMPInv, MapInv
<1>8. ASSUME NEW i \in EchoIDs, NEW k \in Keys, Uses(i, k)' PROVE Uses(i, k)
  <2>1. (\E d \in Conns : router'[d].echo = i /\ router'[d].key = k) =>
           \E d \in Conns : router[d].echo = i /\ router[d].key = k
    BY <1>2, EchoIDsFact
  <2> QED BY <1>8, <2>1 DEF Uses
<1>9. OneUser' BY <1>8, UsesShrink DEF ICMPInv
<1>10. NoFlowLeak'
  <2>1. ASSUME NEW k, NEW i, NEW d \in Conns, router[d] = [pc |-> "register", key |-> k, echo |-> i]
        PROVE  router'[d] = [pc |-> "register", key |-> k, echo |-> i]
    BY <1>2, <2>1
  <2> QED BY <2>1 DEF ICMPInv, NoFlowLeak
<1> QED BY <1>3, <1>4, <1>5, <1>6, <1>7, <1>9, <1>10 DEF ICMPInv

LEMMA HandlePacketInv == ASSUME ICMPInv, NEW c \in Conns, HandlePacket(c) PROVE ICMPInv'
<1> DEFINE d == Head(packetDemuxChan[c])
           r == IF d.kind = "echo"
                THEN [pc |-> IF os = "darwin" THEN "assign" ELSE
                             IF os = "linux" THEN "register" ELSE "roundtrip",
                      key |-> d.key, echo |-> NoID]
                ELSE Idle
<1>1. packetDemuxChan[c] \in Seq(Datagrams) /\ packetDemuxChan[c] # <<>>
  BY DEF HandlePacket, ICMPInv, ChannelsOK
<1>2. d \in Datagrams /\ Tail(packetDemuxChan[c]) \in Seq(Datagrams) BY <1>1
<1>3. ChannelsOK' BY <1>2 DEF HandlePacket, ICMPInv, ChannelsOK
<1> HIDE DEF d
<1>4. d.kind = "echo" => d.key \in Keys BY <1>2 DEF Datagrams, Decoded
<1>5. os \in {"linux", "darwin", "windows"} /\ router[c].pc = "idle"
  BY DEF ICMPInv, ICMPTypeOK, HandlePacket
<1>6. /\ r \in RouterStates /\ r.echo = NoID
      /\ r.pc \in {"idle", "assign", "register", "roundtrip"}
      /\ r.pc # "idle" => r.key \in Keys
      /\ r.pc = "assign" => os = "darwin"
      /\ r.pc = "register" => os = "linux"
      /\ r.pc = "roundtrip" => os = "windows"
  BY <1>4, <1>5, EchoIDsFact DEF RouterStates, Idle
<1>7. router' = [router EXCEPT ![c] = r] /\ UNCHANGED <<os, flowVars, wire>>
  BY DEF HandlePacket, d
<1>8. ReplyFindsItsAsker'
  <2>1. got' = IF d.kind = "expired" THEN TTLExceeded(d.key) ELSE got BY DEF HandlePacket, d
  <2> QED BY <2>1 DEF ICMPInv, ReplyFindsItsAsker, TTLExceeded, Reply
<1> HIDE DEF r
<1> QED BY <1>3, <1>5, <1>6, <1>7, <1>8, RouterStepInv

LEMMA IcmpEchoRoundtripInv ==
    ASSUME ICMPInv, NEW c \in Conns, IcmpEchoRoundtrip(c) PROVE ICMPInv'
<1>1. Idle \in RouterStates /\ Idle.pc = "idle" /\ Idle.echo = NoID
  BY EchoIDsFact DEF Idle, RouterStates
<1>2. /\ router' = [router EXCEPT ![c] = Idle] /\ UNCHANGED <<os, flowVars, wire>>
      /\ router[c].pc # "register"
  BY DEF IcmpEchoRoundtrip
<1>3. ChannelsOK' BY DEF IcmpEchoRoundtrip, ICMPInv, ChannelsOK
<1>4. PICK resp \in EchoResp : got' = HandleEchoReply(router[c].key, resp)
  BY DEF IcmpEchoRoundtrip
<1>5. ReplyFindsItsAsker'
  BY <1>4 DEF ICMPInv, ReplyFindsItsAsker, HandleEchoReply, Reply
<1> QED BY <1>1, <1>2, <1>3, <1>5, RouterStepInv

(* A request is answered, or never will be: its use ends.                  *)
LEMMA WireStepInv ==
    ASSUME ICMPInv, wire' \subseteq wire, SameFlows(funnels, funnels'), funnels' \subseteq Flows,
           UNCHANGED <<os, router, trackerVars, sockets, rover, listeners>>, ChannelsOK',
           ReplyFindsItsAsker'
    PROVE  ICMPInv'
<1> USE DEF trackerVars
<1>1. ICMPTypeOK /\ PlatformInv /\ PortInv /\ NoFlowLeak BY DEF ICMPInv
<1>2. /\ \A g \in funnels' : \E f \in funnels : f.id = g.id /\ f.key = g.key /\ f.echo = g.echo
      /\ \A f \in funnels : \E g \in funnels' : f.id = g.id /\ f.key = g.key /\ f.echo = g.echo
  BY DEF SameFlows, Same
<1>3. ICMPTypeOK' BY <1>1 DEF ICMPTypeOK
<1>4. RouterInv' BY DEF ICMPInv, RouterInv, Busy
<1>5. PlatformInv'
  <2>1. CASE os = "linux" BY <1>1, <1>2, <2>1 DEF PlatformInv
  <2>2. CASE os = "darwin" BY <1>1, <1>2, <2>2 DEF PlatformInv
  <2>3. CASE os = "windows" BY <1>1, <1>2, <2>3 DEF PlatformInv
  <2> QED BY <1>1, <2>1, <2>2, <2>3 DEF ICMPTypeOK
<1>6. PortInv' BY <1>1, <1>2 DEF PortInv
<1>7. MapInv' BY DEF ICMPInv, MapInv
<1>8. ASSUME NEW i \in EchoIDs, NEW k \in Keys, Uses(i, k)' PROVE Uses(i, k)
  BY <1>2, <1>8 DEF Uses
<1>9. OneUser' BY <1>8, UsesShrink DEF ICMPInv
<1>10. NoFlowLeak'
  <2>1. ASSUME NEW p \in sockets'
        PROVE  (\E f \in funnels' : f.echo = p) /\ \E l \in listeners' : l.echo = p
    BY <1>1, <1>2 DEF NoFlowLeak
  <2>2. ASSUME os' = "darwin", NEW i \in EchoIDs \ revisited', assignment'[i]
        PROVE  \E k \in Keys :
                  /\ mapping'[k] = i
                  /\ \/ \E f \in funnels' : f.echo = i /\ f.key = k
                     \/ \E c \in Conns : router'[c] = [pc |-> "register", key |-> k, echo |-> i]
    <3>1. PICK k \in Keys :
             /\ mapping[k] = i
             /\ \/ \E f \in funnels : f.echo = i /\ f.key = k
                \/ \E c \in Conns : router[c] = [pc |-> "register", key |-> k, echo |-> i]
      BY <1>1, <2>2 DEF NoFlowLeak
    <3> QED BY <1>2, <3>1
  <2> QED BY <2>1, <2>2 DEF NoFlowLeak
<1> QED BY <1>3, <1>4, <1>5, <1>6, <1>7, <1>9, <1>10 DEF ICMPInv

LEMMA UnansweredInv == ASSUME ICMPInv, NEW w \in wire, Unanswered(w) PROVE ICMPInv'
<1>1. /\ wire' \subseteq wire /\ UNCHANGED <<os, router, trackerVars, sockets, rover, listeners>>
      /\ ChannelsOK' /\ funnels' = funnels /\ got' = got
  BY DEF Unanswered, flowVars, ICMPInv, ChannelsOK
<1>2. ReplyFindsItsAsker' BY <1>1 DEF ICMPInv, ReplyFindsItsAsker
<1>3. SameFlows(funnels, funnels') /\ funnels' \subseteq Flows
  BY <1>1 DEF SameFlows, Same, ICMPInv, ICMPTypeOK
<1> QED BY <1>1, <1>2, <1>3, WireStepInv

LEMMA ReturnToSrcInv == ASSUME ICMPInv, NEW w \in wire, ReturnToSrc(w) PROVE ICMPInv'
<1>1. /\ wire' \subseteq wire /\ UNCHANGED <<os, router, trackerVars, sockets, rover, listeners>>
      /\ ChannelsOK'
  BY DEF ReturnToSrc, ICMPInv, ChannelsOK
<1>2. PICK f \in (IF os = "linux" THEN ListeningFlows(w) ELSE FlowsOfEchoID(w)) :
        got' = Reply(f.key, w.asker, w.echo \in revisited) /\ funnels' = Touch(funnels, f.id)
  BY DEF ReturnToSrc
<1>3. SameFlows(funnels, funnels') /\ funnels' \subseteq Flows
  BY <1>2, TouchFact DEF ICMPInv, ICMPTypeOK
<1>4. w.echo \in revisited \/ f.key = w.asker
  <2>1. CASE os = "linux"
    <3>1. f \in listeners /\ f.echo = w.echo BY <1>2, <2>1 DEF ListeningFlows
    <3> QED BY <3>1 DEF ICMPInv, PortInv
  <2>2. CASE os = "darwin"
    <3>1. f \in funnels /\ f.echo = w.echo BY <1>2, <2>2 DEF FlowsOfEchoID
    <3>2. w.echo \in EchoIDs /\ f.key \in Keys /\ w.asker \in Keys
      BY <2>2, <3>1 DEF ICMPInv, PlatformInv, ICMPTypeOK, Flows
    <3>3. Uses(w.echo, f.key) /\ Uses(w.echo, w.asker) BY <3>1 DEF Uses
    <3> QED BY <2>2, <3>2, <3>3 DEF ICMPInv, OneUser
  <2>3. CASE os = "windows" BY <2>3 DEF ICMPInv, PlatformInv
  <2> QED BY <2>1, <2>2, <2>3 DEF ICMPInv, ICMPTypeOK
<1>5. ReplyFindsItsAsker'
  <2>1. got'.to = f.key /\ got'.asker = w.asker BY <1>2 DEF Reply
  <2>2. got'.reused = (w.echo \in revisited) BY <1>2 DEF Reply
  <2> QED BY <1>4, <2>1, <2>2 DEF ReplyFindsItsAsker
<1> QED BY <1>1, <1>3, <1>5, WireStepInv

(* What holds the ID i on macOS.                                           *)
Held(i) ==
    \E k \in Keys : /\ mapping[k] = i
                    /\ \/ \E f \in funnels : f.echo = i /\ f.key = k
                       \/ \E c \in Conns : router[c] = [pc |-> "register", key |-> k, echo |-> i]

LEMMA GetOrAssignInv == ASSUME ICMPInv, NEW c \in Conns, GetOrAssign(c) PROVE ICMPInv'
<1> DEFINE k == router[c].key
           start == IF nextAssignment = NumEchoIDs THEN 0 ELSE nextAssignment
           new == FirstFree(start)
           r(i) == [router[c] EXCEPT !.pc = "register", !.echo = i]
<1>1. ICMPTypeOK /\ RouterInv /\ PlatformInv /\ PortInv /\ MapInv /\ OneUser /\ NoFlowLeak
  BY DEF ICMPInv
<1>2. /\ router[c].pc = "assign" /\ os = "darwin" /\ k \in Keys /\ router[c] \in RouterStates
      /\ router[c].echo = NoID /\ mapping[k] \in EchoIDs \cup {NoID}
  BY <1>1 DEF GetOrAssign, RouterInv, Busy, ICMPTypeOK
<1>3. start \in 0 .. NumEchoIDs BY <1>1, EchoIDsAssumption DEF ICMPTypeOK
<1>4. /\ UNCHANGED <<os, funnels, sockets, rover, listeners, wire, got>>
      /\ ChannelsOK' /\ ReplyFindsItsAsker'
  BY DEF GetOrAssign, ICMPInv, ChannelsOK, ReplyFindsItsAsker
<1>5. ASSUME NEW i \in EchoIDs
      PROVE  r(i) \in RouterStates /\ r(i).pc = "register" /\ r(i).key = k /\ r(i).echo = i
             /\ r(i) = [pc |-> "register", key |-> k, echo |-> i]
  <2>1. r(i) \in RouterStates /\ r(i).pc = "register" /\ r(i).key = k /\ r(i).echo = i
    BY <1>2, EchoIDsFact DEF RouterStates
  <2> HIDE DEF r, k
  <2>2. r(i) = [pc |-> r(i).pc, key |-> r(i).key, echo |-> r(i).echo] BY <2>1 DEF RouterStates
  <2> QED BY <2>1, <2>2
<1>6. CASE mapping[k] = NoID /\ new = NoID
  <2>1. router' = [router EXCEPT ![c] = Idle] /\ UNCHANGED trackerVars
    BY <1>6 DEF GetOrAssign
  <2>2. Idle \in RouterStates /\ Idle.pc = "idle" /\ Idle.echo = NoID
    BY EchoIDsFact DEF Idle, RouterStates
  <2>3. UNCHANGED <<os, flowVars, wire>> BY <1>4, <2>1 DEF flowVars
  <2> QED BY <1>2, <1>4, <2>1, <2>2, <2>3, RouterStepInv
<1>7. ASSUME NEW i \in EchoIDs, router' = [router EXCEPT ![c] = r(i)],
             mapping' \in [Keys -> EchoIDs \cup {NoID}], assignment' \in [EchoIDs -> BOOLEAN],
             nextAssignment' \in 0 .. NumEchoIDs, mapping'[k] = i, MapInv', OneUser',
             \A j \in EchoIDs : j # i /\ assignment'[j] => assignment[j] /\ (j \notin revisited' => j \notin revisited),
             \A j \in Keys : j # k => mapping'[j] = mapping[j],
             mapping[k] \in {i, NoID}
      PROVE  ICMPInv'
  <2> HIDE DEF r, k
  <2>1. router'[c] = r(i) /\ \A d \in Conns : d # c => router'[d] = router[d]
    BY <1>1, <1>7 DEF ICMPTypeOK
  <2>2. ICMPTypeOK' BY <1>1, <1>4, <1>5, <1>7 DEF ICMPTypeOK
  <2>3. RouterInv' BY <1>1, <1>2, <1>4, <1>5, <2>1 DEF RouterInv, Busy
  <2>4. PlatformInv' BY <1>1, <1>4 DEF PlatformInv
  <2>5. PortInv' BY <1>1, <1>2, <1>4 DEF PortInv, PlatformInv
  <2>6. NoFlowLeak'
    <3>1. ASSUME NEW j \in EchoIDs \ revisited', assignment'[j] PROVE Held(j)'
      <4>1. CASE j = i BY <1>2, <1>5, <1>7, <2>1, <4>1 DEF Held
      <4>2. CASE j # i
        <5>1. Held(j) BY <1>1, <1>2, <1>7, <3>1, <4>2 DEF NoFlowLeak, Held
        <5>2. PICK x \in Keys : /\ mapping[x] = j
                                /\ \/ \E f \in funnels : f.echo = j /\ f.key = x
                                   \/ \E d \in Conns : router[d] = [pc |-> "register", key |-> x, echo |-> j]
          BY <5>1 DEF Held
        <5>3. x # k BY <1>7, <4>2, <5>2, EchoIDsFact
        <5>4. mapping'[x] = j BY <1>7, <5>2, <5>3
        <5>5. ASSUME NEW d \in Conns, router[d] = [pc |-> "register", key |-> x, echo |-> j]
              PROVE  router'[d] = [pc |-> "register", key |-> x, echo |-> j]
          BY <1>2, <2>1, <5>5
        <5> QED BY <1>4, <5>2, <5>4, <5>5 DEF Held
      <4> QED BY <4>1, <4>2
    <3>2. \A p \in sockets' : (\E f \in funnels' : f.echo = p) /\ \E l \in listeners' : l.echo = p
      BY <1>1, <1>4 DEF NoFlowLeak
    <3> QED BY <3>1, <3>2 DEF NoFlowLeak, Held
  <2> QED BY <1>4, <1>7, <2>2, <2>3, <2>4, <2>5, <2>6 DEF ICMPInv
<1>8. CASE mapping[k] # NoID
  <2>1. router' = [router EXCEPT ![c] = r(mapping[k])] /\ UNCHANGED trackerVars
    BY <1>8 DEF GetOrAssign
  <2>2. mapping[k] \in EchoIDs BY <1>2, <1>8
  <2>3. MapInv' BY <1>1, <2>1 DEF MapInv, trackerVars
  <2>4. ASSUME NEW i \in EchoIDs, NEW j \in Keys, Uses(i, j)' PROVE Uses(i, j)
    <3> HIDE DEF k, r
    <3>1. router'[c].echo = mapping[k] /\ router'[c].key = k /\ \A d \in Conns : d # c => router'[d] = router[d]
      <4>1. router \in [Conns -> RouterStates] BY <1>1 DEF ICMPTypeOK
      <4> QED BY <1>5, <2>1, <2>2, <4>1
    <3>2. UNCHANGED <<funnels, wire, mapping>> BY <1>4, <2>1 DEF trackerVars
    <3> QED BY <2>4, <3>1, <3>2 DEF Uses
  <2>5. OneUser' BY <1>1, <1>4, <2>1, <2>4, UsesShrink DEF trackerVars
  <2>6. UNCHANGED <<mapping, assignment, nextAssignment, revisited>> BY <2>1 DEF trackerVars
  <2>7. /\ mapping \in [Keys -> EchoIDs \cup {NoID}] /\ assignment \in [EchoIDs -> BOOLEAN]
        /\ nextAssignment \in 0 .. NumEchoIDs
    BY <1>1 DEF ICMPTypeOK
  <2> HIDE DEF k, r
  <2> QED BY <1>7, <2>1, <2>2, <2>3, <2>5, <2>6, <2>7
<1>9. CASE mapping[k] = NoID /\ new # NoID
  <2>0. PICK n : n = new OBVIOUS
  <2>1. /\ router' = [router EXCEPT ![c] = r(n)] /\ mapping' = [mapping EXCEPT ![k] = n]
        /\ assignment' = [assignment EXCEPT ![n] = TRUE] /\ nextAssignment' = n + 1
        /\ revisited' = IF InUse(n) THEN revisited \cup {n} ELSE revisited \ {n}
    BY <1>9, <2>0 DEF GetOrAssign
  <2>2. n \in EchoIDs /\ ~assignment[n] BY <1>1, <1>3, <1>9, <2>0, FirstFreeFact
  <2>3. /\ mapping \in [Keys -> EchoIDs \cup {NoID}] /\ assignment \in [EchoIDs -> BOOLEAN]
    BY <1>1 DEF ICMPTypeOK
  <2>4. /\ mapping' \in [Keys -> EchoIDs \cup {NoID}] /\ assignment' \in [EchoIDs -> BOOLEAN]
        /\ mapping'[k] = n /\ \A j \in Keys : j # k => mapping'[j] = mapping[j]
        /\ assignment'[n] /\ \A j \in EchoIDs : j # n => assignment'[j] = assignment[j]
    BY <1>2, <2>1, <2>2, <2>3
  <2>5. nextAssignment' \in 0 .. NumEchoIDs BY <2>1, <2>2, EchoIDsAssumption DEF EchoIDs
  <2>6. \A j \in Keys : mapping[j] # n BY <1>1, <2>2, <2>3, EchoIDsFact DEF MapInv
  <2> HIDE DEF k
  <2>7. MapInv'
    <3> SUFFICES ASSUME NEW x \in Keys, mapping'[x] # NoID
                 PROVE  /\ assignment'[mapping'[x]]
                        /\ \A j \in Keys : mapping'[j] = mapping'[x] => j = x
      BY DEF MapInv
    <3>1. CASE x = k BY <2>4, <2>6, <3>1
    <3>2. CASE x # k
      <4>1. mapping'[x] = mapping[x] /\ mapping[x] \in EchoIDs /\ mapping[x] # n
        BY <2>3, <2>4, <2>6, <3>2
      <4>2. assignment[mapping[x]] /\ \A j \in Keys : mapping[j] = mapping[x] => j = x
        BY <1>1, <4>1 DEF MapInv
      <4> QED BY <1>2, <2>4, <4>1, <4>2
    <3> QED BY <3>1, <3>2
  <2>8. router'[c].echo = n /\ router'[c].key = k /\ \A d \in Conns : d # c => router'[d] = router[d]
    <3> HIDE DEF r
    <3>1. router \in [Conns -> RouterStates] BY <1>1 DEF ICMPTypeOK
    <3> QED BY <1>5, <2>1, <2>2, <3>1
  <2>9. ASSUME NEW i \in EchoIDs, i # n, NEW j \in Keys, Uses(i, j)' PROVE Uses(i, j)
    <3>1. mapping'[j] = i => mapping[j] = i BY <1>2, <2>4, <2>9
    <3> QED BY <1>4, <2>8, <2>9, <3>1 DEF Uses
  <2>10. ASSUME ~InUse(n), NEW j \in Keys, Uses(n, j)' PROVE j = k
    <3>1. mapping'[j] = n => j = k BY <2>4, <2>6
    <3>2. /\ ~\E f \in funnels' : f.echo = n
          /\ ~\E w \in wire' : w.echo = n
          /\ \A d \in Conns : router[d].echo # n
      BY <1>4, <2>10 DEF InUse
    <3>3. (\E d \in Conns : router'[d].echo = n /\ router'[d].key = j) => j = k
      BY <2>8, <3>2
    <3> QED BY <2>10, <3>1, <3>2, <3>3 DEF Uses
  <2>11. OneUser'
    <3> SUFFICES ASSUME NEW i \in EchoIDs \ revisited', NEW j \in Keys, NEW x \in Keys,
                        Uses(i, j)', Uses(i, x)'
                 PROVE  j = x
      BY DEF OneUser
    <3>1. CASE i = n
      <4>1. ~InUse(n) BY <2>1, <3>1
      <4> QED BY <2>10, <3>1, <4>1
    <3>2. CASE i # n
      <4>1. i \notin revisited BY <2>1, <3>2
      <4>2. Uses(i, j) /\ Uses(i, x) BY <2>9, <3>2
      <4> QED BY <1>1, <1>2, <4>1, <4>2 DEF OneUser
    <3> QED BY <3>1, <3>2
  <2>12. \A j \in EchoIDs : j # n /\ assignment'[j] => assignment[j] /\ (j \notin revisited' => j \notin revisited)
    BY <2>1, <2>4
  <2> HIDE DEF r
  <2> QED BY <1>7, <1>9, <2>1, <2>2, <2>4, <2>5, <2>7, <2>11, <2>12
<1> QED BY <1>6, <1>8, <1>9

(* Flows F are closed and no longer registered, the others are as before.  *)
LEMMA CloseStepInv ==
    ASSUME ICMPInv, NEW F \in SUBSET funnels, CloseFunnels(F),
           SameFlows(funnels \ F, funnels'), funnels' \subseteq Flows,
           listeners' \subseteq listeners, \A l \in listeners : l.echo \in sockets => l \in listeners',
           router' = router \/ (os = "linux" /\ \E c \in Conns : router' = [router EXCEPT ![c] = Idle]),
           UNCHANGED <<os, nextAssignment, revisited, rover, wire, got>>, ChannelsOK'
    PROVE  ICMPInv'
<1>1. ICMPTypeOK /\ RouterInv /\ PlatformInv /\ PortInv /\ MapInv /\ OneUser /\ NoFlowLeak
  BY DEF ICMPInv
<1>2. /\ \A g \in funnels' : \E f \in funnels \ F : f.id = g.id /\ f.key = g.key /\ f.echo = g.echo
      /\ \A f \in funnels \ F : \E g \in funnels' : f.id = g.id /\ f.key = g.key /\ f.echo = g.echo
  BY DEF SameFlows, Same
<1>3. /\ mapping' \in [Keys -> EchoIDs \cup {NoID}] /\ assignment' \in [EchoIDs -> BOOLEAN] /\ MapInv'
      /\ \A k \in Keys, i \in EchoIDs : mapping'[k] = i => mapping[k] = i
      /\ \A k \in Keys, i \in EchoIDs : assignment'[i] /\ mapping[k] = i =>
            mapping'[k] = i /\ ~\E f \in F : f.key = k /\ f.echo = i
      /\ \A i \in EchoIDs : assignment'[i] => assignment[i]
      /\ sockets' \subseteq sockets /\ \A f \in F : f.echo \notin sockets'
  BY <1>1, CloseFact
<1>4. Idle \in RouterStates /\ Idle.pc = "idle" /\ Idle.echo = NoID
  BY EchoIDsFact DEF Idle, RouterStates
<1>5. \A d \in Conns : router'[d] = router[d] \/ (os = "linux" /\ router'[d] = Idle)
  BY <1>1 DEF ICMPTypeOK
<1>6. ICMPTypeOK'
  <2>1. router' \in [Conns -> RouterStates] BY <1>1, <1>4 DEF ICMPTypeOK
  <2>2. sockets' \subseteq Int BY <1>1, <1>3 DEF ICMPTypeOK
  <2> QED BY <1>1, <1>3, <2>1, <2>2 DEF ICMPTypeOK
<1>7. RouterInv' BY <1>1, <1>4, <1>5 DEF RouterInv, Busy
<1>8. PlatformInv'
  <2>1. CASE os = "linux" BY <1>1, <1>2, <2>1 DEF PlatformInv
  <2>2. CASE os = "darwin"
    <3>1. sockets' = {} /\ listeners' = {} BY <1>1, <1>3, <2>2 DEF PlatformInv
    <3> QED BY <1>1, <1>2, <2>2, <3>1 DEF PlatformInv
  <2>3. CASE os = "windows"
    <3>1. sockets' = {} /\ listeners' = {} /\ funnels' = {}
      BY <1>1, <1>2, <1>3, <2>3 DEF PlatformInv
    <3> QED BY <1>1, <2>3, <3>1 DEF PlatformInv
  <2> QED BY <1>1, <2>1, <2>2, <2>3 DEF ICMPTypeOK
<1>9. PortInv' BY <1>1, <1>2, <1>4, <1>5 DEF PortInv
<1>10. ASSUME NEW i \in EchoIDs, NEW k \in Keys, Uses(i, k)' PROVE Uses(i, k)
  <2>1. (\E d \in Conns : router'[d].echo = i /\ router'[d].key = k) =>
           \E d \in Conns : router[d].echo = i /\ router[d].key = k
    BY <1>4, <1>5, EchoIDsFact
  <2>2. (\E f \in funnels' : f.echo = i /\ f.key = k) => \E f \in funnels : f.echo = i /\ f.key = k
    BY <1>2
  <2>3. mapping'[k] = i => mapping[k] = i BY <1>3
  <2> QED BY <1>10, <2>1, <2>2, <2>3 DEF Uses
<1>11. OneUser' BY <1>1, <1>10, UsesShrink
<1>12. NoFlowLeak'
  <2>1. ASSUME NEW p \in sockets'
        PROVE  (\E f \in funnels' : f.echo = p) /\ \E l \in listeners' : l.echo = p
    <3>1. PICK f \in funnels : f.echo = p BY <1>1, <1>3, <2>1 DEF NoFlowLeak
    <3>2. f \notin F BY <1>3, <2>1, <3>1
    <3>3. \E g \in funnels' : g.echo = p BY <1>2, <3>1, <3>2
    <3>4. PICK l \in listeners : l.echo = p BY <1>1, <1>3, <2>1 DEF NoFlowLeak
    <3> QED BY <1>3, <2>1, <3>3, <3>4
  <2>2. ASSUME os = "darwin", NEW i \in EchoIDs \ revisited, assignment'[i] PROVE Held(i)'
    <3>1. Held(i) BY <1>1, <1>3, <2>2 DEF NoFlowLeak, Held
    <3>2. PICK k \in Keys : /\ mapping[k] = i
                            /\ \/ \E f \in funnels : f.echo = i /\ f.key = k
                               \/ \E d \in Conns : router[d] = [pc |-> "register", key |-> k, echo |-> i]
      BY <3>1 DEF Held
    <3>3. mapping'[k] = i /\ ~\E f \in F : f.key = k /\ f.echo = i BY <1>3, <2>2, <3>2
    <3>4. ASSUME NEW f \in funnels, f.echo = i, f.key = k
          PROVE  \E g \in funnels' : g.echo = i /\ g.key = k
      BY <1>2, <3>3, <3>4
    <3>5. router' = router BY <2>2
    <3> QED BY <3>2, <3>3, <3>4, <3>5 DEF Held
  <2> QED BY <2>1, <2>2 DEF NoFlowLeak, Held
<1>13. ReplyFindsItsAsker' BY DEF ICMPInv, ReplyFindsItsAsker
<1> QED BY <1>3, <1>6, <1>7, <1>8, <1>9, <1>11, <1>12, <1>13 DEF ICMPInv

LEMMA SocketFailsInv == ASSUME ICMPInv, NEW c \in Conns, SocketFails(c) PROVE ICMPInv'
<1>1. /\ Current(c) \in SUBSET funnels /\ CloseFunnels(Current(c))
      /\ funnels' = funnels \ Current(c) /\ listeners' = listeners
      /\ os = "linux" /\ router' = [router EXCEPT ![c] = Idle]
      /\ UNCHANGED <<os, nextAssignment, revisited, rover, wire, got>>
  BY DEF SocketFails, Current
<1>2. ChannelsOK' BY DEF SocketFails, ICMPInv, ChannelsOK
<1>3. SameFlows(funnels \ Current(c), funnels') /\ funnels' \subseteq Flows
  BY <1>1 DEF SameFlows, Same, ICMPInv, ICMPTypeOK
<1> QED BY <1>1, <1>2, <1>3, CloseStepInv

LEMMA ListenerEndsInv == ASSUME ICMPInv, NEW l \in listeners, ListenerEnds(l) PROVE ICMPInv'
<1> DEFINE own == {f \in funnels : f.id = l.id /\ f.key = l.key /\ f.echo = l.echo}
<1>1. /\ own \in SUBSET funnels /\ CloseFunnels(own) /\ funnels' = funnels \ own
      /\ listeners' = listeners \ {l} /\ l.echo \notin sockets /\ router' = router
      /\ UNCHANGED <<os, nextAssignment, revisited, rover, wire, got>>
  BY DEF ListenerEnds
<1>2. ChannelsOK' BY DEF ListenerEnds, ICMPInv, ChannelsOK
<1> HIDE DEF own
<1>3. SameFlows(funnels \ own, funnels') /\ funnels' \subseteq Flows
  BY <1>1 DEF SameFlows, Same, ICMPInv, ICMPTypeOK
<1>4. listeners' \subseteq listeners /\ \A x \in listeners : x.echo \in sockets => x \in listeners'
  BY <1>1
<1> QED BY <1>1, <1>2, <1>3, <1>4, CloseStepInv

LEMMA CleanupInv == ASSUME ICMPInv, Cleanup PROVE ICMPInv'
<1>1. PICK early \in SUBSET funnels :
        /\ CloseFunnels({f \in funnels : ~f.fresh \/ f \in early})
        /\ funnels' = {[f EXCEPT !.fresh = FALSE] :
                          f \in funnels \ {f \in funnels : ~f.fresh \/ f \in early}}
  BY DEF Cleanup
<1> DEFINE idle == {f \in funnels : ~f.fresh \/ f \in early}
<1>2. /\ CloseFunnels(idle) /\ idle \in SUBSET funnels
      /\ funnels' = {[f EXCEPT !.fresh = FALSE] : f \in funnels \ idle}
  BY <1>1
<1> HIDE DEF idle
<1>3. /\ listeners' = listeners /\ router' = router
      /\ UNCHANGED <<os, nextAssignment, revisited, rover, wire, got>>
  BY DEF Cleanup
<1>4. ChannelsOK' BY DEF Cleanup, ICMPInv, ChannelsOK
<1>5. \A f \in funnels \ idle : [f EXCEPT !.fresh = FALSE] \in Flows /\ Same(f, [f EXCEPT !.fresh = FALSE])
  BY FreshFact DEF ICMPInv, ICMPTypeOK
<1>6. SameFlows(funnels \ idle, funnels') /\ funnels' \subseteq Flows
  BY <1>2, <1>5 DEF SameFlows
<1> QED BY <1>2, <1>3, <1>4, <1>6, CloseStepInv

(* What Sends does to the router of a request that is being registered.    *)
LEMMA SendsFact ==
    ASSUME ICMPInv, NEW c \in Conns, router[c].pc = "register", NEW e \in Int, Sends(c, e)
    PROVE  /\ router' \in [Conns -> RouterStates]
           /\ router'[c].pc = "send" /\ router'[c].echo = e /\ router'[c].key = router[c].key
           /\ \A d \in Conns : d # c => router'[d] = router[d]
           /\ router[c].key \in Keys
           /\ \/ os = "linux" /\ router[c].echo = NoID
              \/ os = "darwin" /\ router[c].echo \in EchoIDs
<1>1. router \in [Conns -> RouterStates] BY DEF ICMPInv, ICMPTypeOK
<1> DEFINE r == [router[c] EXCEPT !.pc = "send", !.echo = e]
<1>2. r \in RouterStates /\ r.pc = "send" /\ r.echo = e /\ r.key = router[c].key
  BY <1>1 DEF RouterStates
<1>3. router' = [router EXCEPT ![c] = r] BY DEF Sends
<1> HIDE DEF r
<1>4. /\ router[c].key \in Keys
      /\ \/ os = "linux" /\ router[c].echo = NoID
         \/ os = "darwin" /\ router[c].echo \in EchoIDs
  BY DEF ICMPInv, RouterInv, Busy
<1> QED BY <1>1, <1>2, <1>3, <1>4

LEMMA GetRegisteredInv == ASSUME ICMPInv, NEW c \in Conns, GetRegistered(c) PROVE ICMPInv'
<1>1. ICMPTypeOK /\ RouterInv /\ PlatformInv /\ PortInv /\ MapInv /\ OneUser /\ NoFlowLeak
  BY DEF ICMPInv
<1>2. PICK f \in Current(c) : Sends(c, f.echo) BY DEF GetRegistered
<1>3. /\ UNCHANGED <<os, flowVars, wire, got>> /\ router[c].pc = "register" /\ ChannelsOK'
      /\ ReplyFindsItsAsker'
  BY DEF GetRegistered, ICMPInv, ChannelsOK, ReplyFindsItsAsker
<1>4. UNCHANGED <<os, funnels, mapping, assignment, nextAssignment, revisited, sockets, rover, listeners, wire>>
  BY <1>3 DEF flowVars, trackerVars
<1>5. f \in funnels /\ f \in Flows /\ f.id = FunnelID(router[c].key, router[c].echo)
  BY <1>1, <1>2 DEF Current, Wanted, ICMPTypeOK
<1>6. f.echo \in Int /\ f.key \in Keys BY <1>5 DEF Flows
<1>7. /\ router' \in [Conns -> RouterStates]
      /\ router'[c].pc = "send" /\ router'[c].echo = f.echo /\ router'[c].key = router[c].key
      /\ \A d \in Conns : d # c => router'[d] = router[d]
      /\ router[c].key \in Keys
      /\ \/ os = "linux" /\ router[c].echo = NoID
         \/ os = "darwin" /\ router[c].echo \in EchoIDs
  BY <1>2, <1>3, <1>6, SendsFact
<1>8. /\ os = "linux" => f.key = router[c].key /\ f.echo \in 1 .. rover
      /\ os = "darwin" => f.echo = router[c].echo
  BY <1>1, <1>5 DEF PlatformInv, FunnelID
<1>9. ICMPTypeOK' BY <1>1, <1>4, <1>7 DEF ICMPTypeOK
<1>10. RouterInv'
  <2>1. ASSUME NEW d \in Conns, d # c PROVE router'[d] = router[d] BY <1>7, <2>1
  <2> QED BY <1>1, <1>4, <1>7, <1>8, <2>1 DEF RouterInv, Busy
<1>11. PlatformInv' BY <1>1, <1>4 DEF PlatformInv
<1>12. PortInv'
  <2>1. CASE os = "linux"
    <3>1. ASSUME NEW l \in listeners, f.echo = l.echo PROVE router[c].key = l.key
      BY <1>1, <1>5, <1>8, <2>1, <3>1 DEF PortInv
    <3> QED BY <1>1, <1>4, <1>7, <3>1 DEF PortInv
  <2>2. CASE os = "darwin" BY <1>1, <1>4, <2>2 DEF PlatformInv, PortInv
  <2> QED BY <1>7, <2>1, <2>2
<1>13. MapInv' BY <1>1, <1>4 DEF MapInv
<1>14. OneUser'
  <2>1. CASE os = "linux" BY <1>4, <2>1 DEF OneUser
  <2>2. CASE os = "darwin"
    <3>1. ASSUME NEW i \in EchoIDs, NEW k \in Keys, Uses(i, k)' PROVE Uses(i, k)
      BY <1>4, <1>7, <1>8, <2>2, <3>1 DEF Uses
    <3> QED BY <1>1, <1>4, <3>1, UsesShrink
  <2> QED BY <1>7, <2>1, <2>2
<1>15. NoFlowLeak'
  <2>1. ASSUME os = "darwin", NEW i \in EchoIDs \ revisited, assignment[i] PROVE Held(i)'
    <3>1. PICK k \in Keys : /\ mapping[k] = i
                            /\ \/ \E g \in funnels : g.echo = i /\ g.key = k
                               \/ \E d \in Conns : router[d] = [pc |-> "register", key |-> k, echo |-> i]
      BY <1>1, <2>1 DEF NoFlowLeak
    <3>2. CASE \E g \in funnels : g.echo = i /\ g.key = k BY <1>4, <3>1, <3>2 DEF Held
    <3>3. CASE \E d \in Conns : d # c /\ router[d] = [pc |-> "register", key |-> k, echo |-> i]
      BY <1>4, <1>7, <3>1, <3>3 DEF Held
    <3>4. CASE router[c] = [pc |-> "register", key |-> k, echo |-> i]
      <4>1. f.echo = i BY <1>8, <2>1, <3>4
      <4>2. Uses(i, f.key) BY <1>5, <4>1 DEF Uses
      <4>3. Uses(i, k) BY <3>1 DEF Uses
      <4>4. f.key = k BY <1>1, <1>6, <2>1, <4>2, <4>3 DEF OneUser
      <4> QED BY <1>4, <1>5, <3>1, <4>1, <4>4 DEF Held
    <3> QED BY <3>1, <3>2, <3>3, <3>4
  <2>2. \A p \in sockets : (\E g \in funnels : g.echo = p) /\ \E l \in listeners : l.echo = p
    BY <1>1 DEF NoFlowLeak
  <2> QED BY <1>4, <2>1, <2>2 DEF NoFlowLeak, Held
<1> QED BY <1>3, <1>9, <1>10, <1>11, <1>12, <1>13, <1>14, <1>15 DEF ICMPInv

LEMMA RegisterSocketInv == ASSUME ICMPInv, NEW c \in Conns, RegisterSocket(c) PROVE ICMPInv'
<1> DEFINE k == router[c].key
           p == rover + 1
           flow == NewFlow(k, k, c, p)
           own == [id |-> k, key |-> k, mux |-> c, echo |-> p]
<1>1. ICMPTypeOK /\ RouterInv /\ PlatformInv /\ PortInv /\ MapInv /\ OneUser /\ NoFlowLeak
  BY DEF ICMPInv
<1>2. /\ os = "linux" /\ router[c].pc = "register" /\ Wanted(c) = k
      /\ rover' = p /\ Sends(c, p)
      /\ sockets' = (sockets \ {f.echo : f \in Current(c)}) \cup {p}
      /\ funnels' = (funnels \ Current(c)) \cup {flow}
      /\ listeners' = listeners \cup {own}
      /\ UNCHANGED <<os, trackerVars, wire, got>>
  BY DEF RegisterSocket, Wanted, FunnelID
<1>3. ChannelsOK' /\ ReplyFindsItsAsker'
  BY DEF RegisterSocket, ICMPInv, ChannelsOK, ReplyFindsItsAsker
<1>4. p \in Nat /\ p \in 1 .. p /\ rover \in Nat /\ p \notin 1 .. rover
      /\ \A x \in 1 .. rover : x \in 1 .. p
  BY <1>1 DEF ICMPTypeOK
<1>5. /\ router' \in [Conns -> RouterStates]
      /\ router'[c].pc = "send" /\ router'[c].echo = p /\ router'[c].key = k
      /\ \A d \in Conns : d # c => router'[d] = router[d]
      /\ k \in Keys
  BY <1>2, <1>4, SendsFact
<1>6. flow \in Flows /\ flow.id = k /\ flow.key = k /\ flow.echo = p
  BY <1>4, <1>5 DEF Flows, NewFlow
<1>7. own.id = k /\ own.key = k /\ own.echo = p
      /\ own \in [id: Keys, key: Keys, mux: Conns, echo: Int]
  BY <1>4, <1>5
<1> HIDE DEF flow, own, k, p
<1>8. UNCHANGED <<os, mapping, assignment, nextAssignment, revisited, wire>>
  BY <1>2 DEF trackerVars
<1>9. /\ \A f \in funnels : f.id = f.key /\ f.echo \in 1 .. rover
      /\ \A l \in listeners : l.id = l.key /\ l.echo \in 1 .. rover
      /\ \A w \in wire : w.echo \in 1 .. rover
  BY <1>1, <1>2 DEF PlatformInv
<1>10. ICMPTypeOK'
  <2>1. funnels' \subseteq Flows BY <1>1, <1>2, <1>6 DEF ICMPTypeOK
  <2>2. listeners' \subseteq [id: Keys, key: Keys, mux: Conns, echo: Int]
    BY <1>1, <1>2, <1>7 DEF ICMPTypeOK
  <2>3. rover' \in Nat BY <1>2, <1>4
  <2>4. sockets \subseteq Int BY <1>1 DEF ICMPTypeOK
  <2>5. sockets' \subseteq sockets \cup {p} BY <1>2
  <2>6. p \in Int BY <1>4
  <2>7. sockets' \subseteq Int BY <2>4, <2>5, <2>6
  <2> QED BY <1>1, <1>5, <1>8, <2>1, <2>2, <2>3, <2>7 DEF ICMPTypeOK
<1>11. RouterInv'
  <2>1. ASSUME NEW d \in Conns, d # c PROVE router'[d] = router[d] BY <1>5, <2>1
  <2> QED BY <1>1, <1>2, <1>4, <1>5, <2>1 DEF RouterInv, Busy
<1>12. PlatformInv' BY <1>2, <1>4, <1>6, <1>7, <1>8, <1>9 DEF PlatformInv
<1>13. PortInv'
  <2> SUFFICES ASSUME NEW l \in listeners'
               PROVE  /\ \A f \in funnels' : f.echo = l.echo => f.key = l.key
                      /\ \A w \in wire : w.echo = l.echo => w.asker = l.key
                      /\ \A d \in Conns : router'[d].pc = "send" /\ router'[d].echo = l.echo =>
                            router'[d].key = l.key
    BY <1>8 DEF PortInv
  <2>1. \A d \in Conns : router[d].pc = "send" => router[d].echo \in 1 .. rover
    BY <1>1, <1>2, EchoIDsFact DEF RouterInv
  <2>2. CASE l = own BY <1>2, <1>4, <1>5, <1>6, <1>7, <1>9, <2>1, <2>2
  <2>3. CASE l \in listeners
    <3>1. l.echo # p BY <1>4, <1>9, <2>3
    <3> QED BY <1>1, <1>2, <1>5, <1>6, <2>3, <3>1 DEF PortInv
  <2> QED BY <1>2, <2>2, <2>3
<1>14. MapInv' BY <1>1, <1>8 DEF MapInv
<1>15. OneUser' BY <1>2 DEF OneUser
<1>16. NoFlowLeak'
  <2>1. ASSUME NEW q \in sockets'
        PROVE  (\E f \in funnels' : f.echo = q) /\ \E l \in listeners' : l.echo = q
    <3>1. CASE q = p BY <1>2, <1>6, <1>7, <3>1
    <3>2. CASE q # p
      <4>1. q \in sockets /\ ~\E f \in Current(c) : f.echo = q BY <1>2, <2>1, <3>2
      <4>2. (\E f \in funnels : f.echo = q) /\ \E l \in listeners : l.echo = q
        BY <1>1, <4>1 DEF NoFlowLeak
      <4> QED BY <1>2, <4>1, <4>2
    <3> QED BY <3>1, <3>2
  <2> QED BY <1>2, <2>1 DEF NoFlowLeak
<1> QED BY <1>3, <1>10, <1>11, <1>12, <1>13, <1>14, <1>15, <1>16 DEF ICMPInv

LEMMA RegisterEchoIDInv == ASSUME ICMPInv, NEW c \in Conns, RegisterEchoID(c) PROVE ICMPInv'
<1> DEFINE k == router[c].key
           e == router[c].echo
           flow == NewFlow(e, k, c, e)
<1>1. ICMPTypeOK /\ RouterInv /\ PlatformInv /\ PortInv /\ MapInv /\ OneUser /\ NoFlowLeak
  BY DEF ICMPInv
<1>2. /\ os = "darwin" /\ router[c].pc = "register" /\ Wanted(c) = e
      /\ CloseFunnels(Current(c)) /\ Current(c) \in SUBSET funnels
      /\ funnels' = (funnels \ Current(c)) \cup {flow} /\ Sends(c, e)
      /\ UNCHANGED <<os, listeners, nextAssignment, revisited, rover, wire, got>>
  BY DEF RegisterEchoID, Wanted, FunnelID, Current
<1>3. ChannelsOK' /\ ReplyFindsItsAsker'
  BY DEF RegisterEchoID, ICMPInv, ChannelsOK, ReplyFindsItsAsker
<1>4. e \in EchoIDs /\ e \in Int /\ k \in Keys
  BY <1>1, <1>2, EchoIDsFact DEF RouterInv, Busy
<1>5. /\ router' \in [Conns -> RouterStates]
      /\ router'[c].pc = "send" /\ router'[c].echo = e /\ router'[c].key = k
      /\ \A d \in Conns : d # c => router'[d] = router[d]
  BY <1>2, <1>4, SendsFact
<1>6. flow \in Flows /\ flow.id = e /\ flow.key = k /\ flow.echo = e
  BY <1>4 DEF Flows, NewFlow
<1>7. /\ mapping' \in [Keys -> EchoIDs \cup {NoID}] /\ assignment' \in [EchoIDs -> BOOLEAN] /\ MapInv'
      /\ \A j \in Keys, i \in EchoIDs : mapping'[j] = i => mapping[j] = i
      /\ \A j \in Keys, i \in EchoIDs : assignment'[i] /\ mapping[j] = i =>
            mapping'[j] = i /\ ~\E f \in Current(c) : f.key = j /\ f.echo = i
      /\ \A i \in EchoIDs : assignment'[i] => assignment[i]
      /\ sockets' \subseteq sockets
  BY <1>1, <1>2, CloseFact
<1>8. /\ \A f \in funnels : f.id = f.echo /\ f.echo \in EchoIDs
      /\ \A w \in wire : w.echo \in EchoIDs
      /\ sockets' = {} /\ listeners' = {}
  BY <1>1, <1>2, <1>7 DEF PlatformInv
<1>9. Uses(e, k) BY DEF Uses
<1> HIDE DEF flow, k, e
<1>12. ICMPTypeOK'
  <2>1. funnels' \subseteq Flows BY <1>1, <1>2, <1>6 DEF ICMPTypeOK
  <2> QED BY <1>1, <1>2, <1>5, <1>7, <1>8, <2>1 DEF ICMPTypeOK
<1>13. RouterInv'
  <2>1. ASSUME NEW d \in Conns, d # c PROVE router'[d] = router[d] BY <1>5, <2>1
  <2> QED BY <1>1, <1>2, <1>4, <1>5, <2>1 DEF RouterInv, Busy
<1>14. PlatformInv' BY <1>2, <1>4, <1>6, <1>8 DEF PlatformInv
<1>15. PortInv' BY <1>8 DEF PortInv
<1>16. ASSUME NEW i \in EchoIDs, NEW j \in Keys, Uses(i, j)' PROVE Uses(i, j)
  <2>1. (\E d \in Conns : router'[d].echo = i /\ router'[d].key = j) =>
           \E d \in Conns : router[d].echo = i /\ router[d].key = j
    BY <1>5 DEF e, k
  <2>2. (\E f \in funnels' : f.echo = i /\ f.key = j) =>
           \/ \E f \in funnels : f.echo = i /\ f.key = j
           \/ i = e /\ j = k
    BY <1>2, <1>6
  <2>3. mapping'[j] = i => mapping[j] = i BY <1>7
  <2> QED BY <1>2, <1>9, <1>16, <2>1, <2>2, <2>3 DEF Uses
<1>17. OneUser' BY <1>1, <1>2, <1>16, UsesShrink
<1>18. ASSUME NEW i \in EchoIDs \ revisited, assignment'[i] PROVE Held(i)'
  <2>1. PICK j \in Keys : /\ mapping[j] = i
                          /\ \/ \E g \in funnels : g.echo = i /\ g.key = j
                             \/ \E d \in Conns : router[d] = [pc |-> "register", key |-> j, echo |-> i]
    BY <1>1, <1>2, <1>7, <1>18 DEF NoFlowLeak
  <2>2. mapping'[j] = i /\ ~\E f \in Current(c) : f.key = j /\ f.echo = i BY <1>7, <1>18, <2>1
  <2>3. CASE \E g \in funnels : g.echo = i /\ g.key = j BY <1>2, <2>2, <2>3 DEF Held
  <2>4. CASE \E d \in Conns : d # c /\ router[d] = [pc |-> "register", key |-> j, echo |-> i]
    BY <1>5, <2>2, <2>4 DEF Held
  <2>5. CASE router[c] = [pc |-> "register", key |-> j, echo |-> i]
    <3>1. e = i /\ k = j BY <2>5 DEF e, k
    <3> QED BY <1>2, <1>6, <2>2, <3>1 DEF Held
  <2> QED BY <2>1, <2>3, <2>4, <2>5
<1>19. NoFlowLeak' BY <1>2, <1>8, <1>18 DEF NoFlowLeak, Held
<1> QED BY <1>3, <1>7, <1>12, <1>13, <1>14, <1>15, <1>17, <1>19 DEF ICMPInv

LEMMA SendToDstInv == ASSUME ICMPInv, NEW c \in Conns, SendToDst(c) PROVE ICMPInv'
<1> DEFINE k == router[c].key
           e == router[c].echo
           w == [echo |-> e, asker |-> k]
<1>1. ICMPTypeOK /\ RouterInv /\ PlatformInv /\ PortInv /\ MapInv /\ OneUser /\ NoFlowLeak
  BY DEF ICMPInv
<1>2. /\ router[c].pc = "send" /\ router' = [router EXCEPT ![c] = Idle]
      /\ funnels' = Touch(funnels, FunnelID(k, e))
      /\ wire' \subseteq wire \cup {w}
      /\ UNCHANGED <<os, trackerVars, sockets, rover, listeners, got>>
  BY DEF SendToDst
<1>3. ChannelsOK' /\ ReplyFindsItsAsker'
  BY DEF SendToDst, ICMPInv, ChannelsOK, ReplyFindsItsAsker
<1>4. /\ k \in Keys /\ e \in Int
      /\ \/ os = "linux" /\ e \in 1 .. rover
         \/ os = "darwin" /\ e \in EchoIDs
  BY <1>1, <1>2 DEF RouterInv, Busy, ICMPTypeOK, RouterStates
<1>5. w \in [echo: Int, asker: Keys] /\ w.echo = e /\ w.asker = k BY <1>4
<1>6. Idle \in RouterStates /\ Idle.pc = "idle" /\ Idle.echo = NoID
  BY EchoIDsFact DEF Idle, RouterStates
<1>7. /\ funnels' \subseteq Flows
      /\ \A g \in funnels' : \E f \in funnels : f.id = g.id /\ f.key = g.key /\ f.echo = g.echo
      /\ \A f \in funnels : \E g \in funnels' : f.id = g.id /\ f.key = g.key /\ f.echo = g.echo
  BY <1>1, <1>2, TouchFact DEF ICMPTypeOK, SameFlows, Same
<1>8. UNCHANGED <<os, mapping, assignment, nextAssignment, revisited, sockets, rover, listeners>>
  BY <1>2 DEF trackerVars
<1>9. router'[c] = Idle /\ \A d \in Conns : d # c => router'[d] = router[d]
  BY <1>1, <1>2 DEF ICMPTypeOK
<1>10. Uses(e, k) BY DEF Uses
<1>11. \A l \in listeners : e = l.echo => k = l.key BY <1>1, <1>2 DEF PortInv
<1> HIDE DEF w, k, e
<1>12. ICMPTypeOK'
  <2>1. router' \in [Conns -> RouterStates] BY <1>1, <1>2, <1>6 DEF ICMPTypeOK
  <2>2. wire' \subseteq [echo: Int, asker: Keys] BY <1>1, <1>2, <1>5 DEF ICMPTypeOK
  <2> QED BY <1>1, <1>7, <1>8, <2>1, <2>2 DEF ICMPTypeOK
<1>13. RouterInv' BY <1>1, <1>6, <1>8, <1>9 DEF RouterInv, Busy
<1>14. PlatformInv'
  <2>1. CASE os = "linux" BY <1>1, <1>2, <1>4, <1>5, <1>7, <1>8, <2>1 DEF PlatformInv
  <2>2. CASE os = "darwin" BY <1>1, <1>2, <1>4, <1>5, <1>7, <1>8, <2>2 DEF PlatformInv
  <2> QED BY <1>4, <2>1, <2>2
<1>15. PortInv'
  <2> SUFFICES ASSUME NEW l \in listeners
               PROVE  /\ \A f \in funnels' : f.echo = l.echo => f.key = l.key
                      /\ \A v \in wire' : v.echo = l.echo => v.asker = l.key
                      /\ \A d \in Conns : router'[d].pc = "send" /\ router'[d].echo = l.echo =>
                            router'[d].key = l.key
    BY <1>8 DEF PortInv
  <2>1. \A f \in funnels' : f.echo = l.echo => f.key = l.key BY <1>1, <1>7 DEF PortInv
  <2>2. \A v \in wire' : v.echo = l.echo => v.asker = l.key BY <1>1, <1>2, <1>5, <1>11 DEF PortInv
  <2>3. \A d \in Conns : router'[d].pc = "send" /\ router'[d].echo = l.echo => router'[d].key = l.key
    BY <1>1, <1>6, <1>9 DEF PortInv
  <2> QED BY <2>1, <2>2, <2>3
<1>16. MapInv' BY <1>1, <1>8 DEF MapInv
<1>17. ASSUME NEW i \in EchoIDs, NEW j \in Keys, Uses(i, j)' PROVE Uses(i, j)
  <2>1. (\E d \in Conns : router'[d].echo = i /\ router'[d].key = j) =>
           \E d \in Conns : router[d].echo = i /\ router[d].key = j
    BY <1>6, <1>9, EchoIDsFact
  <2>2. (\E f \in funnels' : f.echo = i /\ f.key = j) => \E f \in funnels : f.echo = i /\ f.key = j
    BY <1>7
  <2>3. (\E v \in wire' : v.echo = i /\ v.asker = j) =>
           (\E v \in wire : v.echo = i /\ v.asker = j) \/ (i = e /\ j = k)
    BY <1>2, <1>5
  <2> QED BY <1>8, <1>10, <1>17, <2>1, <2>2, <2>3 DEF Uses
<1>18. OneUser' BY <1>1, <1>8, <1>17, UsesShrink
<1>19. ASSUME os = "darwin", NEW i \in EchoIDs \ revisited, assignment[i] PROVE Held(i)'
  <2>1. PICK j \in Keys : /\ mapping[j] = i
                          /\ \/ \E g \in funnels : g.echo = i /\ g.key = j
                             \/ \E d \in Conns : router[d] = [pc |-> "register", key |-> j, echo |-> i]
    BY <1>1, <1>19 DEF NoFlowLeak
  <2>2. CASE \E g \in funnels : g.echo = i /\ g.key = j BY <1>7, <1>8, <2>1, <2>2 DEF Held
  <2>3. CASE \E d \in Conns : router[d] = [pc |-> "register", key |-> j, echo |-> i]
    BY <1>2, <1>8, <1>9, <2>1, <2>3 DEF Held
  <2> QED BY <2>1, <2>2, <2>3
<1>20. \A p \in sockets : (\E g \in funnels' : g.echo = p) /\ \E l \in listeners : l.echo = p
  BY <1>1, <1>7 DEF NoFlowLeak
<1>21. NoFlowLeak' BY <1>8, <1>19, <1>20 DEF NoFlowLeak, Held
<1> QED BY <1>3, <1>12, <1>13, <1>14, <1>15, <1>16, <1>18, <1>21 DEF ICMPInv

(***************************************************************************)
(* The inductive invariant of the packet flows, for any connections, flow  *)
(* keys and number of echo IDs (packet/funnel.go, ingress/icmp_*.go).      *)
(***************************************************************************)
THEOREM ICMPInvariance == ICMPSpec => []ICMPInv
<1>1. ASSUME ICMPInv, [ICMPNext]_icmpVars PROVE ICMPInv'
  <2>1. ASSUME NEW c \in Conns,
               \/ Demux(c) \/ HandlePacket(c) \/ ConnectionEnds(c) \/ GetOrAssign(c)
               \/ GetOrRegister(c) \/ SendToDst(c) \/ IcmpEchoRoundtrip(c)
        PROVE  ICMPInv'
    BY <1>1, <2>1, DemuxInv, HandlePacketInv, ConnectionEndsInv, GetOrAssignInv, GetRegisteredInv,
       RegisterSocketInv, SocketFailsInv, RegisterEchoIDInv, SendToDstInv, IcmpEchoRoundtripInv
       DEF GetOrRegister
  <2>2. ASSUME NEW w \in wire, ReturnToSrc(w) \/ Unanswered(w) PROVE ICMPInv'
    BY <1>1, <2>2, ReturnToSrcInv, UnansweredInv
  <2>3. ASSUME NEW l \in listeners, ListenerEnds(l) PROVE ICMPInv'
    BY <1>1, <2>3, ListenerEndsInv
  <2>4. ASSUME UNCHANGED icmpVars PROVE ICMPInv'
    <3>1. UNCHANGED <<os, router, flowVars, wire, got>> /\ ChannelsOK'
      BY <1>1, <2>4 DEF icmpVars, ICMPInv, ChannelsOK
    <3> QED BY <1>1, <3>1, QuietInv
  <2> QED BY <1>1, <2>1, <2>2, <2>3, <2>4, CleanupInv DEF ICMPNext
<1> QED BY <1>1, ICMPInitInv, PTL DEF ICMPSpec

(***************************************************************************)
(* A ping's answer goes to who sent it, and no socket or echo ID outlives  *)
(* its flow, unless the ID was given out again while still in use.         *)
(***************************************************************************)
THEOREM FlowsAreSound == ICMPSpec => []FlowsSound
<1>1. ICMPInv => FlowsSound BY DEF ICMPInv, FlowsSound
<1> QED BY <1>1, ICMPInvariance, PTL
=============================================================================
