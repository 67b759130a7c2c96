------------------------------ MODULE ICMPProxy ------------------------------
(***************************************************************************)
(* Pings: quic/datagramv2 hands the IP packets of each QUIC connection to  *)
(* its ingress.PacketRouter, which hands echo requests to the one          *)
(* icmpRouter of the process; replies go back through packet.FunnelTracker *)
(* flows.  On Linux a flow is a socket of its own with a goroutine that    *)
(* listens, on macOS an echo ID of a shared socket, on Windows there is no *)
(* flow: a request waits for its answer.                                   *)
(***************************************************************************)
EXTENDS Integers, Sequences, FiniteSets

CONSTANTS Conns,       \* QUIC connections (their datagram muxers)
          Keys,        \* flow3Tuples, records [src, dst, echo]
          NumEchoIDs,  \* echo IDs of macOS, 65535 in the code
          PacketChanCapacity,
          MaxPackets   \* packets the edge sends (bound)

ASSUME EchoIDsAssumption == NumEchoIDs \in Nat \ {0}

NoKey == [src |-> "", dst |-> "", echo |-> 0]
NoID == -1
EchoIDs == 0..(NumEchoIDs - 1)

VARIABLES
    os, up,          \* the platform; the connections that serve
    packetDemuxChan, \* per connection
    router,          \* per connection: its PacketRouter goroutine
    funnels,         \* FunnelTracker: registered flows
    mapping, assignment, nextAssignment,    \* echoIDTracker (macOS)
    sockets, rover,  \* open ping sockets, by port; the last port given out (Linux)
    listeners,       \* flows whose listenResponse runs (Linux)
    wire,            \* requests the network may answer
    got,             \* the last reply returned: to whom, and who had asked
    revisited,       \* echo IDs given out again while a former use was not over
    packets          \* received so far (bound)

trackerVars == <<mapping, assignment, nextAssignment, revisited>>
flowVars == <<funnels, trackerVars, sockets, rover, listeners>>
icmpVars == <<os, up, packetDemuxChan, router, flowVars, wire, got, packets>>

Idle == [pc |-> "idle", key |-> NoKey, echo |-> NoID]
Reply(k, asker, reused) == [to |-> k, asker |-> asker, reused |-> reused]
NoReply == Reply(NoKey, NoKey, FALSE)

ICMPInit ==
    /\ os \in {"linux", "darwin", "windows"} /\ up = Conns
    /\ packetDemuxChan = [c \in Conns |-> <<>>]
    /\ router = [c \in Conns |-> Idle]
    /\ funnels = {} /\ sockets = {} /\ rover = 0 /\ listeners = {} /\ wire = {}
    /\ mapping = [k \in Keys |-> NoID]
    /\ assignment = [i \in EchoIDs |-> FALSE] /\ nextAssignment = 0
    /\ got = NoReply /\ revisited = {} /\ packets = 0

-----------------------------------------------------------------------------
(* What a datagram holds once IPDecoder and ICMPDecoder have seen it: an   *)
(* echo request, one whose TTL ends here, or what is not decoded, not ICMP *)
(* or not an echo.                                                         *)
Decoded == [kind: {"echo", "expired"}, key: Keys] \cup [kind: {"other"}, key: {NoKey}]

(* The types of DatagramV2 that are not UDP sessions.                      *)
Datagrams == Decoded \cup [kind: {"span"}, key: {NoKey}]

(* DatagramMuxerV2.ServeReceive and demux: a full channel blocks it.       *)
Demux(c) ==
    /\ c \in up /\ packets < MaxPackets
    /\ Len(packetDemuxChan[c]) < PacketChanCapacity
    /\ \E d \in Datagrams : packetDemuxChan' = [packetDemuxChan EXCEPT ![c] = Append(@, d)]
    /\ packets' = packets + 1
    /\ UNCHANGED <<os, up, router, flowVars, wire, got>>

(* NewICMPTTLExceedPacket goes back to the source of the packet.           *)
TTLExceeded(k) == Reply(k, k, FALSE)

(* nextPacket and handlePacket up to Request.  Spans end the router, and   *)
(* with it Serve; a packet is dropped when it cannot be decoded, and       *)
(* answered here when its TTL is at its end.                               *)
HandlePacket(c) ==
    /\ c \in up /\ router[c].pc = "idle" /\ packetDemuxChan[c] # <<>>
    /\ packetDemuxChan' = [packetDemuxChan EXCEPT ![c] = Tail(@)]
    /\ LET d == Head(packetDemuxChan[c]) IN
          /\ up' = IF d.kind = "span" THEN up \ {c} ELSE up
          /\ router' = [router EXCEPT ![c] =
                IF d.kind = "echo"
                THEN [pc |-> IF os = "darwin" THEN "assign" ELSE
                             IF os = "linux" THEN "register" ELSE "roundtrip",
                      key |-> d.key, echo |-> NoID]
                ELSE Idle]
          /\ got' = IF d.kind = "expired" THEN TTLExceeded(d.key) ELSE got
    /\ UNCHANGED <<os, flowVars, wire, packets>>

(* The context of the connection's Serve is cancelled.                     *)
ConnectionEnds(c) ==
    /\ c \in up /\ up' = up \ {c}
    /\ UNCHANGED <<os, packetDemuxChan, router, flowVars, wire, got, packets>>

-----------------------------------------------------------------------------
(* The first free ID from nextAssignment on, and round to the beginning.   *)
FirstFree(start) ==
    LET free == {i \in EchoIDs : ~assignment[i]}
        dist(i) == (i - start) % NumEchoIDs
    IN  IF free = {} THEN NoID
        ELSE CHOOSE i \in free : \A j \in free : dist(i) <= dist(j)

(* What is left of the former use of an ID: its flow, a request of it that *)
(* is on its way to the network, or one the network has not answered.      *)
InUse(id) == \/ \E f \in funnels : f.echo = id
             \/ \E w \in wire : w.echo = id
             \/ \E c \in Conns : router[c].echo = id

(* echoIDTracker.getOrAssign (macOS).                                      *)
GetOrAssign(c) ==
    LET k == router[c].key
        start == IF nextAssignment = NumEchoIDs THEN 0 ELSE nextAssignment
        id == IF mapping[k] # NoID THEN mapping[k] ELSE FirstFree(start)
    IN
    /\ router[c].pc = "assign"
    /\ IF mapping[k] # NoID \/ id = NoID THEN UNCHANGED trackerVars
       ELSE /\ mapping' = [mapping EXCEPT ![k] = id]
            /\ assignment' = [assignment EXCEPT ![id] = TRUE]
            /\ nextAssignment' = id + 1
            /\ revisited' = IF InUse(id) THEN revisited \cup {id} ELSE revisited \ {id}
    /\ router' = [router EXCEPT ![c] =
          IF id = NoID THEN Idle ELSE [@ EXCEPT !.pc = "register", !.echo = id]]
    /\ UNCHANGED <<os, up, packetDemuxChan, funnels, sockets, rover, listeners, wire, got, packets>>

SharedIDBug(k, echo) == k.echo

(* flow3Tuple on Linux, echoFunnelID on macOS.                             *)
FunnelID(k, echo) == IF os = "linux" THEN k ELSE echo

ForgetsReleaseBug(F) == sockets' = sockets /\ UNCHANGED <<mapping, assignment>>

(* Funnel.Close of each of F: close the socket, or echoIDTracker.release,  *)
(* which only gives back what is still assigned to the flow.               *)
CloseFunnels(F) ==
    LET released == {f \in F : mapping[f.key] = f.echo} IN
    /\ sockets' = sockets \ {f.echo : f \in F}
    /\ mapping' = [k \in Keys |-> IF \E f \in released : f.key = k THEN NoID ELSE mapping[k]]
    /\ assignment' = [i \in EchoIDs |-> assignment[i] /\ ~\E f \in released : f.echo = i]

(* newICMPEchoFlow.                                                        *)
NewFlow(id, k, c, echo) == [id |-> id, key |-> k, mux |-> c, echo |-> echo, fresh |-> TRUE]

(* createShouldReplaceFunnelFunc: a flow that answers to another muxer.    *)
ShouldReplace(flows, c) == {f \in flows : f.mux # c}

Wanted(c) == FunnelID(router[c].key, router[c].echo)
Current(c) == {f \in funnels : f.id = Wanted(c)}
Replaces(c) == Current(c) = {} \/ ShouldReplace(Current(c), c) # {}
Sends(c, echo) ==
    router' = [router EXCEPT ![c] = [@ EXCEPT !.pc = "send", !.echo = echo]]

(* GetOrRegister: the flow of this ID, unless it answers to another muxer: *)
(* then it is closed, and replaced.                                        *)
GetRegistered(c) ==
    /\ router[c].pc = "register" /\ ~Replaces(c)
    /\ \E f \in Current(c) : Sends(c, f.echo)
    /\ UNCHANGED <<os, up, packetDemuxChan, flowVars, wire, got, packets>>

(* Linux: a new flow opens a socket and starts a listener.  The kernel     *)
(* gives out ports in turn, so that none comes back while anything still   *)
(* refers to it.                                                           *)
RegisterSocket(c) ==
    LET k == router[c].key IN
    /\ os = "linux" /\ router[c].pc = "register" /\ Replaces(c)
    /\ rover' = rover + 1
    /\ sockets' = (sockets \ {f.echo : f \in Current(c)}) \cup {rover'}
    /\ funnels' = (funnels \ Current(c)) \cup {NewFlow(Wanted(c), k, c, rover')}
    /\ listeners' = listeners \cup {[id |-> Wanted(c), key |-> k, mux |-> c, echo |-> rover']}
    /\ Sends(c, rover')
    /\ UNCHANGED <<os, up, packetDemuxChan, trackerVars, wire, got, packets>>

(* newICMPConn fails, after the flow to replace was closed.                *)
SocketFails(c) ==
    /\ os = "linux" /\ router[c].pc = "register" /\ Replaces(c)
    /\ CloseFunnels(Current(c)) /\ funnels' = funnels \ Current(c)
    /\ router' = [router EXCEPT ![c] = Idle]
    /\ UNCHANGED <<os, up, packetDemuxChan, listeners, nextAssignment, revisited, rover, wire, got, packets>>

(* macOS: the new flow answers to the echo ID assigned before.             *)
RegisterEchoID(c) ==
    /\ os = "darwin" /\ router[c].pc = "register" /\ Replaces(c)
    /\ CloseFunnels(Current(c))
    /\ funnels' = (funnels \ Current(c)) \cup
                  {NewFlow(Wanted(c), router[c].key, c, router[c].echo)}
    /\ Sends(c, router[c].echo)
    /\ UNCHANGED <<os, up, packetDemuxChan, listeners, nextAssignment, revisited, rover, wire, got, packets>>

GetOrRegister(c) ==
    GetRegistered(c) \/ RegisterSocket(c) \/ SocketFails(c) \/ RegisterEchoID(c)

Touch(F, id) == {IF f.id = id THEN [f EXCEPT !.fresh = TRUE] ELSE f : f \in F}

(* sendToDst, with the flow's echo ID; a closed socket is an error.        *)
SendToDst(c) ==
    LET r == router[c] IN
    /\ r.pc = "send"
    /\ router' = [router EXCEPT ![c] = Idle]
    /\ funnels' = Touch(funnels, FunnelID(r.key, r.echo))
    /\ wire' = IF os = "linux" /\ r.echo \notin sockets THEN wire
               ELSE wire \cup {[echo |-> r.echo, asker |-> r.key]}
    /\ UNCHANGED <<os, up, packetDemuxChan, trackerVars, sockets, rover, listeners, got, packets>>

(* The flow a reply belongs to: the listener of its socket, or on macOS    *)
(* the funnel of its echo ID.                                              *)
ListeningFlows(w) == {l \in listeners : l.echo = w.echo /\ w.echo \in sockets}
FlowsOfEchoID(w) == {f \in funnels : f.echo = w.echo}

(* A reply goes back with the addresses and ID of its flow.                *)
ReturnToSrc(w) ==
    /\ w \in wire /\ wire' = wire \ {w}
    /\ LET flows == IF os = "linux" THEN ListeningFlows(w) ELSE FlowsOfEchoID(w)
       IN  /\ \E f \in flows : /\ got' = Reply(f.key, w.asker, w.echo \in revisited)
                               /\ funnels' = Touch(funnels, f.id)
           /\ UNCHANGED <<trackerVars, sockets, rover, listeners>>
    /\ UNCHANGED <<os, up, packetDemuxChan, router, packets>>

(* No answer, or one that is not an echo reply or has no flow any more.    *)
Unanswered(w) ==
    /\ w \in wire /\ wire' = wire \ {w}
    /\ UNCHANGED <<os, up, packetDemuxChan, router, flowVars, got, packets>>

(* listenResponse fails to read from the closed socket and unregisters its *)
(* flow, if that is still the one registered (icmpEchoFlow.Equal).         *)
ListenerEnds(l) ==
    LET own == {f \in funnels : f.id = l.id /\ f.key = l.key /\ f.echo = l.echo} IN
    /\ l \in listeners /\ l.echo \notin sockets
    /\ listeners' = listeners \ {l}
    /\ CloseFunnels(own) /\ funnels' = funnels \ own
    /\ UNCHANGED <<os, up, packetDemuxChan, router, nextAssignment, revisited, rover, wire, got, packets>>

(* FunnelTracker.cleanup, once per idle timeout.  lastActive has seconds   *)
(* only, so that a flow active since may be closed as well.                *)
Cleanup ==
    /\ os # "windows" /\ funnels # {}
    /\ \E early \in SUBSET funnels :
          LET idle == {f \in funnels : ~f.fresh \/ f \in early} IN
          /\ CloseFunnels(idle)
          /\ funnels' = {[f EXCEPT !.fresh = FALSE] : f \in funnels \ idle}
    /\ UNCHANGED <<os, up, packetDemuxChan, router, nextAssignment, revisited, rover, listeners, wire, got, packets>>

(* What IcmpSendEcho and Icmp6SendEcho2 leave in the reply buffer: a reply *)
(* with the request's data, a status or no reply within a second, or one   *)
(* that does not fit.                                                      *)
EchoResp == {"success", "status", "malformed"}

(* handleEchoReply: only a success is returned.                            *)
HandleEchoReply(k, resp) == IF resp = "success" THEN Reply(k, k, FALSE) ELSE got

(* Windows: the router waits for the answer; an echo without data panics,  *)
(* which is recovered.                                                     *)
IcmpEchoRoundtrip(c) ==
    /\ router[c].pc = "roundtrip"
    /\ router' = [router EXCEPT ![c] = Idle]
    /\ \E resp \in EchoResp : got' = HandleEchoReply(router[c].key, resp)
    /\ UNCHANGED <<os, up, packetDemuxChan, flowVars, wire, packets>>

ICMPNext ==
    \/ \E c \in Conns : \/ Demux(c) \/ HandlePacket(c) \/ ConnectionEnds(c)
                        \/ GetOrAssign(c) \/ GetOrRegister(c) \/ SendToDst(c)
                        \/ IcmpEchoRoundtrip(c)
    \/ \E w \in wire : ReturnToSrc(w) \/ Unanswered(w)
    \/ \E l \in listeners : ListenerEnds(l)
    \/ Cleanup

(* Goroutines run, the cleanup ticker fires.                               *)
ICMPFairness ==
    /\ WF_icmpVars(Cleanup)
    /\ WF_icmpVars(\E l \in listeners : ListenerEnds(l))
    /\ \A c \in Conns : WF_icmpVars(HandlePacket(c) \/ GetOrAssign(c) \/ GetOrRegister(c)
                                    \/ SendToDst(c) \/ IcmpEchoRoundtrip(c))

ICMPSpec == ICMPInit /\ [][ICMPNext]_icmpVars /\ ICMPFairness

-----------------------------------------------------------------------------
(***************************************************************************)
(* A reply is returned to the source that asked, with the echo ID it used, *)
(* whatever flows were closed, replaced or reassigned in between; on macOS *)
(* unless its ID was given out again before the former use was over.       *)
(***************************************************************************)
ReplyFindsItsAsker == got.reused \/ got.to = got.asker

(***************************************************************************)
(* Nothing of a flow outlives it: on Linux an open socket belongs to the   *)
(* registered flow of its port, which is listened to; on macOS an assigned *)
(* echo ID has its flow, or a request about to register it, with the same  *)
(* exception.                                                              *)
(***************************************************************************)
NoFlowLeak ==
    /\ \A p \in sockets : /\ \E f \in funnels : f.echo = p
                          /\ \E l \in listeners : l.echo = p
    /\ os = "darwin" => \A i \in EchoIDs \ revisited : assignment[i] =>
          \E k \in Keys : /\ mapping[k] = i
                          /\ \/ \E f \in funnels : f.echo = i /\ f.key = k
                             \/ \E c \in Conns : router[c] = [pc |-> "register", key |-> k, echo |-> i]

(***************************************************************************)
(* The flow table is sound: replies find who asked, and what a flow holds  *)
(* belongs to a flow that is registered.                                   *)
(***************************************************************************)
FlowsSound == ReplyFindsItsAsker /\ NoFlowLeak

(***************************************************************************)
(* echoIDTracker maps a source, destination and echo ID "to a unique echo  *)
(* ID": the ID one of them is given is not that of another one's flow.     *)
(* This does not hold: the flow that replaces one of another connection    *)
(* has the ID that closing the replaced one released.                      *)
(***************************************************************************)
UniqueEchoID ==
    os = "darwin" => \A k \in Keys, f \in funnels : mapping[k] = f.echo => f.key = k

(***************************************************************************)
(* funnelIdleTimeout: once packets stop coming, every flow is closed, its  *)
(* listener ends and its echo ID is free again, with the same exception.   *)
(***************************************************************************)
QuietFlowsEnd ==
    <>[](/\ funnels = {} /\ listeners = {} /\ sockets = {}
         /\ \A i \in EchoIDs \ revisited : ~assignment[i])
=============================================================================
