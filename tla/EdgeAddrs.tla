------------------------------ MODULE EdgeAddrs ------------------------------
(***************************************************************************)
(* How cloudflared hands out edge addresses to its HA connections          *)
(* (edgediscovery.Edge over allregions.Regions, Region and AddrSet).       *)
(*                                                                         *)
(* The edge is partitioned into two regions.  A region holds a primary and *)
(* a secondary address set, one per IP family, of which one is active: new *)
(* addresses only come from the active set, while a connection may still   *)
(* hold an address of the other one.  Every exported method of Edge runs   *)
(* under one mutex, so each is one action.  The only caller is             *)
(* EdgeTunnelServer.Serve: it asks for an address, serves on it and, when  *)
(* the error says so, gives it back for a different one before returning.  *)
(***************************************************************************)
EXTENDS Integers, Sequences, FiniteSets

CONSTANTS
    Conns,              \* connection indexes, 0 .. HAConnections-1
    RegionList,         \* RegionList[r]: the addresses DNS returned, in order
    IPVersion,          \* IPVersion[a]: 4 or 6
    OverrideIPVersion,  \* "Auto", "IPv4Only" or "IPv6Only"
    None                \* no connection, no address

Regions == {1, 2}

AddrsOf(r) == {RegionList[r][i] : i \in 1 .. Len(RegionList[r])}

(* NewRegion: the first address returned fixes the preferred family, an    *)
(* override keeps a single family.                                         *)
Family(r, v) == {a \in AddrsOf(r) : IPVersion[a] = v}

SystemPreference(r) ==
    IF RegionList[r] = <<>> THEN 6 ELSE IPVersion[RegionList[r][1]]

PrimaryVersion(r) ==
    CASE OverrideIPVersion = "IPv4Only" -> 4
      [] OverrideIPVersion = "IPv6Only" -> 6
      [] OTHER                          -> SystemPreference(r)

Primary(r) == Family(r, PrimaryVersion(r))

Secondary(r) ==
    IF OverrideIPVersion = "Auto" THEN Family(r, 10 - PrimaryVersion(r)) ELSE {}

RegionAddrs(r) == Primary(r) \cup Secondary(r)

Addrs == RegionAddrs(1) \cup RegionAddrs(2)

ASSUME ConnsAssumption == IsFiniteSet(Conns) /\ None \notin Conns

(* Addresses are pointers: each belongs to one region only.                *)
ASSUME AddrsAssumption ==
    /\ None \notin Addrs
    /\ IsFiniteSet(Addrs)
    /\ \A a \in Addrs : IPVersion[a] \in {4, 6}
    /\ \A r \in Regions : SystemPreference(r) \in {4, 6}
    /\ RegionAddrs(1) \cap RegionAddrs(2) = {}

VARIABLES
    usedBy,           \* UsedBy of every address: a connection, or None
    primaryIsActive,  \* per region: the active set is the primary one
    timeoutExceeded,  \* per region: primaryTimeout is before time.Now()
    edgeAddr          \* per connection: the address Serve got from GetAddr

edgeVars == <<usedBy, primaryIsActive, timeoutExceeded, edgeAddr>>

-----------------------------------------------------------------------------
(* AddrSet and Region: every operator takes the state it reads, since one  *)
(* call of Edge goes through several of them.                              *)

Active(r, isPrimary) == IF isPrimary[r] THEN Primary(r) ELSE Secondary(r)

(* Variants named "...Bug" are the definitions that follow them with a     *)
(* plausible mistake; no specification uses them.                          *)
AddrUsedByBug(c) ==
    {a \in Active(1, primaryIsActive) \cup Active(2, primaryIsActive) :
        usedBy[a] = c}

AddrUsedBy(c) == {a \in Addrs : usedBy[a] = c}

AvailableAddrs(r, used, isPrimary) ==
    Cardinality({a \in Active(r, isPrimary) : used[a] = None})

TakenIPBug(r, used, isPrimary, excluding) ==
    {a \in Active(r, isPrimary) : a # excluding}

SameIPBug(r, used, isPrimary, excluding) ==
    {a \in Active(r, isPrimary) : used[a] = None}

GetUnusedIP(r, used, isPrimary, excluding) ==
    {a \in Active(r, isPrimary) : used[a] = None /\ a # excluding}

OneRegionBug(used, isPrimary, excluding) == GetUnusedIP(1, used, isPrimary, excluding)

(* Regions.GetUnusedAddr: the addresses the call may return, none meaning  *)
(* nil.  The region with more available addresses is tried first, either   *)
(* one on a tie, and then the other.                                       *)
GetUnusedAddr(used, isPrimary, excluding) ==
    UNION {LET first == GetUnusedIP(r, used, isPrimary, excluding)
           IN  IF first # {} THEN first
               ELSE GetUnusedIP(3 - r, used, isPrimary, excluding)
           : r \in {s \in Regions :
                      AvailableAddrs(s, used, isPrimary)
                        >= AvailableAddrs(3 - s, used, isPrimary)}}

(* Region.GiveBack's choice of the active set, for an address of region r  *)
(* handed back with a connectivity error.                                  *)
FallsBackBug(r, a) == primaryIsActive[r] /\ Secondary(r) # {}

FallsBack(r, a) ==
    primaryIsActive[r] /\ IPVersion[a] = 6 /\ Secondary(r) # {}

ReturnsToPrimary(r, a) ==
    ~primaryIsActive[r] /\ (IPVersion[a] = 4 \/ timeoutExceeded[r])

ActiveAfterGiveBack(r, a) ==
    IF FallsBack(r, a) THEN FALSE
    ELSE primaryIsActive[r] \/ ReturnsToPrimary(r, a)

TimeoutAfterGiveBack(r, a) ==
    IF FallsBack(r, a) THEN FALSE
    ELSE timeoutExceeded[r] \/ ReturnsToPrimary(r, a)

-----------------------------------------------------------------------------
EdgeInit ==
    /\ usedBy = [a \in Addrs |-> None]
    /\ primaryIsActive = [r \in Regions |-> TRUE]
    /\ timeoutExceeded = [r \in Regions |-> TRUE]
    /\ edgeAddr = [c \in Conns |-> None]

(* Serve starts and calls Edge.GetAddr: the address the connection already *)
(* has, or an unused one.                                                  *)
GetAddrSame(c) ==
    /\ edgeAddr[c] = None
    /\ \E a \in AddrUsedBy(c) : edgeAddr' = [edgeAddr EXCEPT ![c] = a]
    /\ UNCHANGED <<usedBy, primaryIsActive, timeoutExceeded>>

GetAddrNew(c) ==
    /\ edgeAddr[c] = None
    /\ AddrUsedBy(c) = {}
    /\ \E a \in GetUnusedAddr(usedBy, primaryIsActive, None) :
         /\ usedBy' = [usedBy EXCEPT ![a] = c]
         /\ edgeAddr' = [edgeAddr EXCEPT ![c] = a]
    /\ UNCHANGED <<primaryIsActive, timeoutExceeded>>

GetAddrFails(c) ==
    /\ edgeAddr[c] = None
    /\ AddrUsedBy(c) = {}
    /\ GetUnusedAddr(usedBy, primaryIsActive, None) = {}
    /\ UNCHANGED edgeVars

(* Serve returns without asking for another address.                       *)
ServeEnds(c) ==
    /\ edgeAddr[c] # None
    /\ edgeAddr' = [edgeAddr EXCEPT ![c] = None]
    /\ UNCHANGED <<usedBy, primaryIsActive, timeoutExceeded>>

(* Serve met an error that asks for a new address and calls                *)
(* Edge.GetDifferentAddr(c, true), then returns.  The new address is       *)
(* reserved for the next Serve; when there is none the call fails with     *)
(* errNoAddressesLeft and the connection holds nothing.                    *)
GetDifferentAddr(c) ==
    /\ edgeAddr[c] # None
    /\ \E old \in AddrUsedBy(c), r \in Regions :
         LET given  == [usedBy EXCEPT ![old] = None]
             active == [primaryIsActive EXCEPT ![r] = ActiveAfterGiveBack(r, old)]
             new    == GetUnusedAddr(given, active, old)
         IN  /\ old \in RegionAddrs(r)
             /\ primaryIsActive' = active
             /\ timeoutExceeded' =
                  [timeoutExceeded EXCEPT ![r] = TimeoutAfterGiveBack(r, old)]
             /\ \/ \E a \in new : usedBy' = [given EXCEPT ![a] = c]
                \/ new = {} /\ usedBy' = given
    /\ edgeAddr' = [edgeAddr EXCEPT ![c] = None]

(* Ten minutes after a region left its primary set.                        *)
PrimaryTimeoutPasses(r) ==
    /\ ~timeoutExceeded[r]
    /\ timeoutExceeded' = [timeoutExceeded EXCEPT ![r] = TRUE]
    /\ UNCHANGED <<usedBy, primaryIsActive, edgeAddr>>

EdgeNext ==
    \/ \E c \in Conns : \/ GetAddrSame(c)
                        \/ GetAddrNew(c)
                        \/ GetAddrFails(c)
                        \/ ServeEnds(c)
                        \/ GetDifferentAddr(c)
    \/ \E r \in Regions : PrimaryTimeoutPasses(r)

EdgeSpec == EdgeInit /\ [][EdgeNext]_edgeVars

-----------------------------------------------------------------------------
(* Type correctness of the address book kept by Edge.                      *)
EdgeTypeOK ==
    /\ usedBy \in [Addrs -> Conns \cup {None}]
    /\ primaryIsActive \in [Regions -> BOOLEAN]
    /\ timeoutExceeded \in [Regions -> BOOLEAN]
    /\ edgeAddr \in [Conns -> Addrs \cup {None}]

(* A connection reserves at most one address, across both sets of both     *)
(* regions: GetAddr and GetDifferentAddr never leave an address behind,    *)
(* whichever set was active when it was taken.                             *)
OneAddrPerConn ==
    \A a, b \in Addrs : usedBy[a] # None /\ usedBy[a] = usedBy[b] => a = b

(* The address a running connection dials is the one reserved for it, so   *)
(* two connections never run on the same edge address.                     *)
DialsOwnAddr ==
    \A c \in Conns : edgeAddr[c] # None => usedBy[edgeAddr[c]] = c

(* A region leaves its primary set only if that set is IPv6 and there is a *)
(* secondary set to use: an IPv4-preferring host never falls back.         *)
FallbackIsFromV6 ==
    \A r \in Regions : ~primaryIsActive[r] =>
        Secondary(r) # {} /\ \A a \in Primary(r) : IPVersion[a] = 6

(* The address book is sound: well-typed, one address to a connection and  *)
(* the one it dials, and only IPv6 falls back.                             *)
AddrsSound == EdgeTypeOK /\ OneAddrPerConn /\ DialsOwnAddr /\ FallbackIsFromV6

(* GetAddr cannot fail while the active sets hold at least one address per *)
(* connection, however addresses were taken, rotated and given back.       *)
EnoughAddrs ==
    Cardinality(Active(1, primaryIsActive)) + Cardinality(Active(2, primaryIsActive))
        >= Cardinality(Conns)
      => \A c \in Conns : AddrUsedBy(c) = {} =>
             GetUnusedAddr(usedBy, primaryIsActive, None) # {}

(* A connection that rotates never ends up with the address it gave back.  *)
RotationChangesAddr ==
    [][\A c \in Conns, a \in Addrs :
         GetDifferentAddr(c) /\ usedBy[a] = c => usedBy'[a] # c]_edgeVars

(* Only a connection's own calls change what it reserves: no rotation,     *)
(* fallback or timeout of another connection takes its address away.       *)
NoTheft ==
    [][\A a \in Addrs : usedBy[a] # None /\ usedBy'[a] # usedBy[a] =>
         edgeAddr[usedBy[a]] # None /\ edgeAddr'[usedBy[a]] = None]_edgeVars

(* What a step of one connection may never do to an address.               *)
AddrSteps == RotationChangesAddr /\ NoTheft
=============================================================================
