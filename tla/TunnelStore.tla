----------------------------- MODULE TunnelStore -----------------------------
(***************************************************************************)
(* The tunnels, routes and virtual networks of an account, as cfapi sees   *)
(* them: the backend itself is external and modelled from what the client  *)
(* asks of it and from the answers it distinguishes; what the client makes *)
(* of an answer is its own code.                                           *)
(*                                                                         *)
(* A request is refused and leaves the backend as it was, or it is applied *)
(* and its answer comes back, comes back unreadable, or is lost (the http  *)
(* client gives up after defaultTimeout).  One network of addresses is     *)
(* routed.                                                                 *)
(***************************************************************************)
EXTENDS Naturals, FiniteSets

CONSTANTS TunnelNames,    \* names a tunnel can be given
          MaxTunnels,     \* tunnels are numbered 1 .. MaxTunnels as created
          VnetNames,      \* names a virtual network can be given
          MaxVnets,       \* virtual networks are numbered alike
          GarbledCreate   \* can the answer to a create be unreadable?

NilID == 0                \* uuid.Nil
FirstVnet == 1            \* the network the backend created
TunnelIDs == 1 .. MaxTunnels
VnetIDs == 1 .. MaxVnets

VARIABLES tunnels,   \* ID -> [name, state, conns]
          hosts,     \* the tunnel the DNS record or load balancer points to
          routes,    \* virtual network -> the tunnel the network routes to
          vnets,     \* ID -> [name, state]
          defaultVnet    \* the network of a request that names none
storeVars == <<tunnels, hosts, routes, vnets, defaultVnet>>

Live(tab) == {i \in DOMAIN tab : tab[i].state = "live"}
Unused(tab) == {i \in DOMAIN tab : tab[i].state = "unused"}

(* A filter of the list calls keeps what matches every parameter set on it;*)
(* "" stands for a parameter that is not set.                              *)
Matches(tab, filter) ==
    {i \in DOMAIN tab :
        /\ tab[i].state # "unused"
        /\ filter.deleted \/ tab[i].state = "live"
        /\ filter.name \in {"", tab[i].name}
        /\ filter.id \in {NilID, i}}
NewTunnelFilter == [deleted |-> TRUE, name |-> "", id |-> NilID]
NoDeleted(filter) == [filter EXCEPT !.deleted = FALSE]
ByName(filter, n) == [filter EXCEPT !.name = n]
ByTunnelID(filter, i) == [filter EXCEPT !.id = i]
NewVnetFilter == NewTunnelFilter

-----------------------------------------------------------------------------
(* What the client makes of an answer.                                     *)
Applied == {"answered", "garbled", "lost"}
Outcomes == Applied \cup {"refused"}

(* parseResponse: a body it cannot read or that lists errors is an error.  *)
ParsesResponse(o) == o = "answered"

(* statusCodeToError alone: an unreadable body says nothing, the status is *)
(* 200.                                                                    *)
StatusIsOK(o) == o \in {"answered", "garbled"}

(* CreateTunnel tests err, not serdeErr: an unreadable answer passes for a *)
(* tunnel without an ID.                                                   *)
CreateOutcomes == IF GarbledCreate THEN Outcomes ELSE Outcomes \ {"garbled"}
CreateSucceeds(o) == StatusIsOK(o)
CreatedID(o, id) == IF ParsesResponse(o) THEN id ELSE NilID

-----------------------------------------------------------------------------
(* The calls that change the account, each with the outcome o.             *)
NameTaken(name) == \E i \in Live(tunnels) : tunnels[i].name = name

StoreTunnel(name, id) ==
    /\ id \in Unused(tunnels) /\ \A j \in Unused(tunnels) : id <= j
    /\ ~NameTaken(name)
    /\ tunnels' = [tunnels EXCEPT ![id].name = name, ![id].state = "live"]
    /\ UNCHANGED <<hosts, routes, vnets, defaultVnet>>

(* The backend keeps a tunnel that has connections.                        *)
Deletable(id) == id \in Live(tunnels) /\ ~tunnels[id].conns
DeleteTunnel(id, o) ==
    /\ o = "refused" \/ Deletable(id)
    /\ tunnels' = IF o \in Applied THEN [tunnels EXCEPT ![id].state = "deleted"]
                  ELSE tunnels
    /\ UNCHANGED <<hosts, routes, vnets, defaultVnet>>

CleanupConnections(id, o) ==
    /\ o = "refused" \/ id \in Live(tunnels)
    /\ tunnels' = IF o \in Applied THEN [tunnels EXCEPT ![id].conns = FALSE]
                  ELSE tunnels
    /\ UNCHANGED <<hosts, routes, vnets, defaultVnet>>

RouteTunnel(id, o) ==
    /\ o = "refused" \/ id \in Live(tunnels)
    /\ hosts' = IF o \in Applied THEN id ELSE hosts
    /\ UNCHANGED <<tunnels, routes, vnets, defaultVnet>>

(* The vnet of a request for a route: the query parameter that             *)
(* setVnetParam adds, or the account's default at that moment.             *)
VnetParam(v) == IF v = NilID THEN defaultVnet ELSE v

(* ForgetsVnetBug is a setVnetParam whose parameter never reaches the      *)
(* request.                                                                *)
ForgetsVnetBug(v) == defaultVnet
SetVnetParam(v) == VnetParam(v)

AddRoute(id, v, o) ==
    LET w == VnetParam(v)
    IN  /\ \/ o = "refused"
           \/ id \in Live(tunnels) /\ w \in Live(vnets) /\ routes[w] = NilID
        /\ routes' = IF o \in Applied THEN [routes EXCEPT ![w] = id] ELSE routes
        /\ UNCHANGED <<tunnels, hosts, vnets, defaultVnet>>

DeleteRoute(v, o) ==
    LET w == SetVnetParam(v)
    IN  /\ o = "refused" \/ routes[w] # NilID
        /\ routes' = IF o \in Applied THEN [routes EXCEPT ![w] = NilID] ELSE routes
        /\ UNCHANGED <<tunnels, hosts, vnets, defaultVnet>>

(* A network created or updated with --default becomes the account's       *)
(* default, and the former one no longer is.                               *)
VnetNameTaken(name) == \E i \in Live(vnets) : vnets[i].name = name
MakeDefault(v, isDefault, o) ==
    defaultVnet' = IF isDefault /\ o \in Applied THEN v ELSE defaultVnet

CreateVirtualNetwork(name, id, isDefault, o) ==
    /\ id \in Unused(vnets) /\ \A j \in Unused(vnets) : id <= j
    /\ o = "refused" \/ ~VnetNameTaken(name)
    /\ vnets' = IF o \in Applied
                THEN [vnets EXCEPT ![id] = [name |-> name, state |-> "live"]]
                ELSE vnets
    /\ MakeDefault(id, isDefault, o)
    /\ UNCHANGED <<tunnels, hosts, routes>>

(* Only force deletes a virtual network that has routes, and them with it; *)
(* the default network stays.                                              *)
DeleteVirtualNetwork(v, force, o) ==
    /\ \/ o = "refused"
       \/ v \in Live(vnets) \ {defaultVnet} /\ (force \/ routes[v] = NilID)
    /\ IF o \in Applied
       THEN /\ vnets' = [vnets EXCEPT ![v].state = "deleted"]
            /\ routes' = [routes EXCEPT ![v] = NilID]
       ELSE UNCHANGED <<vnets, routes>>
    /\ UNCHANGED <<tunnels, hosts, defaultVnet>>

(* A name of "" is left as it is.                                          *)
UpdateVirtualNetwork(v, name, isDefault, o) ==
    /\ \/ o = "refused"
       \/ v \in Live(vnets) /\ (name = "" \/ ~VnetNameTaken(name))
    /\ vnets' = IF o \in Applied /\ name # "" THEN [vnets EXCEPT ![v].name = name]
                ELSE vnets
    /\ MakeDefault(v, isDefault, o)
    /\ UNCHANGED <<tunnels, hosts, routes>>

=============================================================================
