--------------------------- MODULE MCOrchestrator ---------------------------
(***************************************************************************)
(* What the edge and its dashboard may change or watch in a running        *)
(* process: the orchestrator's configuration, what such a configuration    *)
(* means, and the management service.  A behaviour is about one of the     *)
(* three, and the others stay where they start.                            *)
(***************************************************************************)
EXTENDS Orchestrator, Ingress, Management

AllLower == [l \in {"a", "b", "c", "m", "*", "*b"} |-> l] @@ [l \in {"A"} |-> "a"]
AllRegexps == [p \in {"^/a"} |-> {"/a"}]

Raw(host, port, path, service, overrides) ==
    [hostname |-> host, port |-> port, path |-> path, service |-> service,
     originRequest |-> overrides]

(* Which rule a request finds: up to three rules over hostnames with and   *)
(* without a wildcard, in either case, well and badly formed.              *)
Hosts == {<<>>, <<"*">>, <<"a", "b">>, <<"A", "b">>, <<"*", "b">>, <<"*b">>,
          <<"a", "*">>}
HostRules == {Raw(h, FALSE, p, "http://h", NothingSet) :
                 h \in Hosts, p \in {"", "^/a", "("}}
             \cup {Raw(<<"a", "b">>, TRUE, "", "http://h", NothingSet)}
LastRule == Raw(<<>>, FALSE, "", "http_status:404", NothingSet)
RoutingConfs ==
    {[global |-> NothingSet, rules |-> rs] :
        rs \in {<<r>> : r \in HostRules}
               \cup {<<r, s>> : r \in HostRules, s \in HostRules}
               \cup {<<r, s, LastRule>> : r \in HostRules, s \in HostRules}}

(* What a setting becomes: each field set to every value at both levels,   *)
(* and those that choose the service with every kind of service.           *)
IPRule(n, ps) == [prefix |-> n, ports |-> ps, allow |-> TRUE]
Accesses == {[required |-> q, teamName |-> t, audTag |-> a] :
                q \in BOOLEAN, t \in {"", "team"}, a \in {{}, {"x"}}}
Settings ==
    {NothingSet}
    \cup {[NothingSet EXCEPT !.connectTimeout = <<d>>] : d \in {0, 500, 1000, 30000}}
    \cup {[NothingSet EXCEPT !.noTLSVerify = <<b>>] : b \in BOOLEAN}
    \cup {[NothingSet EXCEPT !.bastionMode = <<b>>] : b \in BOOLEAN}
    \cup {[NothingSet EXCEPT !.ipRules = <<IPRule(n, {80})>>] : n \in {"10.0.0.0/8", "10"}}
    \cup {[NothingSet EXCEPT !.ipRules = <<IPRule("10.0.0.0/8", {0})>>],
          [NothingSet EXCEPT !.ipRules = <<IPRule("10", {80}), IPRule("10.0.0.0/8", {80})>>]}
    \cup {[NothingSet EXCEPT !.access = <<x>>] : x \in Accesses}
BastionSettings == {o \in Settings : o = NothingSet \/ o.bastionMode # <<>>}
AllServices == DOMAIN Parsed \cup DOMAIN URLServices \cup
               {"socks-proxy", "bastion", "http_status:99", "h", "http://h/p"}
OneRule(g, s, o) == [global |-> g, rules |-> <<Raw(<<>>, FALSE, "", s, o)>>]
SettingConfs ==
    {OneRule(g, s, o) : g \in Settings, o \in Settings, s \in {"tcp://h", "socks-proxy"}}
    \cup {OneRule(g, s, o) : g \in BastionSettings, o \in BastionSettings,
                             s \in AllServices}

MCConfs == RoutingConfs \cup SettingConfs
           \cup {[global |-> NothingSet, rules |-> <<>>]}
MCCLIs == [helloWorld : BOOLEAN, bastion : BOOLEAN,
           url : {"", "tcp://h", "(", "http://h"}, unixSocket : BOOLEAN,
           args : BOOLEAN, connectTimeout : {<<>>, <<1000>>}]
MCAsks == {[host |-> h, path |-> p] : p \in {"/", "/a"},
              h \in {<<"a", "b">>, <<"c", "a", "b">>, <<"b">>, <<"m">>, <<"c">>}}
MCManagementHost == <<"m">>
----------------------------------------------------------------------------
(* Two clients of the management service, of the same actor or of two.     *)
CONSTANTS c1, c2
MCActors == {[c \in Conns |-> "ann"],
             [c \in Conns |-> IF c = c1 THEN "ann" ELSE "bob"]}
----------------------------------------------------------------------------
VARIABLE part
mcVars == <<part, vars, ingressVars, mgmtVars>>

IngressOff == /\ conf = [global |-> NothingSet, rules |-> <<>>]
              /\ cli = CHOOSE c \in CLIs : TRUE
              /\ phase = "off" /\ ing = <<>> /\ local = <<>> /\ asked = <<>>

MCInit == /\ Init /\ ManagementInit
          /\ \/ part = "management" /\ IngressOff
             \/ /\ actor = CHOOSE a \in ActorChoices : TRUE
                /\ \/ part = "orchestrator" /\ IngressOff
                   \/ part = "ingress" /\ IngressInit

MCNext == /\ \/ part = "orchestrator" /\ Next /\ UNCHANGED <<ingressVars, mgmtVars>>
             \/ part = "ingress" /\ IngressNext /\ UNCHANGED <<vars, mgmtVars>>
             \/ part = "management" /\ ManagementNext /\ UNCHANGED <<vars, ingressVars>>
          /\ UNCHANGED part

MCSpec == MCInit /\ [][MCNext]_mcVars /\ Fairness /\ ManagementFairness
=============================================================================
