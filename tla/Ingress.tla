------------------------------ MODULE Ingress ------------------------------
(***************************************************************************)
(* The ingress rules: how they are read from the configuration file, the   *)
(* command line or a remote configuration, how a request finds its rule,   *)
(* and how the rules in use are sent to the edge, which may hand them back *)
(* as a remote configuration.                                              *)
(*                                                                         *)
(* A hostname is the sequence of its labels, <<>> the empty one.  "*" and  *)
(* "*b" are labels that contain the wildcard character.  A pointer of the  *)
(* raw configuration is a sequence of at most one value.  Of the fields of *)
(* originRequest there is one of each kind: connectTimeout for those with  *)
(* a default that is not the zero value, noTLSVerify for those whose       *)
(* default is zero, and the three that validateIngress itself looks at.    *)
(* Durations are in milliseconds.                                          *)
(***************************************************************************)
EXTENDS Integers, Sequences, SequencesExt

CONSTANTS
    Confs,         \* raw configurations: [global, rules]
    CLIs,          \* command lines: which origin flags are set
    Asks,          \* requests: [host, path]
    RegexpMatch,   \* pattern that compiles -> the paths it matches
    Lower,         \* label -> what idna makes of it
    ManagementHost \* hostname of the one internal rule

VARIABLES conf, cli, phase,
    ing,           \* the rules in use
    local,         \* the rules GetConfigJSON sent to the edge
    asked          \* the request routed last, if any, and its rule

ingressVars == <<conf, cli, phase, ing, local, asked>>
----------------------------------------------------------------------------
(* Values of originRequest.                                                *)
defaultHTTPConnectTimeout == 30000
NoAccess == [required |-> FALSE, teamName |-> "", audTag |-> {}]
TeamDefaults ==
    [connectTimeout |-> defaultHTTPConnectTimeout, noTLSVerify |-> FALSE,
     bastionMode |-> FALSE, ipRules |-> <<>>, access |-> NoAccess]

(* The zero value of OriginRequestConfig, which the rule of                *)
(* GetDefaultIngressRules is left with.                                    *)
ZeroConfig == [TeamDefaults EXCEPT !.connectTimeout = 0]

NothingSet == [connectTimeout |-> <<>>, noTLSVerify |-> <<>>,
               bastionMode |-> <<>>, ipRules |-> <<>>, access |-> <<>>]

Or(pointer, default) == IF pointer = <<>> THEN default ELSE pointer[1]

(* ipaccess: a prefix that parses and ports within their range.            *)
Nets == {"10.0.0.0/8", "192.168.0.0/16"}
ZeroRule == [prefix |-> "<nil>", ports |-> {}, allow |-> FALSE]
ValidRule(r) == r.prefix \in Nets /\ r.ports \subseteq 1 .. 65535

(* originRequestFromConfig leaves out an ipRule that is not valid, where   *)
(* setIPRules leaves a zero Rule in its place.  The k-th rule it keeps is  *)
(* the valid one with k valid ones up to it.                               *)
ValidUpTo(rules, n) == Cardinality({i \in 1 .. n : ValidRule(rules[i])})
ValidOnes(rules) ==
    [k \in 1 .. ValidUpTo(rules, Len(rules)) |->
        rules[CHOOSE i \in 1 .. Len(rules) :
                 ValidRule(rules[i]) /\ ValidUpTo(rules, i) = k]]

OriginRequestFromConfig(c) ==
    [connectTimeout |-> Or(c.connectTimeout, defaultHTTPConnectTimeout),
     noTLSVerify |-> Or(c.noTLSVerify, FALSE),
     bastionMode |-> Or(c.bastionMode, FALSE),
     ipRules |-> ValidOnes(c.ipRules),
     access |-> Or(c.access, NoAccess)]

SetIPRules(default, rules) ==
    IF rules = <<>> THEN default
    ELSE [i \in 1 .. Len(rules) |->
             IF ValidRule(rules[i]) THEN rules[i] ELSE ZeroRule]

SetConfig(defaults, overrides) ==
    [connectTimeout |-> Or(overrides.connectTimeout, defaults.connectTimeout),
     noTLSVerify |-> Or(overrides.noTLSVerify, defaults.noTLSVerify),
     bastionMode |-> Or(overrides.bastionMode, defaults.bastionMode),
     ipRules |-> SetIPRules(defaults.ipRules, overrides.ipRules),
     access |-> Or(overrides.access, defaults.access)]

(* A value is written only when it differs from the default that reading   *)
(* an empty configuration puts in its place.                               *)
Unless(default, value) == IF value = default THEN <<>> ELSE <<value>>

ZeroIsDefaultBug(c) ==
    [connectTimeout |-> Unless(0, c.connectTimeout),
     noTLSVerify |-> Unless(FALSE, c.noTLSVerify),
     bastionMode |-> Unless(FALSE, c.bastionMode),
     ipRules |-> c.ipRules,
     access |-> IF c.access.required THEN <<c.access>> ELSE <<>>]

ConvertToRawOriginConfig(c) ==
    [connectTimeout |-> Unless(defaultHTTPConnectTimeout, c.connectTimeout),
     noTLSVerify |-> Unless(FALSE, c.noTLSVerify),
     bastionMode |-> Unless(FALSE, c.bastionMode),
     ipRules |-> c.ipRules,
     access |-> IF c.access.required THEN <<c.access>> ELSE <<>>]
(* CustomDuration is written as a number of seconds with a fraction and    *)
(* read as an integer.                                                     *)
ReadsBack(d) == d % 1000 = 0
----------------------------------------------------------------------------
(* Services.  The text of a service is what a rule names; Parsed is the    *)
(* OriginService made of it.                                               *)
Svc(kind, dest) == [kind |-> kind, dest |-> dest, policy |-> <<>>]

URLServices ==
    [x \in {"http://h", "tcp://h", "tcp://h:7864"} |->
        IF x = "http://h" THEN Svc("http", x) ELSE Svc("tcp", "tcp://h:7864")]
Parsed ==
    [x \in {"unix:p", "unix+tls:p", "http_status:404", "http_status:503",
            "hello-world", "hello_world"} |->
        CASE x = "unix:p" -> Svc("unix", x)
          [] x = "unix+tls:p" -> Svc("unixtls", x)
          [] x \in {"http_status:404", "http_status:503"} -> Svc("status", x)
          [] x \in {"hello-world", "hello_world"} -> Svc("hello", "hello_world")]
NewBastionService == Svc("bastion", "bastion")

ServiceOf(text, cfg, overrides) ==
    CASE text \in DOMAIN Parsed -> Parsed[text]
      [] text = "socks-proxy" ->
            [Svc("socks", text) EXCEPT !.policy = overrides.ipRules]
      [] text # "socks-proxy" /\ text \notin DOMAIN Parsed
            /\ (text = "bastion" \/ cfg.bastionMode) -> NewBastionService
      [] OTHER -> URLServices[text]

(* A bad status code, an ipRule of a socks proxy that is not valid, or an  *)
(* address without a scheme or with a path.                                *)
ServiceFails(text, cfg, overrides) ==
    CASE text \in DOMAIN Parsed -> FALSE
      [] text = "http_status:99" -> TRUE
      [] text = "socks-proxy" ->
            \E i \in DOMAIN overrides.ipRules : ~ValidRule(overrides.ipRules[i])
      [] OTHER -> /\ text # "bastion"
                  /\ ~cfg.bastionMode
                  /\ text \notin DOMAIN URLServices

String(service) == service.dest
----------------------------------------------------------------------------
(* Hostnames.                                                              *)
HasWildcard(label) == label \in {"*", "*b"}

MatchHost(ruleHost, reqHost) ==
    \/ ruleHost = reqHost
    \/ /\ Len(ruleHost) > 1
       /\ ruleHost[1] = "*"
       /\ Len(reqHost) >= Len(ruleHost)
       /\ IsSuffix(Tail(ruleHost), reqHost)
(* idna.Lookup.ToASCII refuses a wildcard; the result is kept only when it *)
(* differs from the hostname.                                              *)
PunycodeHostname(host) ==
    LET ascii == [i \in DOMAIN host |-> Lower[host[i]]]
    IN  IF (\E i \in DOMAIN host : HasWildcard(host[i])) \/ ascii = host
        THEN <<>> ELSE ascii

CatchAll(host, path) == host \in {<<>>, <<"*">>} /\ path = ""

Matches(rule, host, path) ==
    /\ \/ rule.hostname \in {<<>>, <<"*">>}
       \/ MatchHost(rule.hostname, host)
       \/ rule.punycode # <<>> /\ MatchHost(rule.punycode, host)
    /\ rule.path = "" \/ path \in RegexpMatch[rule.path]

AnyLastRuleBug(r, i, n) ==
    /\ ~r.port
    /\ \A k \in 2 .. Len(r.hostname) : ~HasWildcard(r.hostname[k])
    /\ CatchAll(r.hostname, r.path) => i = n

ValidateHostname(r, i, n) ==
    /\ ~r.port
    /\ \A k \in 2 .. Len(r.hostname) : ~HasWildcard(r.hostname[k])
    /\ CatchAll(r.hostname, r.path) <=> i = n
ValidateAccessConfiguration(access) ==
    ~(access.required /\ access.teamName = "" /\ access.audTag # {})

(* The JWT validator is built from the access settings of the rule itself. *)
HandlersOf(overrides) ==
    IF overrides.access # <<>> /\ overrides.access[1].required
    THEN <<overrides.access[1]>> ELSE <<>>

NewRule(r, defaults) ==
    LET cfg == SetConfig(defaults, r.originRequest)
        service == ServiceOf(r.service, cfg, r.originRequest)
    IN  [hostname |-> r.hostname,
         punycode |-> IF CatchAll(r.hostname, r.path) THEN <<>>
                      ELSE PunycodeHostname(r.hostname),
         path |-> r.path,
         service |-> service,
         handlers |-> HandlersOf(r.originRequest),
         config |-> IF service = NewBastionService
                    THEN [cfg EXCEPT !.bastionMode = TRUE] ELSE cfg]

(* validateIngress, which stops at the first error.                        *)
ValidIngress(rules, defaults) ==
    \A i \in DOMAIN rules :
        LET r == rules[i] IN
        /\ ~ServiceFails(r.service, SetConfig(defaults, r.originRequest),
                         r.originRequest)
        /\ r.originRequest.access # <<>> =>
              ValidateAccessConfiguration(r.originRequest.access[1])
        /\ ValidateHostname(r, i, Len(rules))
        /\ r.path # "" => r.path \in DOMAIN RegexpMatch

ValidateIngress(rules, defaults) ==
    [i \in DOMAIN rules |-> NewRule(rules[i], defaults)]

(* A rule made from the command line, or when there is none.               *)
PlainRule(service, cfg) ==
    [hostname |-> <<>>, punycode |-> <<>>, path |-> "", service |-> service,
     handlers |-> <<>>, config |-> cfg]

GetDefaultIngressRules ==
    <<PlainRule(Parsed["http_status:503"], ZeroConfig)>>

(* parseSingleOriginService looks at the flags in this order.              *)
ParseSingleOriginService(c) ==
    CASE c.helloWorld -> Parsed["hello-world"]
      [] ~c.helloWorld /\ c.bastion -> NewBastionService
      [] ~c.helloWorld /\ ~c.bastion /\ c.url # "" -> URLServices[c.url]
      [] OTHER -> Parsed["unix:p"]

SingleOriginFails(c) ==
    /\ ~c.helloWorld /\ ~c.bastion
    /\ IF c.url # "" THEN c.url \notin DOMAIN URLServices
       ELSE c.unixSocket /\ c.args

NoOrigin(c) == ~c.helloWorld /\ ~c.bastion /\ c.url = "" /\ ~c.unixSocket

OriginRequestFromSingleRule(c) ==
    [TeamDefaults EXCEPT !.connectTimeout = Or(c.connectTimeout, @),
                         !.bastionMode = c.bastion]

ParseCLIIngress(c) ==
    IF NoOrigin(c) THEN GetDefaultIngressRules
    ELSE <<PlainRule(ParseSingleOriginService(c),
                     SetConfig(OriginRequestFromSingleRule(c), NothingSet))>>
----------------------------------------------------------------------------
(* A request, by the host part of its hostname: SplitHostPort takes a port *)
(* away.  The internal rule comes first and is number -1, the user's rules *)
(* are numbered from 1 up (the code's 0), and the last one is the answer   *)
(* when nothing matches.                                                   *)
InternalMatches(req) == MatchHost(ManagementHost, req.host)

FindMatchingRule(req) ==
    LET matching == {i \in DOMAIN ing : Matches(ing[i], req.host, req.path)}
    IN  IF InternalMatches(req) THEN -1
        ELSE IF matching = {} THEN Len(ing) ELSE Min(matching)
----------------------------------------------------------------------------
(* What yaml or the command line can have been unmarshalled to.            *)
AccessConfigs == [required : BOOLEAN, teamName : STRING, audTag : SUBSET STRING]
IPRules == [prefix : STRING, ports : SUBSET Int, allow : BOOLEAN]
RawOriginRequests ==
    [connectTimeout : Seq(Int), noTLSVerify : Seq(BOOLEAN),
     bastionMode : Seq(BOOLEAN), ipRules : Seq(IPRules), access : Seq(AccessConfigs)]
Hostnames == Seq(DOMAIN Lower)
UnvalidatedIngressRules ==
    [hostname : Hostnames, port : BOOLEAN, path : STRING, service : STRING,
     originRequest : RawOriginRequests]
Flags == [helloWorld : BOOLEAN, bastion : BOOLEAN, url : STRING,
          unixSocket : BOOLEAN, args : BOOLEAN, connectTimeout : Seq(Int)]

(* idna makes no wildcard of a label without one; the management hostname  *)
(* is a name in the form that idna gives it.                               *)
ASSUME IngressAssumption ==
    /\ \A c \in Confs : /\ c.global \in RawOriginRequests
                        /\ c.rules \in Seq(UnvalidatedIngressRules)
    /\ CLIs \subseteq Flags /\ CLIs # {}
    /\ \A a \in Asks : a.host \in Hostnames
    /\ Lower \in [DOMAIN Lower -> DOMAIN Lower]
    /\ \A l \in DOMAIN Lower : HasWildcard(Lower[l]) => HasWildcard(l)
    /\ ManagementHost \in Hostnames \ {<<>>}
    /\ \A i \in DOMAIN ManagementHost :
          /\ ~HasWildcard(ManagementHost[i])
          /\ Lower[ManagementHost[i]] = ManagementHost[i]
----------------------------------------------------------------------------
IngressInit ==
    /\ conf \in Confs
    /\ cli \in (IF conf.rules = <<>> THEN CLIs ELSE {CHOOSE c \in CLIs : TRUE})
    /\ phase = "start"
    /\ ing = <<>> /\ local = <<>> /\ asked = <<>>

(* ParseIngressFromConfigAndCLI: the command line counts only when the     *)
(* file has no rules.                                                      *)
ParseConfig ==
    LET defaults == OriginRequestFromConfig(conf.global) IN
    /\ phase = "start"
    /\ conf.rules # <<>>
    /\ IF ValidIngress(conf.rules, defaults)
       THEN phase' = "serving" /\ ing' = ValidateIngress(conf.rules, defaults)
       ELSE phase' = "rejected" /\ UNCHANGED ing
    /\ UNCHANGED <<conf, cli, local, asked>>

ParseCLI ==
    /\ phase = "start"
    /\ conf.rules = <<>>
    /\ IF SingleOriginFails(cli)
       THEN phase' = "rejected" /\ UNCHANGED ing
       ELSE phase' = "serving" /\ ing' = ParseCLIIngress(cli)
    /\ UNCHANGED <<conf, cli, local, asked>>

ProxyHTTP ==
    /\ phase \in {"serving", "remote"}
    /\ \E req \in Asks : asked' = <<[req |-> req, rule |-> FindMatchingRule(req)]>>
    /\ UNCHANGED <<conf, cli, phase, ing, local>>

(* The rules are sent to the edge with every setting moved into the rules, *)
(* and come back as the first remote configuration.                        *)
ConvertToUnvalidatedIngressRules ==
    [i \in DOMAIN ing |->
        [hostname |-> ing[i].hostname, port |-> FALSE, path |-> ing[i].path,
         service |-> String(ing[i].service),
         originRequest |-> ConvertToRawOriginConfig(ing[i].config)]]

Unmarshals(rules) ==
    \A i \in DOMAIN rules :
        LET t == rules[i].originRequest.connectTimeout
        IN  t # <<>> => ReadsBack(t[1])

MigrateToRemote ==
    LET rules == ConvertToUnvalidatedIngressRules
        defaults == OriginRequestFromConfig(NothingSet)
    IN  /\ phase = "serving"
        /\ local' = ing
        /\ asked' = <<>>
        /\ IF Unmarshals(rules) /\ ValidIngress(rules, defaults)
           THEN phase' = "remote" /\ ing' = ValidateIngress(rules, defaults)
           ELSE phase' = "refused" /\ UNCHANGED ing
        /\ UNCHANGED <<conf, cli>>

IngressNext == ParseConfig \/ ParseCLI \/ ProxyHTTP \/ MigrateToRemote

IngressSpec == IngressInit /\ [][IngressNext]_ingressVars
----------------------------------------------------------------------------
(* What a user means by a hostname pattern: everything, the name itself    *)
(* written in any case or script, or any proper subdomain of the domain    *)
(* behind "*.".                                                            *)
Means(pattern, host) ==
    \/ pattern \in {<<>>, <<"*">>}
    \/ pattern = host
    \/ /\ \A i \in DOMAIN pattern : ~HasWildcard(pattern[i])
       /\ [i \in DOMAIN pattern |-> Lower[pattern[i]]] = host
    \/ /\ Len(pattern) > 1 /\ pattern[1] = "*"
       /\ \E n \in 1 .. Len(host) - 1 :
             Tail(pattern) = SubSeq(host, n + 1, Len(host))

Meant(i, req) == /\ Means(ing[i].hostname, req.host)
                 /\ ing[i].path = "" \/ req.path \in RegexpMatch[ing[i].path]

(* FindMatchingRule answers with the management rule for its hostname and  *)
(* else with the first rule whose hostname and path cover the request;     *)
(* since validateIngress requires the last rule, and no other, to be a     *)
(* catch-all, the answer of last resort never is a rule that does not      *)
(* match.                                                                  *)
FirstMeantRule ==
    asked # <<>> =>
        LET req == asked[1].req
            i == asked[1].rule
        IN  IF Means(ManagementHost, req.host) THEN i = -1
            ELSE /\ i \in DOMAIN ing
                 /\ Meant(i, req)
                 /\ \A k \in 1 .. i - 1 : ~Meant(k, req)

(* A configuration sent to the edge (GetConfigJSON) and handed back as a   *)
(* remote one, when the edge's copy is accepted, routes every request to   *)
(* the same service with the same settings and behind the same checks:     *)
(* leaving out what equals a default (ConvertToRawOriginConfig) and        *)
(* folding the global settings into the rules loses no JWT validator and   *)
(* no ip rule of a socks proxy.  What can be added is only what the        *)
(* global settings ask for: validateIngress builds the validator and the   *)
(* policy from the rule alone, so a rule that says nothing of its own is   *)
(* served without the global access, and a socks proxy without the global  *)
(* ipRules (it denies everything), until the migration writes them into    *)
(* the rule.  (bastionMode is not read once the service is chosen.)        *)
SameChecks(r, s) ==
    /\ s.handlers = IF r.handlers = <<>> /\ r.config.access.required
                    THEN <<r.config.access>> ELSE r.handlers
    /\ s.service.policy = IF r.service.kind = "socks" /\ r.service.policy = <<>>
                          THEN r.config.ipRules ELSE r.service.policy

SameOrigin(r, s) ==
    /\ r.hostname = s.hostname /\ r.path = s.path
    /\ r.service.kind = s.service.kind /\ r.service.dest = s.service.dest
    /\ [r.config EXCEPT !.bastionMode = FALSE, !.access = NoAccess] =
       [s.config EXCEPT !.bastionMode = FALSE, !.access = NoAccess]
    /\ r.config.access.required = s.config.access.required
    /\ r.config.access.required => r.config.access = s.config.access
    /\ SameChecks(r, s)

MigrationKeepsOrigins ==
    phase = "remote" =>
        /\ Len(ing) = Len(local)
        /\ \A i \in DOMAIN ing : SameOrigin(local[i], ing[i])
=============================================================================
