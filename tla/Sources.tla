------------------------------ MODULE Sources ------------------------------
(***************************************************************************)
(* controller/svc/svc.go and controller/ingress/ingress.go: what the two   *)
(* callbacks make of the events about Services and Ingresses.              *)
(*                                                                         *)
(* One event is one step here.  What can happen between a callback's calls *)
(* of the API server, and to the ConfigMaps by others, is in               *)
(* TunnelConfigMaps.                                                       *)
(***************************************************************************)
EXTENDS Mapping

CONSTANTS
    Sources,     \* Services and Ingresses: records of a kind, ns and name
    Page,        \* the page of each source in the book of rules
    Menus,       \* bound: in each, the objects users make of each source
    ConfigMaps,  \* the ConfigMaps of the tunnels whose names Kubernetes allows
    None         \* no annotation, no rules, no object

VARIABLES
    menu,        \* which of Menus users choose from
    rules,       \* Data: what each ConfigMap has under each key, or None
    event        \* the latest event: its source, and the object or None

vars == <<menu, rules, event>>

Offers == [s \in Sources |-> UNION {Menus[m][s] : m \in DOMAIN Menus}]

KeyOf(s) == cmKey(s.kind, s.ns, s.name)
Keys     == {KeyOf(s) : s \in Sources}

(* The rules as their authors see them: by pages.                          *)
Owner(p) == CHOOSE s \in Sources : Page[s] = p
Book == [p \in {Page[s] : s \in Sources} |-> [c \in ConfigMaps |-> rules[c][KeyOf(Owner(p))]]]

RB == INSTANCE RuleBook WITH book <- Book

(* Kubernetes sees to it that the ports of a Service have different names, *)
(* or a single one has none.                                               *)
ASSUME PortsAssumption ==
    \A m \in DOMAIN Menus, s \in Sources : s.kind = "service" =>
        \A o \in Menus[m][s] : \A i, j \in DOMAIN o.ports :
            o.ports[i].name = o.ports[j].name => i = j

(* The annotation tunnel-name has at least one part, and nobody sets the   *)
(* namespace of tunnels that are named without one (by default "default",  *)
(* config.go:39) to nothing.                                               *)
ASSUME TunnelAssumption ==
    /\ \A m \in DOMAIN Menus, s \in Sources : \A o \in Menus[m][s] :
          o.tunnel # None => o.tunnel \in Seq(STRING) /\ Len(o.tunnel) >= 1
    /\ DefaultNs # ""

(* What kinds, namespaces and names are made of.                           *)
Words == UNION {{s.kind} \cup Range(s.ns) \cup Range(s.name) : s \in Sources}

ASSUME SourcesAssumption ==
    \A s \in Sources : s.ns \in Seq(Words) /\ s.name \in Seq(Words)

(* Two sources have one page if they are of one kind and their namespaces  *)
(* and names look the same once dashes do not count.                       *)
ASSUME PageAssumption ==
    \A s, t \in Sources :
        Page[s] = Page[t] <=> s.kind = t.kind /\ s.ns \o s.name = t.ns \o t.name

Init == /\ menu \in DOMAIN Menus
        /\ rules = [c \in ConfigMaps |-> [k \in Keys |-> None]]
        /\ event = None

(* The annotation tunnel-mapping, as the parsers get it.                   *)
Text(annotation) == [k \in DOMAIN annotation |-> RB!Written(annotation[k])]

(* The endpoint of a rule: a schema that does not verify is https.         *)
OriginRule(hostname, path, schema, at, port, header) ==
    [hostname |-> hostname, path |-> path, at |-> at, port |-> port,
     schema |-> IF schema = NoTLS THEN Https ELSE schema,
     noTLSVerify |-> schema = NoTLS, hostHeader |-> header]

HostText(w) == IF w = "" THEN <<>> ELSE <<w>>

(* Other sources' keys, and this one's in other ConfigMaps, stay.  A       *)
(* ConfigMap whose name Kubernetes refuses, as one that begins with a      *)
(* dash, cannot be written; the error is only logged.                      *)
UpsertConfigMap(s, tunnel, list) ==
    LET c == K8SConfigMapName(TunnelParam(tunnel))
    IN  rules' = IF c \in ConfigMaps THEN [rules EXCEPT ![c][KeyOf(s)] = list] ELSE rules

RemoveConfigMap(s) ==
    rules' = [c \in ConfigMaps |-> [rules[c] EXCEPT ![KeyOf(s)] = None]]
-----------------------------------------------------------------------------
(***************************************************************************)
(* Services.                                                               *)
(***************************************************************************)
(* The first of the ports that are for https, else the first of all.       *)
prefereHttps(ports, https) ==
    LET Mapping(p, schema) == [portName |-> HostText(p.name), path |-> Root,
                               order |-> 0, schema |-> schema]
    IN  CASE ports = <<>>  -> <<>>
          [] https # <<>>  -> <<Mapping(https[1], Https)>>
          [] OTHER         -> <<Mapping(ports[1], Http)>>

(* By the port's name, else by the name of its target, else by its number. *)
mappingFromPorts(ports) ==
    LET ByName   == SelectSeq(ports, LAMBDA p : p.name \in {"http", "https"})
        others   == SelectSeq(ports, LAMBDA p : p.name \notin {"http", "https"})
        ByString == SelectSeq(others, LAMBDA p : p.target \in {"http", "https"})
        ByInt    == SelectSeq(others, LAMBDA p : p.target \in {"80", "443"})
    IN  CASE ByName # <<>> ->
               prefereHttps(ByName, SelectSeq(ByName, LAMBDA p : p.name = "https"))
          [] ByName = <<>> /\ ByString # <<>> ->
               prefereHttps(ByString, SelectSeq(ByString, LAMBDA p : p.target = "https"))
          [] OTHER ->
               prefereHttps(ByInt, SelectSeq(ByInt, LAMBDA p : p.target = "443"))

(* The loop over the ports and the entries for each, put back in the order *)
(* of the annotation.                                                      *)
SvcConfig(s, o) ==
    LET annoted == IF o.mapping = None THEN <<>> ELSE ParseSvcMapping(Text(o.mapping))
        mapping == IF annoted = <<>> THEN mappingFromPorts(o.ports) ELSE annoted
        Selected(p) == IF p.tcp
                       THEN SelectSeq(mapping, LAMBDA e : e.portName = HostText(p.name))
                       ELSE <<>>
        Ordered(e, p) ==
            [order |-> e.order,
             cfci  |-> OriginRule(HostText(o.external), e.path, e.schema,
                                  s.name \o <<".">> \o s.ns, p.port, s.name)]
        all == FlattenSeq(MapSeq(o.ports, LAMBDA p :
                    MapSeq(Selected(p), LAMBDA e : Ordered(e, p))))
    IN  MapSeq(SortSeq(all, LAMBDA a, b : a.order < b.order), LAMBDA m : m.cfci)

(* Variant: the rules are taken out when there are none any more.          *)
updateConfigMap_Empties(s, o) ==
    CASE o.external = None -> RemoveConfigMap(s)
      [] ~TunnelParamOk(o.tunnel) -> UNCHANGED rules
      [] OTHER -> UpsertConfigMap(s, o.tunnel, SvcConfig(s, o))

(* A Service that has no rules (any more) keeps those that it had.         *)
updateConfigMap(s, o) ==
    \/ /\ o.external = None
       /\ RemoveConfigMap(s)
    \/ /\ o.external # None
       /\ ~TunnelParamOk(o.tunnel) \/ SvcConfig(s, o) = <<>>
       /\ UNCHANGED rules
    \/ /\ o.external # None /\ TunnelParamOk(o.tunnel) /\ SvcConfig(s, o) # <<>>
       /\ UpsertConfigMap(s, o.tunnel, SvcConfig(s, o))
-----------------------------------------------------------------------------
(***************************************************************************)
(* Ingresses.                                                              *)
(***************************************************************************)
HttpRules(o) == SelectSeq(o.rules, LAMBDA r : r.http)

(* The first entry for the path, or the default.                           *)
findClassMapping(mapping, rule, path) ==
    LET mine == SelectSeq(mapping, LAMBDA m :
                    m.hostname = HostText(rule.host) /\ m.path = path.path)
    IN  IF mine # <<>> THEN mine[1]
        ELSE [hostname |-> HostText(rule.host), schema |-> Http,
              hostHeader |-> HostText(rule.host), path |-> path.path]

(* A backend's port has to be a number.                                    *)
ClassConfig(s, o) ==
    LET mapping == IF o.mapping = None THEN <<>>
                   ELSE ParseClassIngressMapping(Text(o.mapping))
        Origin(r, p) ==
            LET amap == findClassMapping(mapping, r, p)
            IN  OriginRule(HostText(r.host), p.path, amap.schema,
                           p.service \o <<".">> \o s.ns, p.number,
                           IF amap.hostHeader # <<>> THEN amap.hostHeader
                                                     ELSE HostText(r.host))
        OfRule(r) == MapSeq(SelectSeq(r.paths, LAMBDA p : 0 < p.number /\ p.number < 65536),
                            LAMBDA p : Origin(r, p))
    IN  FlattenSeq(MapSeq(HttpRules(o), OfRule))

(* The tunnel is looked up for each rule for HTTP: with none, or without a *)
(* usable name, there is no tunnel to write to.                            *)
classIngress(s, o) ==
    IF HttpRules(o) # <<>> /\ TunnelParamOk(o.tunnel)
    THEN UpsertConfigMap(s, o.tunnel, ClassConfig(s, o))
    ELSE UNCHANGED rules

(* The entries for the path (the code takes the first), with TLS if the    *)
(* ingress has it for the host.                                            *)
findStackMapping(mapping, o, rule, path) ==
    LET Upgraded(m) ==
            IF rule.host \notin o.tls THEN m
            ELSE [m EXCEPT !.schema = IF @ = Http THEN Https ELSE @,
                           !.internPort = IF @ = 80 THEN 443 ELSE @]
    IN  MapSeq(SelectSeq(mapping, LAMBDA m :
                    m.hostname = HostText(rule.host) /\ m.path = path.path), Upgraded)

StackConfig(s, o) ==
    LET mapping == IF o.mapping = None THEN <<>>
                   ELSE ParseStackIngressMapping(Text(o.mapping))
        Origin(r, p) ==
            LET amap == findStackMapping(mapping, o, r, p)[1]
            IN  OriginRule(amap.extHostName, p.path, amap.schema, HostText(r.host),
                           amap.internPort,
                           IF amap.hostHeader # <<>> THEN amap.hostHeader
                                                     ELSE HostText(r.host))
        Mapped(r) == SelectSeq(r.paths, LAMBDA p : findStackMapping(mapping, o, r, p) # <<>>)
    IN  FlattenSeq(MapSeq(HttpRules(o), LAMBDA r : MapSeq(Mapped(r), LAMBDA p : Origin(r, p))))

(* The tunnel is looked up before the rule is seen to be for HTTP or not.  *)
stackedIngress(s, o) ==
    IF o.rules # <<>> /\ TunnelParamOk(o.tunnel)
    THEN UpsertConfigMap(s, o.tunnel, StackConfig(s, o))
    ELSE UNCHANGED rules

processEvent(s, o) == IF o.class THEN classIngress(s, o) ELSE stackedIngress(s, o)
-----------------------------------------------------------------------------
(***************************************************************************)
(* The callbacks.  Whatever has no tunnel-name has no rules.               *)
(***************************************************************************)
Seen(s, o) == event' = [source |-> s, object |-> o] /\ UNCHANGED menu

ServiceEvent(s, o) ==
    /\ s.kind = "service"
    /\ Seen(s, o)
    /\ IF o.tunnel = None THEN RemoveConfigMap(s) ELSE updateConfigMap(s, o)

IngressEvent(s, o) ==
    /\ s.kind = "ingress"
    /\ Seen(s, o)
    /\ IF o.tunnel = None THEN RemoveConfigMap(s) ELSE processEvent(s, o)

DeletedEvent(s) == Seen(s, None) /\ RemoveConfigMap(s)

Next == \E s \in Sources :
            \/ DeletedEvent(s)
            \/ \E o \in Menus[menu][s] : ServiceEvent(s, o) \/ IngressEvent(s, o)

Spec == Init /\ [][Next]_vars
-----------------------------------------------------------------------------
IsRule(r) == /\ r.port \in 1 .. 65535
             /\ r.schema \in {Http, Https}
             /\ r.noTLSVerify \in BOOLEAN

TypeOK ==
    /\ menu \in DOMAIN Menus
    /\ \A c \in ConfigMaps, k \in Keys :
          rules[c][k] # None => \A i \in DOMAIN rules[c][k] : IsRule(rules[c][k][i])
    /\ event # None => event.source \in Sources

(* Each event about a Service or an Ingress does to the ConfigMaps what    *)
(* its author means: the rules it declares, in the order of the            *)
(* annotation, go into the ConfigMap of its tunnel under a key that        *)
(* belongs to it, and nothing else of any source changes (RuleBook).       *)
ImplementsRuleBook == RB!Spec

(* What RuleBook!Declared says of the objects that users make is what the  *)
(* callbacks compute for them.                                             *)
ListsAreDeclared ==
    \A m \in DOMAIN Menus, s \in Sources : \A o \in Menus[m][s] :
        o.tunnel # None =>
            /\ s.kind = "service" /\ o.external # None => SvcConfig(s, o) = RB!SvcRules(s, o)
            /\ s.kind = "ingress" => IF o.class THEN ClassConfig(s, o) = RB!ClassRules(s, o)
                                                ELSE StackConfig(s, o) = RB!StackRules(s, o)
=============================================================================
