----------------------------- MODULE MCSources -----------------------------
(***************************************************************************)
(* A small instance of Sources for TLC: a Service and an Ingress of one    *)
(* name, two Services whose keys coincide (a-b/c and a/b-c), three tunnels *)
(* in two ConfigMaps, and in turn many forms of the Service (web) or of    *)
(* the Ingress (ing).                                                      *)
(***************************************************************************)
EXTENDS Sources, FiniteSets

MCNumber == [w \in {"0", "80", "443", "8080", "32767", "32768"} |->
                CASE w = "0"    -> 0    [] w = "80"    -> 80    [] w = "443"   -> 443
                  [] w = "8080" -> 8080 [] w = "32767" -> 32767 [] w = "32768" -> 32768]

MCRuns == [t \in {"t.one", "t-one", "two", " two", ""} |->
                CASE t \in {"t.one", "t-one"} -> <<"t", "one">>
                  [] t = "two"  -> <<"two">>
                  [] t = " two" -> <<"", "two">>
                  [] OTHER -> <<"">>]

web   == [kind |-> "service", ns |-> <<"a">>, name |-> <<"b">>]
ing   == [kind |-> "ingress", ns |-> <<"a">>, name |-> <<"b">>]
left  == [kind |-> "service", ns |-> <<"a", "b">>, name |-> <<"c">>]
right == [kind |-> "service", ns |-> <<"a">>, name |-> <<"b", "c">>]

MCSources    == {web, ing, left, right}
MCPage       == [s \in MCSources |-> IF s = web THEN 1 ELSE IF s = ing THEN 2 ELSE 3]
MCConfigMaps == {<<"cfd", <<"t", "one">>>>, <<"ns", <<"two">>>>}

(* The sequences of at most n elements of S.                               *)
UpTo(n, S) == UNION {[1 .. k -> S] : k \in 0 .. n}
-----------------------------------------------------------------------------
(***************************************************************************)
(* Objects.                                                                *)
(***************************************************************************)
Entry(parts)            == [parts |-> parts, mark |-> "", path |-> <<>>]
EntryPath(parts, m, p)  == [parts |-> parts, mark |-> m, path |-> p]

Port(name, tcp, target, port) ==
    [name |-> name, tcp |-> tcp, target |-> target, port |-> port]

Ports == {Port("http", TRUE, "8080", 80), Port("https", TRUE, "8080", 443),
          Port("https", FALSE, "8080", 444), Port("web", TRUE, "https", 81),
          Port("api", TRUE, "http", 82), Port("tls", TRUE, "443", 83),
          Port("plain", TRUE, "80", 84), Port("quic", FALSE, "443", 85),
          Port("other", TRUE, "8080", 86)}

PortLists ==
    {q \in UpTo(2, Ports) : \A i, j \in DOMAIN q : q[i].name = q[j].name => i = j}
        \cup {<<Port("", TRUE, "80", 80)>>}

Service(tunnel, external, mapping, ports) ==
    [tunnel |-> tunnel, external |-> external, mapping |-> mapping, ports |-> ports]

TwoPorts == <<Port("http", TRUE, "8080", 80), Port("https", TRUE, "8080", 443),
              Port("quic", FALSE, "443", 85)>>
SvcEntries == {EntryPath(<<"https", "https-notlsverify">>, "/", <<>>),
               EntryPath(<<"http", "http">>, "/", <<"/", "doof">>),
               EntryPath(<<"http", "">>, "|", <<"^", "/", "x">>),
               Entry(<<"http", "ftp">>), Entry(<<"">>), Entry(<<"quic", "https">>)}

Plain(tunnel) == Service(tunnel, "ext", None, TwoPorts)

Tunnels == {<<"t.one">>, <<"t-one">>, <<"ns", "two">>, <<"ns", "two", "x">>, <<" two">>,
            <<"">>, <<"ns", "">>, <<"", "two">>, None}

PortServices == {Service(<<"t.one">>, "ext", None, q) : q \in PortLists}
MappedServices ==
    {Service(<<"t.one">>, "ext", m, TwoPorts) : m \in UpTo(2, SvcEntries)}
        \cup {Plain(t) : t \in Tunnels}
        \cup {Service(<<"t.one">>, None, None, TwoPorts)}

Path(p, number) == [path |-> p, service |-> <<"b">>, number |-> number]
WebRule(host, http) ==
    [host |-> host, http |-> http,
     paths |-> IF http THEN <<Path(<<"/">>, 80), Path(<<"/", "c">>, 65535),
                              Path(<<"/", "d">>, 0)>> ELSE <<>>]

Ingress(class, tunnel, mapping, rs, tls) ==
    [class |-> class, tunnel |-> tunnel, mapping |-> mapping, rules |-> rs, tls |-> tls]

Hosts == <<WebRule("h1", TRUE), WebRule("h2", TRUE)>>
RuleLists == {<<>>, <<WebRule("h1", FALSE)>>, <<WebRule("h1", FALSE), WebRule("h2", TRUE)>>}

Ingresses(class, entries) ==
    {Ingress(class, <<"t.one">>, m, Hosts, {"h1"}) : m \in UpTo(2, entries)}
        \cup {Ingress(class, <<"t.one">>, <<e>>, Hosts, {}) : e \in entries}
        \cup {Ingress(class, t, None, Hosts, {}) : t \in Tunnels}
        \cup {Ingress(class, <<"t.one">>, None, rs, {}) : rs \in RuleLists}

ClassEntries == {Entry(<<"h1">>), Entry(<<"h1", "ftp">>),
                 Entry(<<"h1", "https-notlsverify", "hh">>),
                 EntryPath(<<"h1", "", "hh">>, "|", <<"/", "c">>),
                 EntryPath(<<"h2", "https">>, "|", <<"/">>)}
StackEntries == {Entry(<<"", "h1", "", "", "ext">>),
                 Entry(<<"http", "h1", "8080", "hh", "ext">>),
                 Entry(<<"http", "h1", "0", "", "ext">>),
                 Entry(<<"http", "h1", "32768", "", "ext">>),
                 EntryPath(<<"https-notlsverify", "h1", "80", "", "ext">>, "|", <<"/", "c">>),
                 Entry(<<"https", "h2", "32767", "hh", "ext">>)}

SomeSvc == {Plain(<<"t-one">>)}
SomeIng == {Ingress(TRUE, <<"t-one">>, None, Hosts, {})}

Menu(ofWeb, ofIng) ==
    [s \in MCSources |-> CASE s = web -> ofWeb [] s = ing -> ofIng [] OTHER -> SomeSvc]

MCMenus == <<Menu(PortServices, SomeIng),
             Menu(MappedServices, SomeIng),
             Menu(SomeSvc, Ingresses(TRUE, ClassEntries)),
             Menu(SomeSvc, Ingresses(FALSE, StackEntries))>>
-----------------------------------------------------------------------------
(***************************************************************************)
(* The parsers, over all entries of bounded parts and paths.               *)
(***************************************************************************)
Paths   == UpTo(3, {"/", "|", "w"})
ShortPaths == UpTo(1, {"/", "|", "w"})
Names   == {"", "h"}
Schemas == {"", "http", "https-notlsverify", "ftp"}
Tails(P) == [mark : {""}, path : {<<>>}] \cup [mark : {"|"}, path : P]

WithTails(S, T) ==
    {[parts |-> p, mark |-> t.mark, path |-> t.path] : p \in S, t \in T}

SvcForms ==
    WithTails({<<n>> : n \in Names}, Tails({}))
        \cup WithTails({<<n, s>> : n \in Names, s \in Schemas},
                       Tails(Paths) \cup [mark : {"/"}, path : Paths])
ClassForms ==
    WithTails({SubSeq(<<n, s, h>>, 1, k) : n, h \in Names, s \in Schemas, k \in 1 .. 3},
              Tails(Paths))
StackForms ==
    WithTails({SubSeq(<<s, n, p, h, x>>, 1, k) :
                    s \in Schemas, n, h, x \in Names, k \in 1 .. 5,
                    p \in DOMAIN MCNumber \cup {"", "x"}},
              Tails(ShortPaths))

(* An entry alone, and after one that may be left out.                     *)
Reads(Parsed(_), Forms, Sound(_), Meaning(_)) ==
    \A f \in Forms :
        /\ Parsed(Text(<<f>>)) = RB!Meant(<<f>>, Sound, Meaning)
        /\ LET two == <<Entry(<<"">>), f>>
           IN  Parsed(Text(two)) = RB!Meant(two, Sound, Meaning)

SvcParsed(a) ==
    LET ms == ParseSvcMapping(a)
    IN  [k \in DOMAIN ms |-> [portName |-> ms[k].portName, schema |-> ms[k].schema,
                              path |-> ms[k].path]]

(* The three parsers agree on every entry, with paths that contain both    *)
(* separators, missing and superfluous slashes, empty parts and ports at   *)
(* the limits, with what the entry means, and the lists of rules that come *)
(* of them for the objects of the menus are the declared ones.  (No state  *)
(* changes that: it is looked at before the first event.)                  *)
ParsersReadTheForm ==
    event = None =>
    /\ ListsAreDeclared
    /\ Reads(SvcParsed, SvcForms, RB!SvcSound, RB!SvcMeaning)
    /\ Reads(ParseClassIngressMapping, ClassForms, RB!ClassSound, RB!ClassMeaning)
    /\ Reads(ParseStackIngressMapping, StackForms, RB!StackSound, RB!StackMeaning)
-----------------------------------------------------------------------------
(***************************************************************************)
(* The Ingresses that the repository shows: the sample of README.md:79-118 *)
(* and the one of controller/ingress/ingress_class_test.go:19-99.          *)
(***************************************************************************)
sample == [kind |-> "ingress", ns |-> <<"default">>, name |-> <<"home", "assistant">>]
tested == [kind |-> "ingress", ns |-> <<"what">>, name |-> <<"what", "tech">>]

ShownRuns == [t \in {"cloudflare-website.domain", "what.tech"} |->
                 IF t = "what.tech" THEN <<"what", "tech">>
                                    ELSE <<"cloudflare", "website", "domain">>]

Backend(p, service, number) == [path |-> p, service |-> <<service>>, number |-> number]
HttpRule(host, paths) == [host |-> host, http |-> TRUE, paths |-> paths]

SampleIngress ==
    LET host == "hass-io-wl.internal.domain"
    IN  Ingress(FALSE, <<"cloudflare-website.domain">>, None,
                <<HttpRule(host, <<Backend(<<"/">>, "home-assistant", 8123)>>)>>, {host})

TestedIngress ==
    Ingress(TRUE, None, None,
            <<HttpRule("xxx.what.tech",
                       <<Backend(<<"/", "wurst">>, "svc-wurst-xxx-what-tech", 4711),
                         Backend(<<"/">>, "svc-471-xxx-what-tech", 471)>>),
              HttpRule("yyy.what.tech",
                       <<Backend(<<"/">>, "svc-yyy-wurst-what-tech", 499)>>)>>,
            {"yyy.what.tech"})

ShownSources    == {sample, tested}
ShownPage       == [s \in ShownSources |-> IF s = sample THEN 1 ELSE 2]
ShownMenus      == <<[s \in ShownSources |-> IF s = sample THEN {SampleIngress}
                                                         ELSE {TestedIngress}]>>
ShownConfigMaps == {<<"cfd", <<"cloudflare", "website", "domain">>>>,
                    <<"what", <<"what", "tech">>>>}

Listed(s) == \E c \in ShownConfigMaps : rules[c][KeyOf(s)] # None
Served(s) == \E c \in ShownConfigMaps : rules[c][KeyOf(s)] \notin {None, <<>>}

(* Once the controller has written down the sample of the README, and then *)
(* sees the Ingress that the test expects to have three rules, at least    *)
(* one of the two has some rule that cloudflared can serve.                *)
OneShownIngressIsServed ==
    /\ Listed(sample)
    /\ event = [source |-> tested, object |-> TestedIngress]
    => \E s \in ShownSources : Served(s)
=============================================================================
