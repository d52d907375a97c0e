----------------------------- MODULE RuleBook ------------------------------
(***************************************************************************)
(* What the users of the controller are promised: the rules that each      *)
(* Service and Ingress declares, written down in the ConfigMap of the      *)
(* tunnel that it names.                                                   *)
(*                                                                         *)
(* Users are taken at what they mean: an annotation is a sequence of       *)
(* entries, and an entry is its parts (the words between the slashes),     *)
(* then, if mark is "|" or "/", a path.  Written gives the text that the   *)
(* controller gets to see instead.                                         *)
(***************************************************************************)
EXTENDS Integers, Sequences, SequencesExt

CONSTANTS
    Sources,     \* Services and Ingresses: records of a kind, ns and name
    Page,        \* the page of each source: those whose identities look the
                 \* same once dashes do not count have one page
    Offers,      \* what users make of each source: a set of objects
    ConfigMaps,  \* the ConfigMaps that can be stored
    Number,      \* the value of every word that is a decimal number
    Runs,        \* the alphanumeric runs of every name, with empty ones at its ends
    DefaultNs,   \* the namespace of a tunnel that is named without one
    None         \* no annotation, no rules, no object

VARIABLES
    book,        \* the rules of each page in each ConfigMap, or None
    event        \* the latest event: its source, and the object or None

vars  == <<book, event>>
Pages == {Page[s] : s \in Sources}
-----------------------------------------------------------------------------
(***************************************************************************)
(* The entries of annotations.                                             *)
(***************************************************************************)
MapSeq(q, F(_)) == [k \in DOMAIN q |-> F(q[k])]

Word(w) == IF w = "" THEN <<>> ELSE <<w>>

Field(i, k) == IF k \in DOMAIN i.parts THEN i.parts[k] ELSE ""

Written(i) ==
    FlattenSeq([k \in DOMAIN i.parts |->
                    (IF k = 1 THEN <<>> ELSE <<"/">>) \o Word(i.parts[k])])
        \o Word(i.mark) \o i.path

Schema(w) == <<IF w = "" THEN "http" ELSE w>>
Schemas   == {<<"http">>, <<"https">>, <<"https-notlsverify">>}

Unslashed(p) ==
    LET n == CHOOSE n \in 0 .. Len(p) : /\ \A k \in 1 .. n : p[k] = "/"
                                        /\ n < Len(p) => p[n + 1] # "/"
    IN  SubSeq(p, n + 1, Len(p))

VerbatimPath(i) == IF i.mark = "|" THEN i.path ELSE <<"/">>

(* name/schema/path or name/schema|path                                    *)
SvcSound(i) == Field(i, 1) # "" /\ Schema(Field(i, 2)) \in Schemas
SvcMeaning(i) ==
    [portName |-> Word(Field(i, 1)), schema |-> Schema(Field(i, 2)),
     path |-> IF i.mark = "|" THEN i.path ELSE <<"/">> \o Unslashed(i.path)]

(* hostname/schema/hostheader|path                                         *)
ClassSound(i) == Field(i, 1) # "" /\ Schema(Field(i, 2)) \in Schemas
ClassMeaning(i) ==
    [hostname |-> Word(Field(i, 1)), schema |-> Schema(Field(i, 2)),
     hostHeader |-> Word(Field(i, 3)), path |-> VerbatimPath(i)]

(* schema/hostname/int-port/hostheader/ext-host|path, with a port below    *)
(* 2^15: the code's own limit, although ports go up to 65535.              *)
IsPort(n)    == 0 < n /\ n < 2 ^ 15
PortSound(w) == w # "" => w \in DOMAIN Number /\ IsPort(Number[w])
StackSound(i) == /\ Schema(Field(i, 1)) \in Schemas
                 /\ Field(i, 2) # "" /\ Field(i, 5) # ""
                 /\ PortSound(Field(i, 3))
StackMeaning(i) ==
    [schema |-> Schema(Field(i, 1)), hostname |-> Word(Field(i, 2)),
     internPort |-> IF Field(i, 3) = "" THEN 80 ELSE Number[Field(i, 3)],
     hostHeader |-> Word(Field(i, 4)), extHostName |-> Word(Field(i, 5)),
     path |-> VerbatimPath(i)]

(* The sound entries of an annotation that may be missing.                 *)
Meant(annotation, Sound(_), Meaning(_)) ==
    IF annotation = None THEN <<>> ELSE MapSeq(SelectSeq(annotation, Sound), Meaning)
-----------------------------------------------------------------------------
(***************************************************************************)
(* The rules that an object declares.                                      *)
(***************************************************************************)
Rule(hostname, path, schema, at, port, header) ==
    [hostname |-> hostname, path |-> path, at |-> at, port |-> port,
     schema |-> IF schema = <<"https-notlsverify">> THEN <<"https">> ELSE schema,
     noTLSVerify |-> schema = <<"https-notlsverify">>, hostHeader |-> header]

(* How much a port that no annotation names looks like one of the web.     *)
Rank(p) == CASE p.name = "https"   -> 6
             [] p.name = "http"    -> 5
             [] p.target = "https" -> 4
             [] p.target = "http"  -> 3
             [] p.target = "443"   -> 2
             [] p.target = "80"    -> 1
             [] OTHER              -> 0

Preferred(ports) ==
    LET Best(k) == /\ Rank(ports[k]) # 0
                   /\ \A j \in DOMAIN ports :
                         \/ Rank(ports[j]) < Rank(ports[k])
                         \/ (Rank(ports[j]) = Rank(ports[k]) /\ j >= k)
    IN  {[portName |-> Word(ports[k].name), path |-> <<"/">>,
          schema |-> IF Rank(ports[k]) % 2 = 0 THEN <<"https">> ELSE <<"http">>] :
             k \in {k \in DOMAIN ports : Best(k)}}

(* In the order of the annotation, and for TCP only.                       *)
SvcRules(s, o) ==
    LET Serving(e) == SelectSeq(o.ports, LAMBDA p : p.tcp /\ Word(p.name) = e.portName)
        Rules(e) == MapSeq(Serving(e), LAMBDA p :
                        Rule(Word(o.external), e.path, e.schema,
                             s.name \o <<".">> \o s.ns, p.port, s.name))
        Wanted(meant) == IF meant # <<>> THEN meant ELSE SetToSeq(Preferred(o.ports))
    IN  FlattenSeq(MapSeq(Wanted(Meant(o.mapping, SvcSound, SvcMeaning)), Rules))

(* A path of an ingress is served as the first entry for it says.          *)
EntriesFor(meant, rule, path) ==
    SelectSeq(meant, LAMBDA e : e.hostname = Word(rule.host) /\ e.path = path.path)

Http(o) == SelectSeq(o.rules, LAMBDA r : r.http)

ClassRules(s, o) ==
    LET Of(p, es, host, at) ==
            IF es = <<>> THEN Rule(host, p.path, <<"http">>, at, p.number, host)
            ELSE Rule(host, p.path, es[1].schema, at, p.number,
                      IF es[1].hostHeader = <<>> THEN host ELSE es[1].hostHeader)
        Numbered(p) == p.number \in 1 .. 65535
        RuleRules(r, meant) ==
            MapSeq(SelectSeq(r.paths, Numbered),
                   LAMBDA p : Of(p, EntriesFor(meant, r, p), Word(r.host),
                                 p.service \o <<".">> \o s.ns))
        AllRules(meant) == MapSeq(Http(o), LAMBDA r : RuleRules(r, meant))
    IN  FlattenSeq(AllRules(Meant(o.mapping, ClassSound, ClassMeaning)))

(* Where the ingress has TLS for the host, so does the way to it.          *)
StackRules(s, o) ==
    LET Of(r, p, e, tls) ==
            Rule(e.extHostName, p.path,
                 IF tls /\ e.schema = <<"http">> THEN <<"https">> ELSE e.schema,
                 Word(r.host),
                 IF tls /\ e.internPort = 80 THEN 443 ELSE e.internPort,
                 IF e.hostHeader = <<>> THEN Word(r.host) ELSE e.hostHeader)
        RuleRules(r, meant) ==
            MapSeq(SelectSeq(r.paths, LAMBDA p : EntriesFor(meant, r, p) # <<>>),
                   LAMBDA p : Of(r, p, EntriesFor(meant, r, p)[1], r.host \in o.tls))
        AllRules(meant) == MapSeq(Http(o), LAMBDA r : RuleRules(r, meant))
    IN  FlattenSeq(AllRules(Meant(o.mapping, StackSound, StackMeaning)))

IsService(s) == s.kind = "service"

Declared(s, o) == CASE IsService(s) -> SvcRules(s, o)
                    [] ~IsService(s) /\ o.class -> ClassRules(s, o)
                    [] OTHER -> StackRules(s, o)
-----------------------------------------------------------------------------
(***************************************************************************)
(* The book.                                                               *)
(***************************************************************************)
(* The parts of the tunnel's name: a namespace, if there are two, and a    *)
(* name.                                                                   *)
Home(o) == IF Len(o.tunnel) = 1 THEN <<DefaultNs, Runs[o.tunnel[1]]>>
                                ELSE <<o.tunnel[1], Runs[o.tunnel[2]]>>

(* Objects that ask for no tunnel, or give no name to be found under.      *)
Unwanted(s, o) == \/ o.tunnel = None
                  \/ IsService(s) /\ o.external = None

(* Objects that leave the book as it is: no tunnel can have that name, or  *)
(* there is nothing that could have rules.  An ingress with rules of which *)
(* none can be served has its empty list written down; of a class          *)
(* "cloudflared" they have to be for HTTP.                                 *)
Silent(s, o) ==
    \/ \E k \in DOMAIN o.tunnel \cap {1, 2} : o.tunnel[k] = ""
    \/ IsService(s) /\ SvcRules(s, o) = <<>>
    \/ ~IsService(s) /\ (IF o.class THEN Http(o) ELSE o.rules) = <<>>

Init == /\ book = [p \in Pages |-> [c \in ConfigMaps |-> None]]
        /\ event = None

(* The rules are taken out wherever they are.                              *)
Strike(s) == book' = [book EXCEPT ![Page[s]] = [c \in ConfigMaps |-> None]]

Delete(s) == Strike(s)

Withdraw(s, o) == Unwanted(s, o) /\ Strike(s)

Ignore(s, o) == /\ ~Unwanted(s, o) /\ Silent(s, o)
                /\ UNCHANGED book

(* Rules that are in another ConfigMap stay there.  Where there can be no  *)
(* ConfigMap, nothing is written.                                          *)
Promise(s, o) ==
    /\ ~Unwanted(s, o) /\ ~Silent(s, o)
    /\ book' = IF Home(o) \in ConfigMaps
               THEN [book EXCEPT ![Page[s]][Home(o)] = Declared(s, o)]
               ELSE book

Happens(s, o) == event' = [source |-> s, object |-> o]

Next == \E s \in Sources :
            \/ Happens(s, None) /\ Delete(s)
            \/ \E o \in Offers[s] : /\ Happens(s, o)
                                    /\ Withdraw(s, o) \/ Ignore(s, o) \/ Promise(s, o)

Spec == Init /\ [][Next]_vars
=============================================================================
