------------------------------ MODULE Mapping ------------------------------
(***************************************************************************)
(* utils/parse-mapping.go and the naming functions: what the controller    *)
(* reads from the annotations of a Service or an Ingress.                  *)
(*                                                                         *)
(* A text is a sequence of tokens: "/", "|", and words between them.  An   *)
(* annotation is the sequence of its entries, which the code gets by       *)
(* splitting at "," and trimming; an empty annotation has one empty entry. *)
(***************************************************************************)
EXTENDS Integers, Sequences, SequencesExt

CONSTANTS
    Number,     \* the value of every word that is a decimal number
    Runs,       \* the alphanumeric runs of every name, with empty ones at its ends
    DefaultNs   \* Cfg().CloudFlare.TunnelConfigMapNamespace

ASSUME NumberAssumption == \A w \in DOMAIN Number : Number[w] \in Int

Http  == <<"http">>
Https == <<"https">>
NoTLS == <<"https-notlsverify">>
Root  == <<"/">>

validSchema == {Http, Https, NoTLS}

MapSeq(q, F(_)) == [k \in DOMAIN q |-> F(q[k])]

(* strings.SplitN(t, c, 2): what is before the first c, and what is after. *)
Halves(t, c) ==
    LET Cut(place) ==
            IF place = 0 THEN <<t>>
            ELSE <<SubSeq(t, 1, place - 1), SubSeq(t, place + 1, Len(t))>>
    IN  Cut(SelectInSeq(t, LAMBDA w : w = c))

(* strings.SplitN: the last piece is split as long as there are too few.   *)
SplitN(t, c, n) ==
    LET Again(pieces)     == Front(pieces) \o Halves(Last(pieces), c)
        Split[k \in 1 .. n] == IF k = 1 THEN <<t>> ELSE Again(Split[k - 1])
    IN  Split[n]

(* The i-th piece, or a default if it is missing or empty.                 *)
Piece(p, i, default) == IF i \in DOMAIN p /\ p[i] # <<>> THEN p[i] ELSE default

(* strings.TrimLeft(t, "/").                                               *)
TrimSlashes(t) ==
    LET From(first) == IF first = 0 THEN <<>> ELSE SubSeq(t, first, Len(t))
    IN  From(SelectInSeq(t, LAMBDA w : w # "/"))
-----------------------------------------------------------------------------
(***************************************************************************)
(* Services: name/schema/path, or name/schema|path for a path that is      *)
(* taken as it is.  Whichever of "/" and "|" comes first after the name    *)
(* ends the schema.  (The code has 0x8000 for the place of one that is not *)
(* there; entries are shorter than that.)                                  *)
(***************************************************************************)
(* Variant: "|" is looked for before "/".                                  *)
SchemaEnd_PipeFirst(rest) ==
    LET pipe == SelectInSeq(rest, LAMBDA w : w = "|")
    IN  IF pipe # 0 THEN pipe ELSE SelectInSeq(rest, LAMBDA w : w = "/")

SchemaEnd(rest) == SelectInSeq(rest, LAMBDA w : w \in {"/", "|"})

SvcPieces(entry) ==
    LET After(rest, end) == SubSeq(rest, end + 1, Len(rest))
        Cut(name, rest, end) ==
            [name   |-> name,
             schema |-> IF end = 0 THEN rest ELSE SubSeq(rest, 1, end - 1),
             path   |-> CASE end = 0 -> Root
                          [] end # 0 /\ rest[end] = "|" -> After(rest, end)
                          [] OTHER -> Root \o TrimSlashes(After(rest, end))]
        AtSchema(name, rest) == Cut(name, rest, SchemaEnd(rest))
        Named(parts) == AtSchema(parts[1], Piece(parts, 2, <<>>))
    IN  Named(Halves(entry, "/"))

SvcOk(p) == p.name # <<>> /\ p.schema \in validSchema \cup {<<>>}

SvcMapping(p, order) ==
    [portName |-> p.name, path |-> p.path, order |-> order,
     schema |-> IF p.schema = <<>> THEN Http ELSE p.schema]

(* Entries without a name, or with a schema of another kind, are left out. *)
ParseSvcMapping(annotation) ==
    LET Mappings(kept) == [i \in DOMAIN kept |-> SvcMapping(kept[i], i - 1)]
    IN  Mappings(SelectSeq(MapSeq(annotation, SvcPieces), SvcOk))
-----------------------------------------------------------------------------
(***************************************************************************)
(* Ingresses of the class "cloudflared":                                   *)
(*     hostname/schema[/hostheader]|path                                   *)
(* and of any other class:                                                 *)
(*     schema/hostname/int-port/hostheader/ext-host|path                   *)
(* A hostHeader that is not given is the empty text here.                  *)
(***************************************************************************)
(* The parts of the first half, and the path.                              *)
Pieces(entry, n) ==
    LET Halved(halves) ==
            [parts |-> SplitN(halves[1], "/", n),
             path  |-> IF Len(halves) = 2 THEN halves[2] ELSE Root]
    IN  Halved(Halves(entry, "|"))

ClassOk(e) == e.parts[1] # <<>> /\ Piece(e.parts, 2, Http) \in validSchema

ClassMapping(e) ==
    [hostname |-> e.parts[1], schema |-> Piece(e.parts, 2, Http),
     hostHeader |-> Piece(e.parts, 3, <<>>), path |-> e.path]

ParseClassIngressMapping(annotation) ==
    LET pieces == MapSeq(annotation, LAMBDA entry : Pieces(entry, 3))
    IN  MapSeq(SelectSeq(pieces, ClassOk), ClassMapping)

(* strconv.ParseInt(t, 10, 16): a signed number of 16 bits, or an error,   *)
(* and the guard on its result.                                            *)
PortOk(t) ==
    /\ Len(t) = 1 /\ t[1] \in DOMAIN Number
    /\ Number[t[1]] \in -(2 ^ 15) .. (2 ^ 15) - 1
    /\ 0 < Number[t[1]] /\ Number[t[1]] < 65536

(* Variant: the port may be missing its test.                              *)
StackOk_AnyPort(e) ==
    /\ Piece(e.parts, 1, Http) \in validSchema
    /\ Len(e.parts) = 5 /\ e.parts[2] # <<>> /\ e.parts[5] # <<>>

StackOk(e) ==
    /\ Piece(e.parts, 1, Http) \in validSchema
    /\ Len(e.parts) = 5 /\ e.parts[2] # <<>> /\ e.parts[5] # <<>>
    /\ e.parts[3] # <<>> => PortOk(e.parts[3])

StackMapping(e) ==
    LET PortOf(t) == IF t = <<>> THEN 80 ELSE Number[t[1]]
    IN  [schema |-> Piece(e.parts, 1, Http), hostname |-> e.parts[2],
         internPort |-> PortOf(e.parts[3]), hostHeader |-> Piece(e.parts, 4, <<>>),
         extHostName |-> e.parts[5], path |-> e.path]

ParseStackIngressMapping(annotation) ==
    LET pieces == MapSeq(annotation, LAMBDA entry : Pieces(entry, 5))
    IN  MapSeq(SelectSeq(pieces, StackOk), StackMapping)
-----------------------------------------------------------------------------
(***************************************************************************)
(* Names.  Kubernetes names are sequences of the runs between the dashes.  *)
(***************************************************************************)
(* Variant: the kind is left out.                                          *)
cmKey_NoKind(kind, ns, name) == ns \o name

(* The key of a source in the Data of a ConfigMap: whatever is not a       *)
(* letter, a digit, "_" or "." becomes one "_", the dashes as well.        *)
cmKey(kind, ns, name) == <<kind>> \o ns \o name

(* GetConfigMapTunnelParam, of an annotation split at "/".  (Its hints are *)
(* for objects without the annotation, which do not get here.)  A single   *)
(* part is the annotation as it stands, with the spaces around it; the     *)
(* first of several and the last have lost theirs.                         *)
TunnelParam(parts) ==
    IF Len(parts) >= 2 THEN [namespace |-> parts[1], name |-> parts[2]]
                       ELSE [namespace |-> DefaultNs, name |-> parts[1]]

TunnelParamOk(parts) ==
    TunnelParam(parts).namespace # "" /\ TunnelParam(parts).name # ""

(* buildK8SResourceName: each run of other characters becomes one dash.    *)
K8SConfigMapName(tparam) == <<tparam.namespace, Runs[tparam.name]>>
=============================================================================
