----------------------------- MODULE Attribution -----------------------------
(***************************************************************************)
(* Where a change came from, for the audit log: the node and host that the *)
(* mesh's host records, the routes and the DHCP leases give for an         *)
(* address, and the list of local nodes made of the same records.          *)
(*                                                                         *)
(* Records are parsed: a section is its originator's address and entries   *)
(* of address and name.  The name of a node is a label that alerttarget    *)
(* takes; that of its own addresses is such a label between one of the     *)
(* prefixes lan, dtdlink, mid and xlink and the suffix of the mesh         *)
(* (name.kind); all others are of kind "other".  Names keep the spelling   *)
(* of the records, and are the same string only if they have the same one. *)
(***************************************************************************)
EXTENDS Naturals, Sequences, SequencesExt, FiniteSets

CONSTANTS
  Width,    \* bits of an address
  NoName    \* the empty name

Nobody == [node |-> NoName, host |-> NoName]

\* A route's destination: the first bits of the addresses behind it.
Covers(route, address) == address \div 2 ^ (Width - route.bits) = route.net

\* strings.ToLower, as alerttarget.Parse applies it, and strings.EqualFold.
Lower(name) == [name EXCEPT !.spelling = "lower"]
EqualFold(a, b) == a.kind = b.kind /\ a.label = b.label

\* alerttarget.Parse takes the name, and it is not the target of all nodes.
IsNodeName(name) == name.kind = "label" /\ name.label # "all"

\* parseHostRecords: a section's node is the first valid name of its originator,
\* as the record spells it.
NodeOf(section) ==
  LET i == SelectInSeq(section.entries,
                       LAMBDA e : e.address = section.originator /\ IsNodeName(e.name)) IN
  IF i = 0 THEN NoName ELSE section.entries[i].name

\* NodesFromHostRecords: the same choice, made by a loop of its own that ends
\* with the first, and lists the target in lower case.
ListedNodes(sections) ==
  UNION {FoldLeft(LAMBDA found, e :
                    IF found = {} /\ e.address = section.originator /\ IsNodeName(e.name)
                    THEN {Lower(e.name)} ELSE found,
                  {}, section.entries) : section \in Range(sections)}

\* The pairs of section and entry, in the order in which the loops see them.
Pairs(sections) ==
  FlattenSeq([s \in DOMAIN sections |->
    [e \in DOMAIN sections[s].entries |-> [of |-> sections[s], entry |-> sections[s].entries[e]]]])

IsInfrastructureName(name) == name.kind \in {"lan", "dtdlink", "mid", "xlink"}

Candidate(pair) ==
  [node |-> NodeOf(pair.of),
   host |-> IF pair.entry.address = pair.of.originator \/ IsInfrastructureName(pair.entry.name)
            THEN NoName ELSE pair.entry.name]

\* What the loops have found: nothing yet, one answer, or two different ones.
Nothing == [state |-> "none", value |-> Nobody]
Found(value) == [state |-> "found", value |-> value]
Ambiguous == [state |-> "ambiguous", value |-> Nobody]

\* Mutant: the last record wins.
LastWins(found, value) == Found(value)

\* A second answer must be the same as the first, also in its spelling.
Meet(found, value) ==
  IF found.state = "none" \/ found = Found(value) THEN Found(value) ELSE Ambiguous

ExactHostAttribution(source, sections) ==
  FoldLeft(LAMBDA found, pair :
             IF pair.entry.address = source THEN Meet(found, Candidate(pair)) ELSE found,
           Nothing, Pairs(sections))

\* The routes are those that contain the source; a longer one replaces.
LongestRoute(source, routes) ==
  FoldLeft(LAMBDA best, route :
             IF Covers(route, source) /\ (best = <<>> \/ route.bits > best[1].bits)
             THEN <<route>> ELSE best,
           <<>>, routes)

\* "lan." + node + ".local.mesh", in any spelling.
IsLANName(name, node) == EqualFold(name, [node EXCEPT !.kind = "lan"])

\* The node whose LAN is behind the route.
RouteAttribution(route, sections) ==
  FoldLeft(LAMBDA found, pair :
             IF /\ NodeOf(pair.of) # NoName
                /\ Covers(route, pair.entry.address)
                /\ IsLANName(pair.entry.name, NodeOf(pair.of))
             THEN Meet(found, [node |-> NodeOf(pair.of), host |-> NoName]) ELSE found,
           Nothing, Pairs(sections))

Resolve(source, routes, sections) ==
  LET exact == ExactHostAttribution(source, sections)
      route == LongestRoute(source, routes) IN
  IF exact.state # "none" THEN exact
  ELSE IF route = <<>> THEN Nothing
  ELSE RouteAttribution(route[1], sections)

\* The name of the lease, unless there are two for the address.
Lookup(leases, source) ==
  FoldLeft(LAMBDA found, lease :
             IF lease.address = source /\ lease.host # NoName THEN Meet(found, lease.host) ELSE found,
           Nothing, leases)

\* Mutant: a host without a node is kept.
AttributionWithHost(resolved) == IF resolved.state = "found" THEN resolved.value ELSE Nobody

\* sourceAttribution: errors count as nothing found, and so does a host whose
\* node is not known.
SourceAttribution(resolved) ==
  IF resolved.state = "found" /\ resolved.value.node # NoName THEN resolved.value ELSE Nobody

\* mutationAuditFromContext: for addresses of the administrator's own node the
\* DHCP leases may know the host.
AuditOf(identity, source, routes, sections, leases) ==
  LET found == SourceAttribution(Resolve(source, routes, sections))
      lease == Lookup(leases, source) IN
  IF found.node # NoName /\ found.host = NoName /\ EqualFold(found.node, identity) /\ lease.state = "found"
  THEN [node |-> found.node, host |-> lease.value]
  ELSE found

\* validateMutationAudit, without which the change is refused.
AuditAccepted(audit) == audit.host # NoName => audit.node # NoName

-----------------------------------------------------------------------------
(* Properties. *)

\* Every answer that some record supports for the source itself.
Exact(source, sections) ==
  {Candidate(pair) : pair \in {p \in Range(Pairs(sections)) : p.entry.address = source}}

\* Every node with a LAN name in the narrowest network of the source.
Routed(source, routes, sections) ==
  LET around == {r \in Range(routes) : Covers(r, source)} IN
  {[node |-> NodeOf(p.of), host |-> NoName] :
     p \in {q \in Range(Pairs(sections)) :
              /\ NodeOf(q.of) # NoName
              /\ IsLANName(q.entry.name, NodeOf(q.of))
              /\ \E r \in around : /\ Covers(r, q.entry.address)
                                   /\ \A other \in around : other.bits <= r.bits}}

Supported(source, routes, sections) ==
  IF Exact(source, sections) # {} THEN Exact(source, sections) ELSE Routed(source, routes, sections)

\* Attribution never guesses: it names what all records for the address agree
\* on, or nothing, whatever the order of records and routes.
NeverGuesses(source, routes, sections) ==
  LET answers == Supported(source, routes, sections)
      resolved == Resolve(source, routes, sections) IN
  IF answers = {} THEN resolved = Nothing
  ELSE IF Cardinality(answers) = 1 THEN resolved = Found(CHOOSE a \in answers : TRUE)
  ELSE resolved = Ambiguous

\* A node that the audit log names is one that the list of local nodes offers
\* as a target, in lower case there and in the spelling of the records here:
\* the two loops choose the same name of a section.
NamesListedNodes(source, routes, sections) ==
  LET node == Resolve(source, routes, sections).value.node IN
  node # NoName => Lower(node) \in ListedNodes(sections)

\* Attribution is for display: whatever the records say, it never makes the
\* daemon refuse the change.
NeverBlocks(identity, source, routes, sections, leases) ==
  AuditAccepted(AuditOf(identity, source, routes, sections, leases))
=============================================================================
