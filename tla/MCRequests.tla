----------------------------- MODULE MCRequests ------------------------------
(* Inputs for Requests: all short paths over the words that matter, messages *)
(* of one or two classes of characters around the limits, and host records   *)
(* of two sections around one address; chunked and plain answers around the  *)
(* limit, cut at every place; directories with names that differ in case.    *)
EXTENDS Requests

CONSTANTS n1, n2

Words == {"", ".", "..", "alerts", "new", "settings", "api", "local-nodes", "delete", "convert", "a", "A", "NEW"}
MCTargetOf == ("a" :> "a") @@ ("A" :> "a") @@ ("new" :> "new") @@ ("NEW" :> "new")
MCPaths ==
  {Plain(path) : path \in BoundedSeq(Words, 4) \ {<<>>}}
  \cup {<<first, second>> : first \in {<<"alerts">>, <<"alerts", "a">>, <<"">>},
                            second \in {<<"a", "delete">>, <<"new", "">>, <<"..", "settings">>, <<"a">>}}

Steps == {0, 1, 1000, 1365, 2000, 2048, 2731, 4095, 4096}
MCSamples ==
  {[c \in Classes |-> CASE c = p[1] -> p[3] [] c = p[2] -> p[4] [] OTHER -> 0] :
     p \in Classes \X Classes \X Steps \X Steps}
MCLengths == {0, 255, 16383, 16384, 16385, 65536}

Name(kind, n, spelling) == [kind |-> kind, label |-> n, spelling |-> spelling]
MCHostNames ==
  {Name("label", n1, "lower"), Name("label", n1, "upper"), Name("label", n2, "lower"),
   Name("label", "all", "upper"), Name("other", n2, "upper"), Name("lan", n1, "upper"),
   Name("lan", n2, "lower")}
MCEntries ==
  [address : 0 .. 1, name : MCHostNames] \cup [address : {2}, name : {Name("lan", n1, "upper")}]
MCIdentity == Name("label", n1, "mixed")
SectionsOf(n) == [originator : 0 .. 1, entries : BoundedSeq(MCEntries, n)]
MCRecords ==
  {<<s, t>> : s \in SectionsOf(2), t \in SectionsOf(1)}
  \cup {<<s, t>> : s \in SectionsOf(1), t \in SectionsOf(2)}

Net(bits, net) == [bits |-> bits, net |-> net]
MCRouteTables == {<<>>, <<Net(2, 0), Net(0, 0), Net(1, 1)>>, <<Net(0, 0), Net(1, 0)>>}
MCLeaseFiles ==
  LET h1 == Name("other", n1, "lower")
      h2 == Name("other", n1, "upper") IN
  {<<[address |-> 0, host |-> h2], [address |-> 0, host |-> NoName], [address |-> 1, host |-> h1]>>,
   <<[address |-> 0, host |-> h1], [address |-> 0, host |-> h2]>>}

Item(kind, n) == [is |-> kind, n |-> n]
Bytes(n) == [i \in 1 .. n |-> Item("data", 0)]
Chunk(n) == <<Item("size", n)>> \o Bytes(n) \o <<Item("crlf", 0)>>
Chunked(sizes, trailers) ==
  FlattenSeq([i \in DOMAIN sizes |-> Chunk(sizes[i])])
  \o <<Item("size", 0)>> \o [i \in 1 .. trailers |-> Item("line", 0)] \o <<Item("crlf", 0)>>
Prefixed(chunked, items, whole) ==
  {[chunked |-> chunked, items |-> SubSeq(items, 1, k), whole |-> whole, complete |-> k = Len(items)] :
     k \in 0 .. Len(items)}
MCAnswers ==
  UNION {Prefixed(TRUE, Chunked(sizes, trailers), FoldLeft(+, 0, sizes)) :
           sizes \in BoundedSeq(1 .. 3, 3), trailers \in 0 .. 1}
  \cup UNION {Prefixed(FALSE, Bytes(n), n) : n \in 0 .. 7}

MCFileNames ==
  {[stem |-> n[1], spelling |-> n[2], txt |-> n[3]] :
     n \in {<<1, 0, TRUE>>, <<1, 1, TRUE>>, <<1, 2, TRUE>>, <<1, 2, FALSE>>, <<2, 2, TRUE>>, <<3, 2, TRUE>>}}
MCDirectories == UNION {[names -> Findings] : names \in SUBSET MCFileNames}
=============================================================================
